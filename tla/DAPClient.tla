----------------------------- MODULE DAPClient ------------------------------
(***************************************************************************)
(* DAPClient of dap.go: the response registry, the goroutine readLoop that *)
(* is the only reader of the socket, the goroutine reconnectLoop that      *)
(* replaces a lost connection, and the tool handlers that send requests    *)
(* and await the responses.  Connections are numbered: cur is the one      *)
(* behind c.rwc and c.reader.  Every step is what one goroutine does       *)
(* between two points where another may run: a section under a mutex, an   *)
(* atomic, a channel operation or one call of the network.                 *)
(***************************************************************************)
EXTENDS Naturals, FiniteSets

CONSTANTS
    Callers,        \* tool handlers; each holds ds.mu during its request
    Hook,           \* the reinit hook, reinitialize, run by reconnectLoop
    Closer,         \* the handler in cleanup (stop, debug)
    NoOne,          \* ds.mu is free
    HasRedialer,    \* c.backend is a Redialer (ConnectBackend), not nil
    MaxCalls,       \* bound: requests issued by tool handlers
    MaxGen,         \* bound: connections ever installed or dialled
    MaxDrops,       \* bound: connections lost to the network or the adapter
    MaxForces,      \* bound: forced reconnects (the reconnect tool)
    AllowClose,     \* the session may be stopped
    AllowCancel,    \* a handler's ctx may be cancelled while it awaits
    SilentLoss,     \* a write may succeed on a connection nobody reads any more
    Pipes           \* the connection is gdb's stdin and stdout

Procs == Callers \cup {Hook}
Gens == 1 .. MaxGen
Seqs == 1 .. MaxCalls + 2 * MaxGen

ASSUME BoundsAssumption ==
    /\ MaxCalls \in Nat
    /\ MaxGen \in Nat \ {0}
    /\ MaxDrops \in Nat
    /\ MaxForces \in Nat
ASSUME SwitchAssumption ==
    /\ HasRedialer \in BOOLEAN
    /\ AllowClose \in BOOLEAN
    /\ AllowCancel \in BOOLEAN
    /\ SilentLoss \in BOOLEAN
    /\ Pipes \in BOOLEAN /\ (Pipes => ~HasRedialer)
ASSUME ProcAssumption ==
    /\ Hook \notin Callers
    /\ Closer \notin Procs
    /\ NoOne \notin Procs \cup {Closer}

VARIABLES
    \* c.seq, c.responses and the one-shot channels
    nextSeq,    \* c.seq
    responses,  \* domain of c.responses
    chan,       \* per seq: "none", "open" or "closed"
    buf,        \* per seq: the connection its buffered response came from, or 0
    \* the transport
    cur,        \* c.rwc / c.reader
    link,       \* per connection: "none", "up", "down" (peer gone), "closed",
                \* or "shut" (gdb's stdin closed, its stdout still open)
    wire,       \* per connection: requests the adapter has not answered
    inbox,      \* per connection: responses not read yet
    sentOn,     \* history, per seq: the connection it was written to, or 0
    initEvent,  \* per connection, its InitializedEvent: "none", "due" or "sent"
    \* flags and signals
    stale, reconnCh, pumpResume, ctxDone,
    \* goroutines
    dsMu,       \* holder of debuggerSession.mu
    pc, seqOf,  \* callers and the hook: where they are, their request
    rl, rlGen, rlSeq,   \* readLoop: where it is, its reader, its response
    rc, newGen, \* reconnectLoop: where it is, the connection it dialled
    inRing,     \* the ring has an InitializedEvent from after the hook's since
    hookGot,    \* in the hook's two subscriptions: "init", "lost"
    closing,    \* Close: "no", "cancelled", "waiting", "done"
    initialised,    \* history: the DAP handshake was done on cur
    calls, drops, forces    \* bounded counters

registry == <<nextSeq, responses, chan, buf>>
transport == <<cur, link, wire, inbox, sentOn, initEvent>>
signals == <<stale, reconnCh, pumpResume, ctxDone>>
handlers == <<dsMu, pc, seqOf>>
reader == <<rl, rlGen, rlSeq>>
events == <<inRing, hookGot>>
recon == <<rc, newGen, initialised, events>>
counters == <<calls, drops, forces>>
vars == <<registry, transport, signals, handlers, reader, recon, closing, counters>>

-----------------------------------------------------------------------------
\* MUTANT of FirstSeq: numbering from the zero value.
FirstSeqZero == 0

\* newDAPClientInternal numbers requests from 1, as VS Code does.
FirstSeq == 1

Init ==
    /\ nextSeq = FirstSeq
    /\ responses = {}
    /\ chan = [s \in Seqs |-> "none"]
    /\ buf = [s \in Seqs |-> 0]
    /\ cur = 1
    /\ link = [g \in Gens |-> IF g = 1 THEN "up" ELSE "none"]
    /\ wire = [g \in Gens |-> {}]
    /\ inbox = [g \in Gens |-> {}]
    /\ sentOn = [s \in Seqs |-> 0]
    /\ stale = FALSE /\ reconnCh = FALSE /\ pumpResume = FALSE /\ ctxDone = FALSE
    /\ dsMu = NoOne
    /\ pc = [p \in Procs |-> "idle"]
    /\ seqOf = [p \in Procs |-> 0]
    /\ rl = "top" /\ rlGen = 1 /\ rlSeq = 0
    /\ rc = "idle" /\ newGen = 1
    /\ closing = "no"
    /\ initialised = TRUE
    /\ initEvent = [g \in Gens |-> "none"] /\ inRing = FALSE /\ hookGot = {}
    /\ calls = 0 /\ drops = 0 /\ forces = 0

-----------------------------------------------------------------------------
(* Shared pieces of the handlers.                                          *)

\* MUTANT of MarkStale: an unbuffered reconnCh, received only in the select.
MarkStaleUnbuffered ==
    /\ stale' = TRUE
    /\ reconnCh' = (reconnCh \/ (~stale /\ rc = "idle"))

\* markStale: compare-and-swap, then a send on a channel of capacity one.
MarkStale ==
    /\ stale' = TRUE
    /\ reconnCh' = (reconnCh \/ ~stale)

\* MUTANT of CloseRegistry: a fresh map, the channels left open.
CloseRegistryUnclosed == responses' = {} /\ UNCHANGED chan

\* closeRegistry: under registryMu, close and forget every pending channel.
CloseRegistry ==
    /\ responses' = {}
    /\ chan' = [s \in Seqs |-> IF s \in responses THEN "closed" ELSE chan[s]]

\* registerResponseIfAbsent.
Register(s) ==
    /\ responses' = responses \cup {s}
    /\ chan' = [chan EXCEPT ![s] = IF s \in responses THEN @ ELSE "open"]
    /\ buf' = [buf EXCEPT ![s] = IF s \in responses THEN @ ELSE 0]

\* unregisterResponse: the channel stays open, only the map forgets it.
Unregister(s) == responses' = responses \ {s}

\* MUTANT of TakeOut: the entry is deleted only by a later owner.
TakeOutForgotten(s) == UNCHANGED responses

\* dispatchResponse takes the entry out under the lock that looks it up.
TakeOut(s) == responses' = responses \ {s}

\* MUTANT of CloseLink: the connection is only forgotten.
CloseLinkForgotten(g) == UNCHANGED link

\* rwc.Close of connection g.
CloseLink(g) == link' = [link EXCEPT ![g] = "closed"]

\* MUTANT of SeqAfterSwap: numbering starts over on the new connection.
SeqReset == 1

\* replaceConn leaves seq alone, so numbers are never used twice (ADR-11).
SeqAfterSwap == nextSeq

\* Where the hook is in awaitInitializedEvent.
AwaitsInit == {"attached", "snapped", "subscribed", "listening"}

\* A process leaves its request; a handler also returns and releases ds.mu.
Return(p) ==
    /\ pc' = [pc EXCEPT ![p] = "idle"]
    /\ seqOf' = [seqOf EXCEPT ![p] = 0]
    /\ dsMu' = IF p = Hook THEN dsMu ELSE NoOne

-----------------------------------------------------------------------------
(* Requests: newRequest, send / sendAndRegister, AwaitResponse.            *)

\* A handler takes ds.mu, allocates its seq and loads stale: it fails fast
\* on a stale connection, the seq being spent all the same.
Begin(c) ==
    /\ pc[c] = "idle" /\ dsMu = NoOne /\ closing # "done"
    /\ calls < MaxCalls
    /\ calls' = calls + 1
    /\ nextSeq' = nextSeq + 1
    /\ \/ stale /\ UNCHANGED handlers
       \/ /\ ~stale
          /\ dsMu' = c
          /\ pc' = [pc EXCEPT ![c] = "begun"]
          /\ seqOf' = [seqOf EXCEPT ![c] = nextSeq]
    /\ UNCHANGED <<responses, chan, buf, transport, signals, reader, recon,
                   closing, drops, forces>>

DoRegister(p) ==
    /\ pc[p] = "begun"
    /\ Register(seqOf[p])
    /\ pc' = [pc EXCEPT ![p] = "registered"]
    /\ UNCHANGED <<nextSeq, transport, signals, dsMu, seqOf, reader, recon,
                   closing, counters>>

\* rawSend, under c.mu: the request reaches the adapter of the current
\* connection, or vanishes in the buffers of one whose peer is gone.  The
\* adapter owes the hook an InitializedEvent once it has the attach request.
WriteOk(p) ==
    /\ pc[p] = "registered"
    /\ link[cur] \in (IF SilentLoss THEN {"up", "down"} ELSE {"up"})
    /\ wire' = IF link[cur] = "up"
               THEN [wire EXCEPT ![cur] = @ \cup {seqOf[p]}] ELSE wire
    /\ sentOn' = [sentOn EXCEPT ![seqOf[p]] = cur]
    /\ initEvent' = IF link[cur] = "up" /\ p = Hook /\ rc = "inHook"
                    THEN [initEvent EXCEPT ![cur] = "due"] ELSE initEvent
    /\ pc' = [pc EXCEPT ![p] = "sent"]
    /\ UNCHANGED <<registry, cur, link, inbox, signals, dsMu, seqOf, reader,
                   recon, closing, counters>>

\* A write error: the registration is withdrawn first.
WriteErr(p) ==
    /\ pc[p] = "registered"
    /\ link[cur] \in {"down", "shut", "closed"}
    /\ Unregister(seqOf[p])
    /\ pc' = [pc EXCEPT ![p] = "writeErr"]
    /\ UNCHANGED <<nextSeq, chan, buf, transport, signals, dsMu, seqOf, reader,
                   recon, closing, counters>>

\* Then sendAndRegister marks the client stale and the handler returns the
\* error; the raw variant of the hook leaves stale alone.
WriteFailed(p) ==
    /\ pc[p] = "writeErr"
    /\ Return(p)
    /\ IF p = Hook
       THEN /\ rc' = "hookErr"
            /\ UNCHANGED <<stale, reconnCh>>
       ELSE MarkStale /\ UNCHANGED rc
    /\ UNCHANGED <<registry, transport, pumpResume, ctxDone, reader, newGen,
                   initialised, events, closing, counters>>

\* Attached, the hook waits for InitializedEvent; the rest done, it returns.
HookGoesOn == IF rc = "inHook" THEN "attached" ELSE "hookOk"

\* What a process does with the outcome of AwaitResponse.
Finish(p, ok) ==
    /\ Return(p)
    /\ rc' = IF p # Hook THEN rc ELSE IF ok THEN HookGoesOn ELSE "hookErr"
    /\ UNCHANGED <<registry, transport, signals, reader, newGen, initialised, events,
                   closing, counters>>

\* AwaitResponse looks its channel up in the map ...
Lookup(p) ==
    /\ pc[p] = "sent" /\ seqOf[p] \in responses
    /\ pc' = [pc EXCEPT ![p] = "waiting"]
    /\ UNCHANGED <<registry, transport, signals, dsMu, seqOf, reader, recon,
                   closing, counters>>

\* ... and returns ErrConnectionStale when it is not there.
LookupMiss(p) ==
    /\ pc[p] = "sent" /\ seqOf[p] \notin responses
    /\ Finish(p, FALSE)

\* An answer may be a refusal, at which the hook fails.
Receive(p) ==
    /\ pc[p] = "waiting" /\ buf[seqOf[p]] # 0
    /\ \E ok \in BOOLEAN : Finish(p, ok)

ReceiveClosed(p) ==
    /\ pc[p] = "waiting" /\ buf[seqOf[p]] = 0 /\ chan[seqOf[p]] = "closed"
    /\ Finish(p, FALSE)

\* ctx.Done of the caller; the registration stays behind.  The context of
\* the hook is the client's, cancelled only by Close, whose caller holds the
\* ds.mu that the hook would be holding.
Cancel(c) ==
    /\ AllowCancel
    /\ pc[c] = "waiting"
    /\ Finish(c, FALSE)

-----------------------------------------------------------------------------
(* readLoop.                                                               *)

\* The check of ctx at the top of the loop.
ReadTop ==
    /\ rl = "top"
    /\ rl' = IF ctxDone THEN "exit" ELSE "load"
    /\ UNCHANGED <<registry, transport, signals, handlers, rlGen, rlSeq, recon,
                   closing, counters>>

\* Load c.reader under c.mu, then block in ReadProtocolMessage.
LoadReader ==
    /\ rl = "load"
    /\ rl' = "read" /\ rlGen' = cur
    /\ UNCHANGED <<registry, transport, signals, handlers, rlSeq, recon,
                   closing, counters>>

\* dispatchResponse, first half: under registryMu take the entry out.  What
\* the adapter sent before the connection broke may still be read.  An orphan
\* is dropped.
ReadResponse(s) ==
    /\ rl = "read" /\ s \in inbox[rlGen]
    /\ inbox' = [inbox EXCEPT ![rlGen] = @ \ {s}]
    /\ IF s \in responses
       THEN rl' = "deliver" /\ rlSeq' = s
       ELSE rl' = "top" /\ UNCHANGED rlSeq
    /\ TakeOut(s)
    /\ UNCHANGED <<nextSeq, chan, buf, cur, link, wire, sentOn,
                   initEvent, signals, handlers, rlGen, recon, closing, counters>>

\* dispatchResponse, second half: the send on the one-shot channel.
Deliver ==
    /\ rl = "deliver"
    /\ buf' = [buf EXCEPT ![rlSeq] = rlGen]
    /\ rl' = "top"
    /\ UNCHANGED <<nextSeq, responses, chan, transport, signals, handlers,
                   rlGen, rlSeq, recon, closing, counters>>

\* dispatchEvent (EventBus has its steps): the InitializedEvent is recorded
\* in the ring ...
ReadEvent ==
    /\ rl = "read" /\ initEvent[rlGen] = "sent"
    /\ initEvent' = [initEvent EXCEPT ![rlGen] = "none"]
    /\ inRing' = (rc \in AwaitsInit \cup {"inHook"})
    /\ rl' = "fanout"
    /\ UNCHANGED <<registry, cur, link, wire, inbox, sentOn, signals, handlers,
                   rlGen, rlSeq, rc, newGen, initialised, hookGot, closing,
                   counters>>

\* ... and sent to the subscription of the hook, if that is registered.
FanOut ==
    /\ rl = "fanout"
    /\ hookGot' = IF rc \in {"subscribed", "listening"}
                  THEN hookGot \cup {"init"} ELSE hookGot
    /\ rl' = "top"
    /\ UNCHANGED <<registry, transport, signals, handlers, rlGen, rlSeq, rc,
                   newGen, initialised, inRing, closing, counters>>

\* ReadProtocolMessage failed: at a stop readLoop ends, else the connection
\* is given up.
GiveUp ==
    /\ rl = "read"
    /\ IF ctxDone
       THEN rl' = "exit" /\ UNCHANGED <<stale, reconnCh>>
       ELSE rl' = "lost" /\ MarkStale
    /\ UNCHANGED <<registry, transport, pumpResume, ctxDone, handlers, rlGen,
                   rlSeq, recon, closing, calls, forces>>

\* A connection that broke or was closed.
ReadError == link[rlGen] \in {"down", "closed"} /\ GiveUp /\ UNCHANGED drops

\* A message that cannot be decoded, on a connection that stays up.
ReadGarbage ==
    /\ SilentLoss /\ link[rlGen] = "up" /\ drops < MaxDrops
    /\ drops' = drops + 1
    /\ GiveUp

\* Then closeRegistry ...
ReadDrain ==
    /\ rl = "lost"
    /\ CloseRegistry
    /\ rl' = "tell"
    /\ UNCHANGED <<nextSeq, buf, transport, signals, handlers, rlGen, rlSeq,
                   recon, closing, counters>>

\* ... and broadcastEvent, which reaches who is subscribed now and leaves
\* nothing in the ring; then wait.
TellLoss ==
    /\ rl = "tell"
    /\ hookGot' = IF rc = "listening" THEN hookGot \cup {"lost"} ELSE hookGot
    /\ rl' = "park"
    /\ UNCHANGED <<registry, transport, signals, handlers, rlGen, rlSeq, rc,
                   newGen, initialised, inRing, closing, counters>>

ReadResume ==
    /\ rl = "park" /\ pumpResume
    /\ pumpResume' = FALSE /\ rl' = "top"
    /\ UNCHANGED <<registry, transport, stale, reconnCh, ctxDone, handlers,
                   rlGen, rlSeq, recon, closing, counters>>

ReadStop ==
    /\ rl = "park" /\ ctxDone
    /\ rl' = "exit"
    /\ UNCHANGED <<registry, transport, signals, handlers, rlGen, rlSeq, recon,
                   closing, counters>>

-----------------------------------------------------------------------------
(* reconnectLoop and doReconnect.                                          *)

\* Without a Redialer the loop ends at the first loss.
Wake ==
    /\ rc = "idle" /\ reconnCh
    /\ reconnCh' = FALSE
    /\ rc' = IF HasRedialer THEN "attempt" ELSE "exit"
    /\ UNCHANGED <<registry, transport, stale, pumpResume, ctxDone, handlers,
                   reader, newGen, initialised, events, closing, counters>>

ReconStop ==
    /\ rc \in {"idle", "attempt"} /\ ctxDone
    /\ rc' = "exit"
    /\ UNCHANGED <<registry, transport, signals, handlers, reader, newGen,
                   initialised, events, closing, counters>>

\* Redial succeeds; a failed attempt only waits and tries again (stutter).
Redial ==
    /\ rc = "attempt" /\ ~ctxDone
    /\ newGen < MaxGen
    /\ newGen' = newGen + 1
    /\ link' = [link EXCEPT ![newGen + 1] = "up"]
    /\ rc' = "dialled"
    /\ UNCHANGED <<registry, cur, wire, inbox, sentOn, initEvent, signals, handlers,
                   reader, initialised, events, closing, counters>>

CloseOld ==
    /\ rc = "dialled"
    /\ CloseLink(cur)
    /\ rc' = "check"
    /\ UNCHANGED <<registry, cur, wire, inbox, sentOn, initEvent, signals, handlers,
                   reader, newGen, initialised, events, closing, counters>>

\* Abort if Close came in between, giving the new connection up.
CheckClosed ==
    /\ rc = "check"
    /\ IF ctxDone
       THEN rc' = "exit" /\ CloseLink(newGen)
       ELSE rc' = "swap" /\ UNCHANGED link
    /\ UNCHANGED <<registry, cur, wire, inbox, sentOn, initEvent, signals, handlers,
                   reader, newGen, initialised, events, closing, counters>>

\* replaceConn: swap under c.mu, drain the registry, wake readLoop.
Swap ==
    /\ rc = "swap"
    /\ cur' = newGen
    /\ nextSeq' = SeqAfterSwap
    /\ initialised' = FALSE
    /\ rc' = "drain"
    /\ UNCHANGED <<responses, chan, buf, link, wire, inbox, sentOn, initEvent,
                   signals, handlers, reader, newGen, events, closing, counters>>

Drain ==
    /\ rc = "drain"
    /\ CloseRegistry
    /\ rc' = "resume"
    /\ UNCHANGED <<nextSeq, buf, transport, signals, handlers, reader, newGen,
                   initialised, events, closing, counters>>

\* MUTANT of Resume: readLoop is not woken.
ResumeForgotten ==
    /\ rc = "resume"
    /\ rc' = "hook"
    /\ UNCHANGED <<registry, transport, signals, handlers, reader, newGen,
                   initialised, events, closing, counters>>

\* The token for readLoop, on a channel of capacity one.
Resume ==
    /\ rc = "resume"
    /\ pumpResume' = TRUE
    /\ rc' = "hook"
    /\ UNCHANGED <<registry, transport, stale, reconnCh, ctxDone, handlers,
                   reader, newGen, initialised, events, closing, counters>>

\* The hook allocates its next request.
HookRequest ==
    /\ nextSeq' = nextSeq + 1
    /\ pc' = [pc EXCEPT ![Hook] = "begun"]
    /\ seqOf' = [seqOf EXCEPT ![Hook] = nextSeq]

\* notifySessionReconnected: reinitialize waits for ds.mu, fails when the
\* session has gone, and otherwise sends a raw request, which stands for
\* initialize and attach; since is read before it.
HookStart ==
    /\ rc = "hook" /\ dsMu = NoOne
    /\ IF closing = "done"
       THEN rc' = "hookErr" /\ UNCHANGED <<nextSeq, handlers>>
       ELSE /\ rc' = "inHook"
            /\ dsMu' = Hook
            /\ HookRequest
    /\ UNCHANGED <<responses, chan, buf, transport, signals, reader, newGen,
                   initialised, events, closing, counters>>

\* awaitInitializedEvent.  Subscribe: the snapshot of the ring ...
HookSnapshot ==
    /\ rc = "attached"
    /\ rc' = "snapped"
    /\ hookGot' = IF inRing THEN {"init"} ELSE {}
    /\ UNCHANGED <<registry, transport, signals, handlers, reader, newGen,
                   initialised, inRing, closing, counters>>

\* ... the registration, and the same for ConnectionLostEvent.
HookSubscribe ==
    /\ \/ rc = "snapped" /\ rc' = "subscribed"
       \/ rc = "subscribed" /\ rc' = "listening"
    /\ UNCHANGED <<registry, transport, signals, handlers, reader, newGen,
                   initialised, events, closing, counters>>

\* Both subscriptions are cancelled, and since is forgotten.
EventsOver == inRing' = FALSE /\ hookGot' = {}

\* The select: InitializedEvent, whereupon one request stands for
\* setBreakpoints, setFunctionBreakpoints and configurationDone ...
HookInit ==
    /\ rc = "listening" /\ "init" \in hookGot
    /\ rc' = "rest"
    /\ HookRequest
    /\ EventsOver
    /\ UNCHANGED <<responses, chan, buf, transport, signals, dsMu, reader,
                   newGen, initialised, closing, counters>>

\* ... or the loss of the connection.  The third case, c.ctx, is cancelled
\* by Close alone, whose caller needs the ds.mu that the hook holds.
HookLost ==
    /\ rc = "listening" /\ "lost" \in hookGot
    /\ rc' = "hookErr"
    /\ EventsOver
    /\ UNCHANGED <<registry, transport, signals, handlers, reader, newGen,
                   initialised, closing, counters>>

\* The hook returns and releases ds.mu; on an error markStale is called.
HookOk ==
    /\ rc = "hookOk"
    /\ rc' = "clear" /\ initialised' = TRUE
    /\ dsMu' = NoOne
    /\ UNCHANGED <<registry, transport, signals, pc, seqOf, reader, newGen,
                   events, closing, counters>>

HookErr ==
    /\ rc = "hookErr"
    /\ rc' = "clear"
    /\ EventsOver
    /\ dsMu' = IF dsMu = Hook THEN NoOne ELSE dsMu
    /\ MarkStale
    /\ UNCHANGED <<registry, transport, pumpResume, ctxDone, pc, seqOf, reader,
                   newGen, initialised, closing, counters>>

\* stale.Store(false) ...
ClearStale ==
    /\ rc = "clear"
    /\ stale' = FALSE
    /\ rc' = "return"
    /\ UNCHANGED <<registry, transport, reconnCh, pumpResume, ctxDone, handlers,
                   reader, newGen, initialised, events, closing, counters>>

\* ... and back to the select of reconnectLoop.
LoopAgain ==
    /\ rc = "return"
    /\ rc' = "idle"
    /\ UNCHANGED <<registry, transport, signals, handlers, reader, newGen,
                   initialised, events, closing, counters>>

-----------------------------------------------------------------------------
(* Close, called from cleanup under ds.mu.                                 *)

CloseCancel ==
    /\ AllowClose
    /\ closing = "no" /\ dsMu = NoOne
    /\ dsMu' = Closer
    /\ ctxDone' = TRUE
    /\ closing' = "cancelled"
    /\ UNCHANGED <<registry, transport, stale, reconnCh, pumpResume, pc, seqOf,
                   reader, recon, counters>>

\* MUTANT of CloseConn: over pipes nothing is closed.
CloseConnNotPipes ==
    /\ closing = "cancelled"
    /\ IF Pipes THEN UNCHANGED link ELSE CloseLink(cur)
    /\ closing' = "waiting"
    /\ UNCHANGED <<registry, cur, wire, inbox, sentOn, initEvent, signals, handlers,
                   reader, recon, counters>>

\* Over pipes only gdb's stdin is closed, which leaves its stdout to be read.
CloseConn ==
    /\ closing = "cancelled"
    /\ IF Pipes /\ link[cur] = "up"
       THEN link' = [link EXCEPT ![cur] = "shut"]
       ELSE CloseLink(cur)
    /\ closing' = "waiting"
    /\ UNCHANGED <<registry, cur, wire, inbox, sentOn, initEvent, signals, handlers,
                   reader, recon, counters>>

\* MUTANT of CloseDone: readLoop is not waited for.
CloseDoneAtOnce ==
    /\ closing = "waiting"
    /\ closing' = "done"
    /\ dsMu' = NoOne
    /\ UNCHANGED <<registry, transport, signals, pc, seqOf, reader, recon,
                   counters>>

\* <-c.pumpDone; then cleanup forgets the client and releases ds.mu.
CloseDone ==
    /\ closing = "waiting" /\ rl = "exit"
    /\ closing' = "done"
    /\ dsMu' = NoOne
    /\ UNCHANGED <<registry, transport, signals, pc, seqOf, reader, recon,
                   counters>>

\* The reconnect tool with force=true calls markStale without ds.mu.
ForceReconnect ==
    /\ HasRedialer /\ forces < MaxForces /\ closing # "done"
    /\ forces' = forces + 1
    /\ MarkStale
    /\ UNCHANGED <<registry, transport, pumpResume, ctxDone, handlers, reader,
                   recon, closing, calls, drops>>

-----------------------------------------------------------------------------
(* The adapter and the network.                                            *)

Answer(g, s) ==
    /\ link[g] \in {"up", "shut"} /\ s \in wire[g]
    /\ wire' = [wire EXCEPT ![g] = @ \ {s}]
    /\ inbox' = [inbox EXCEPT ![g] = @ \cup {s}]
    /\ UNCHANGED <<registry, cur, link, sentOn, initEvent, signals, handlers,
                   reader, recon, closing, counters>>

\* The InitializedEvent, before or after the answer to attach.
Announce(g) ==
    /\ link[g] = "up" /\ initEvent[g] = "due"
    /\ initEvent' = [initEvent EXCEPT ![g] = "sent"]
    /\ UNCHANGED <<registry, cur, link, wire, inbox, sentOn, signals, handlers,
                   reader, recon, closing, counters>>

\* gdb ends at the end of its input, and with it its output.
EndOfInput(g) ==
    /\ link[g] = "shut"
    /\ link' = [link EXCEPT ![g] = "closed"]
    /\ UNCHANGED <<registry, cur, wire, inbox, sentOn, initEvent, signals,
                   handlers, reader, recon, closing, counters>>

Drop(g) ==
    /\ link[g] = "up" /\ drops < MaxDrops
    /\ drops' = drops + 1
    /\ link' = [link EXCEPT ![g] = "down"]
    /\ UNCHANGED <<registry, cur, wire, inbox, sentOn, initEvent, signals,
                   handlers, reader, recon, closing, calls, forces>>

-----------------------------------------------------------------------------
Request(p) ==
    \/ DoRegister(p) \/ WriteOk(p) \/ WriteErr(p) \/ WriteFailed(p)
    \/ Lookup(p) \/ LookupMiss(p) \/ Receive(p) \/ ReceiveClosed(p)

ReadLoop ==
    \/ ReadTop \/ LoadReader \/ \E s \in Seqs : ReadResponse(s)
    \/ Deliver \/ ReadEvent \/ FanOut
    \/ ReadError \/ ReadDrain \/ TellLoss \/ ReadResume \/ ReadStop

ReconnectLoop ==
    \/ Wake \/ ReconStop \/ Redial
    \/ CloseOld \/ CheckClosed \/ Swap \/ Drain \/ Resume
    \/ HookStart \/ HookSnapshot \/ HookSubscribe \/ HookInit \/ HookLost
    \/ HookOk \/ HookErr \/ ClearStale \/ LoopAgain

Close == CloseCancel \/ CloseConn \/ CloseDone

Adapter ==
    \E g \in Gens :
        (\E s \in Seqs : Answer(g, s)) \/ Announce(g) \/ EndOfInput(g)

Next ==
    \/ \E p \in Procs : Request(p)
    \/ \E c \in Callers : Begin(c) \/ Cancel(c)
    \/ ReadLoop
    \/ ReadGarbage
    \/ ReconnectLoop
    \/ Close
    \/ ForceReconnect
    \/ Adapter
    \/ \E g \in Gens : Drop(g)

Spec == Init /\ [][Next]_vars

\* The Go scheduler runs every goroutine that can run, the adapter answers
\* and sends its InitializedEvent while its connection is up, gdb ends when
\* its input does, and a dial succeeds in the end (doReconnect retries
\* without limit).  Nothing is assumed of losses, garbage, forced reconnects,
\* cancellation, stop, or of new calls.
Fairness ==
    /\ \A p \in Procs : WF_vars(Request(p))
    /\ WF_vars(ReadLoop)
    /\ WF_vars(ReconnectLoop)
    /\ WF_vars(CloseConn \/ CloseDone)
    /\ WF_vars(Adapter)

FairSpec == Spec /\ Fairness

-----------------------------------------------------------------------------
(* Properties.                                                             *)

PcStates == {"idle", "begun", "registered", "writeErr", "sent", "waiting"}
RlStates == {"top", "load", "read", "deliver", "fanout", "lost", "tell", "park",
             "exit"}
RcStates == {"idle", "attempt", "dialled", "check", "swap", "drain", "resume",
             "hook", "inHook", "rest", "hookOk", "hookErr", "clear", "return",
             "exit"} \cup AwaitsInit

RegistryOK ==
    /\ nextSeq \in Nat \ {0}
    /\ responses \subseteq Seqs
    /\ chan \in [Seqs -> {"none", "open", "closed"}]
    /\ buf \in [Seqs -> 0 .. MaxGen]
TransportOK ==
    /\ cur \in Gens
    /\ link \in [Gens -> {"none", "up", "down", "shut", "closed"}]
    /\ wire \in [Gens -> SUBSET Seqs]
    /\ inbox \in [Gens -> SUBSET Seqs]
    /\ sentOn \in [Seqs -> 0 .. MaxGen]
    /\ initEvent \in [Gens -> {"none", "due", "sent"}]
SignalsOK ==
    /\ stale \in BOOLEAN /\ reconnCh \in BOOLEAN
    /\ pumpResume \in BOOLEAN /\ ctxDone \in BOOLEAN
HandlersOK ==
    /\ dsMu \in Procs \cup {Closer, NoOne}
    /\ pc \in [Procs -> PcStates]
    /\ seqOf \in [Procs -> Seqs \cup {0}]
ReaderOK == rl \in RlStates /\ rlGen \in Gens /\ rlSeq \in Seqs \cup {0}
ReconOK ==
    /\ rc \in RcStates /\ newGen \in Gens /\ initialised \in BOOLEAN
    /\ inRing \in BOOLEAN /\ hookGot \subseteq {"init", "lost"}
    /\ closing \in {"no", "cancelled", "waiting", "done"}
CountersOK ==
    /\ calls \in 0 .. MaxCalls
    /\ drops \in 0 .. MaxDrops
    /\ forces \in 0 .. MaxForces

\* Type correctness of the client's state (struct DAPClient, dap.go:48-83):
\* what is registered, buffered and in transit stays within the numbers that
\* were allocated.
TypeOK ==
    /\ RegistryOK /\ TransportOK /\ SignalsOK /\ HandlersOK
    /\ ReaderOK /\ ReconOK /\ CountersOK

\* A caller blocked in AwaitResponse on an empty open channel can still be
\* woken: its seq is in the registry, or readLoop has just taken it out and
\* is about to send.  No removal from c.responses may strand a waiter.
NoLostWaiter ==
    \A p \in Procs :
        pc[p] = "waiting" /\ chan[seqOf[p]] = "open" /\ buf[seqOf[p]] = 0 =>
            seqOf[p] \in responses \/ (rl = "deliver" /\ rlSeq = seqOf[p])

\* The send of dispatchResponse (dap.go:1097), which is outside the lock,
\* neither panics on a closed channel nor blocks readLoop on a full one.
DeliverIsSafe ==
    rl = "deliver" => chan[rlSeq] = "open" /\ buf[rlSeq] = 0

\* A response completes only a request written to the connection it was read
\* from, although readLoop may still read the old connection after the swap
\* (why seq is not reset by replaceConn, ADR-11).
NoCrossTalk ==
    \A s \in Seqs : buf[s] # 0 => buf[s] = sentOn[s]

\* A stale client with a Redialer is always on its way back: the wake-up is
\* pending or reconnectLoop is at work, so markStale's non-blocking send
\* never loses the signal.
StaleIsPursued ==
    HasRedialer /\ stale /\ ~ctxDone =>
        reconnCh \/ rc \notin {"idle", "return", "exit"}

\* Connections do not pile up: only the current one and the one being
\* installed can be up (doReconnect closes the old one first), as long as
\* the client is not being closed.
OneLiveConnection ==
    ~ctxDone => \A g \in Gens :
        link[g] = "up" => g = cur \/ (g = newGen /\ rc \in {"dialled", "check", "swap"})

\* The hook waits for an event that will not come: either the
\* InitializedEvent was recorded and sent to the subscribers after its
\* snapshot and before its registration, or the loss was told before it had
\* subscribed to losses, and readLoop has nothing more to tell.
HookDeaf ==
    /\ rc = "listening" /\ hookGot = {}
    /\ (inRing /\ rl # "fanout") \/ (rl = "park" /\ ~pumpResume)

\* Every loss is recovered from: a stale client becomes usable again (or is
\* closed), unless its hook is left waiting, with ds.mu, by one of the two
\* gaps of awaitInitializedEvent (tools.go:402-421).  In particular the hook,
\* which needs ds.mu, is never locked out by a handler that awaits a response
\* of the dead connection.
Recovers == stale ~> (~stale \/ ctxDone \/ []HookDeaf)

\* Every request ends, with a response or an error, whatever the connection
\* does meanwhile.
CallsReturn ==
    \A c \in Callers : pc[c] # "idle" ~> pc[c] = "idle"

\* stop ends: Close never waits for ever for readLoop.
CloseReturns == closing # "no" ~> closing = "done"

\* What the session sees of it: reconnectLoop has a new connection from the
\* swap on, and the hook runs from the moment it has ds.mu.
LoopSeen ==
    IF rc \in {"idle", "attempt", "dialled", "check", "swap", "return"} THEN "idle"
    ELSE IF rc \in {"drain", "resume", "hook"} THEN "hook"
    ELSE IF rc = "exit" THEN "done"
    ELSE IF dsMu = Hook THEN "inHook" ELSE "clear"
MuSeen == IF dsMu = NoOne THEN "free" ELSE IF dsMu = Hook THEN "hook" ELSE "taken"

Life == INSTANCE ClientLife
    WITH CanRedial <- HasRedialer, mu <- MuSeen, closed <- ctxDone,
         pumping <- rl # "exit", loop <- LoopSeen, conn <- cur, ready <- initialised

\* To the session the client is a ClientLife: it becomes usable again only
\* after the hook ran alone with ds.mu, and is closed only with its readLoop.
LifeSpec == Life!Spec

-----------------------------------------------------------------------------
(* What comments and documents say, and the code does not do.              *)

\* dap.go:1058-1060: when AwaitResponse does not find its channel, either
\* closeRegistry has run or the seq was never registered.
LookupMissMeansDrained ==
    \A p \in Procs :
        pc[p] = "sent" /\ seqOf[p] \notin responses => chan[seqOf[p]] = "closed"

\* tools.go:1730-1731: with since read before the attach request, the ring
\* covers an InitializedEvent that arrives before the subscription.
InitializedIsSeen ==
    rc = "listening" /\ inRing /\ rl # "fanout" => "init" \in hookGot

\* dap.go:634-635: after a failed hook the connection is stale again, and
\* retried, so a client that is not stale has a session initialised on its
\* connection.
HealthyIsInitialised == ~stale => initialised

\* dap.go:1306-1308: a parked readLoop waits until replaceConn installs a
\* new connection (or Close): some reconnect is on its way.
ParkedIsResumed ==
    HasRedialer /\ rl = "park" /\ ~ctxDone =>
        pumpResume \/ reconnCh \/ rc \in {"attempt", "dialled", "check", "swap", "drain", "resume"}

\* dap.go:581: doReconnect aborts if Close raced it, to avoid a leak: once
\* the client is closed and reconnectLoop has ended, no connection is left.
ClosedLeavesNothing ==
    closing = "done" /\ rc = "exit" => \A g \in Gens : link[g] # "up"

-----------------------------------------------------------------------------
(* The parts of the inductive invariant; see DAPClientProofs.              *)

BeforeHook == {"dialled", "check", "swap", "drain", "resume", "hook"}
Installing == {"dialled", "check", "swap"}

\* Sequence numbers stay within Seqs: one per call, two per connection after
\* the first.
HookRequestsLeft ==
    IF rc \in BeforeHook THEN 2 ELSE IF rc \in AwaitsInit \cup {"inHook"} THEN 1 ELSE 0
SeqBound == nextSeq + HookRequestsLeft < calls + 2 * newGen

\* Numbers not allocated yet are untouched; a process in a request holds a
\* number allocated before, and no two hold the same.
FreshUntouched == \A s \in Seqs : s >= nextSeq => chan[s] = "none" /\ sentOn[s] = 0
SeqHeld == \A p \in Procs : pc[p] # "idle" => seqOf[p] \in Seqs /\ seqOf[p] < nextSeq
SeqDistinct ==
    \A p, q \in Procs :
        pc[p] # "idle" /\ pc[q] # "idle" /\ p # q => seqOf[p] # seqOf[q]
SeqOwnership == FreshUntouched /\ SeqHeld /\ SeqDistinct

\* A request not registered yet has no channel, one not written yet no
\* connection.
RequestProgress ==
    \A p \in Procs :
        /\ pc[p] = "begun" => chan[seqOf[p]] = "none"
        /\ pc[p] \in {"begun", "registered"} => sentOn[seqOf[p]] = 0

\* What is in the registry is open and empty, and readLoop delivers only
\* what it has taken out.
RegistryOpen ==
    /\ \A s \in responses : chan[s] = "open" /\ buf[s] = 0
    /\ rl = "deliver" => rlSeq \in Seqs /\ rlSeq \notin responses
    /\ \A s \in Seqs : chan[s] = "none" => buf[s] = 0

\* Requests and responses in transit are where they were written.
TransitOrigin ==
    /\ \A g \in Gens : \A s \in wire[g] \cup inbox[g] : sentOn[s] = g
    /\ rl = "deliver" => sentOn[rlSeq] = rlGen

\* reconnectLoop ends only at a stop or without a Redialer.
LoopAlive == HasRedialer /\ ~ctxDone => rc # "exit"

\* The hook has a request only at the two places where it sends one.
HookInside == pc[Hook] # "idle" => rc \in {"inHook", "rest"}

\* While a new connection is being installed, the old one is older and,
\* from CloseOld on, closed.
InstallOrder ==
    /\ cur <= newGen
    /\ rc \in Installing => cur < newGen
    /\ rc \in {"check", "swap"} => link[cur] # "up"
    /\ \A g \in Gens : g > newGen => link[g] = "none"
=============================================================================
