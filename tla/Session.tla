------------------------------ MODULE Session -------------------------------
(***************************************************************************)
(* The life of a debugging session (tools.go, main.go, backend.go): which  *)
(* tools are registered, the adapter process ds.cmd and the client         *)
(* ds.client that debug creates and cleanup ends, and who uses them under  *)
(* ds.mu or without it: tool handlers, and the reconnectLoop goroutine of  *)
(* each client, whose hook is the session's, not the client's.             *)
(* Sessions number the debug calls that reach Spawn; a session's process   *)
(* and client bear its number.  ClientLife has the moves of one client     *)
(* again, with the inside that implements them in DAPClient.               *)
(***************************************************************************)
EXTENDS Naturals, FiniteSets

CONSTANTS
    Callers,        \* tool calls that may overlap
    NoOne,          \* ds.mu is free
    Gated,          \* tools registered only if the adapter supports them
    Setups,         \* ds.backend at start: "none" or "connect"
    MaxSessions,    \* bound: debug calls that reach Spawn
    MaxLosses       \* bound: connections lost or forced stale

Sessions == 1 .. MaxSessions

ASSUME SessionBounds == {MaxSessions, MaxLosses} \subseteq Nat
ASSUME SessionNames == NoOne \notin Callers /\ (Callers \cup {NoOne}) \cap Nat = {}
ASSUME SessionTools == {"debug", "session"} \cap Gated = {}
ASSUME SessionSetups == Setups \subseteq {"none", "connect"}

VARIABLES
    server,     \* "up", "ended" (Run returned), "fatal", "crashed"
    mu,         \* holder of ds.mu: a caller, the hook of a client, NoOne
    \* debuggerSession
    tools,      \* registered tools; "session" stands for the eleven that
                \* are always registered together
    caps,       \* ds.capabilities
    backend,    \* ds.backend: "none", "connect", "delve", "gdb"
    cmd,        \* ds.cmd: session of the adapter process, or 0
    client,     \* ds.client: session of the client, or 0
    frame,      \* connection ds.lastFrameID is of, or 0 for -1
    \* adapter processes and clients: sets of sessions
    running,    \* the process runs
    pumping,    \* readLoop runs
    closed,     \* the client's context is cancelled
    stale,      \* the client is stale
    loop,       \* reconnectLoop: "none", "idle", "hook" (wants ds.mu), "inHook",
                \* "deaf" (has it and waits for what may never come), "clear", "done"
    \* the connections of ds.client, numbered from 1, or 0
    conn,       \* the present one
    handshake,  \* history: the last one on which it was initialised
    \* tool calls
    pc,
    local,      \* the client, or the connection, a handler remembers
    made, losses    \* bounded counters

session == <<tools, caps, backend, cmd, client, frame>>
clients == <<pumping, closed, stale, loop, conn, handshake>>
calls == <<pc, local>>
counters == <<made, losses>>
vars == <<server, mu, session, running, clients, calls, counters>>

\* registerTools: only debug, and the backend that --connect names.
Init ==
    /\ server = "up" /\ mu = NoOne
    /\ tools = {"debug"} /\ caps = {} /\ backend \in Setups
    /\ cmd = 0 /\ client = 0 /\ frame = 0
    /\ running = {} /\ pumping = {} /\ closed = {} /\ stale = {}
    /\ loop = [n \in Sessions |-> "none"]
    /\ conn = 0 /\ handshake = 0
    /\ pc = [c \in Callers |-> "idle"] /\ local = [c \in Callers |-> 0]
    /\ made = 0 /\ losses = 0

-----------------------------------------------------------------------------
(* Moves of a handler.                                                     *)

At(c, where) == server = "up" /\ pc[c] = where
Goes(c, where) == pc' = [pc EXCEPT ![c] = where]
Keeps(c, x) == local' = [local EXCEPT ![c] = x]
Ends(c) == Goes(c, "idle") /\ Keeps(c, 0)
Returns(c) == Ends(c) /\ mu' = NoOne
Locks(c) == mu = NoOne /\ mu' = c

\* send fails at once without a client or on a stale one.
Usable == client # 0 /\ client \notin stale

\* An MCP client calls a registered tool; "context" stands for every tool
\* that sends a request under ds.mu.
Call(c, tool) ==
    /\ At(c, "idle")
    /\ \/ tool = "debug" /\ "debug" \in tools
       \/ tool \in {"stop", "context", "wait", "reconnect"} /\ "session" \in tools
    /\ Goes(c, tool)
    /\ UNCHANGED <<server, mu, session, running, clients, local, counters>>

-----------------------------------------------------------------------------
(* stop, cleanup and the start of debug.                                   *)

\* Nothing to stop: another call has stopped the session meanwhile.
StopIdle(c) ==
    /\ At(c, "stop") /\ mu = NoOne
    /\ cmd = 0 /\ client = 0
    /\ Ends(c)
    /\ UNCHANGED <<server, mu, session, running, clients, counters>>

\* The disconnect request of a detach changes nothing here: its failure is
\* logged and cleanup follows.
Stop(c) ==
    /\ At(c, "stop") /\ (cmd # 0 \/ client # 0)
    /\ Locks(c) /\ Goes(c, "stopClose")
    /\ UNCHANGED <<server, session, running, clients, local, counters>>

\* MUTANT of Debug: it relies on an earlier stop.
DebugWithoutCleanup(c) ==
    /\ At(c, "debug")
    /\ Locks(c) /\ Goes(c, "spawn")
    /\ UNCHANGED <<server, session, running, clients, local, counters>>

\* debug begins with cleanup, whatever session there is.
Debug(c) ==
    /\ At(c, "debug")
    /\ Locks(c) /\ Goes(c, "debugClose")
    /\ UNCHANGED <<server, session, running, clients, local, counters>>

AfterClose == [stopClose |-> "stopClean", debugClose |-> "debugClean"]

\* MUTANT of Cancelled: neither the context nor the connection is closed.
CancelledNothing == closed

\* DAPClient.Close cancels the client's context and closes its connection ...
Cancelled == closed \cup ({client} \ {0})

CloseClient(c) ==
    /\ server = "up" /\ pc[c] \in DOMAIN AfterClose
    /\ closed' = Cancelled
    /\ Goes(c, AfterClose[pc[c]])
    /\ UNCHANGED <<server, mu, session, running, pumping, stale, loop, conn, handshake,
                   local, counters>>

\* MUTANT of Killed: the process is only forgotten.
KilledNothing == running

\* cmd.Process.Kill and Wait.
Killed == running \ {cmd}

\* What cleanup leaves of the session; ds.backend and the breakpoints stay.
CleanedUp ==
    /\ client' = 0 /\ cmd' = 0
    /\ running' = Killed
    /\ conn' = 0 /\ handshake' = 0
    /\ caps' = {} /\ frame' = 0
    /\ UNCHANGED backend

\* MUTANT of PumpDone: Close does not wait for readLoop.
PumpDoneAtOnce == TRUE

\* <-c.pumpDone.
PumpDone == client \notin pumping

AfterClean == [stopClean |-> "stopRemove", debugClean |-> "debugRemove"]

\* ... and waits for readLoop; then the rest of cleanup, up to the tools.
Cleanup(c) ==
    /\ server = "up" /\ pc[c] \in DOMAIN AfterClean
    /\ PumpDone
    /\ CleanedUp
    /\ Goes(c, AfterClean[pc[c]])
    /\ UNCHANGED <<server, mu, tools, pumping, closed, stale, loop, local, counters>>

AfterRemove == [stopRemove |-> "stopAdd", debugRemove |-> "debugAdd"]

\* RemoveTools of unregisterSessionTools, after ds.capabilities was emptied:
\* sessionToolNames yields no tool that depends on a capability.
SessionRemoved == tools \ {"session"}

RemoveSession(c) ==
    /\ server = "up" /\ pc[c] \in DOMAIN AfterRemove
    /\ tools' = SessionRemoved
    /\ Goes(c, AfterRemove[pc[c]])
    /\ UNCHANGED <<server, mu, caps, backend, cmd, client, frame, running, clients, local,
                   counters>>

\* MUTANT of DebugAdded: debug is not registered again.
DebugForgotten(ts) == ts

\* Its AddTool of debug.
DebugAdded(ts) == ts \cup {"debug"}

AddDebug(c) ==
    /\ server = "up" /\ pc[c] \in {"stopAdd", "debugAdd"}
    /\ tools' = DebugAdded(tools)
    /\ IF pc[c] = "stopAdd" THEN Returns(c)
       ELSE Goes(c, "spawn") /\ UNCHANGED <<mu, local>>
    /\ UNCHANGED <<server, caps, backend, cmd, client, frame, running, clients, counters>>

-----------------------------------------------------------------------------
(* debug.                                                                  *)

Choices == IF backend = "connect" THEN {"connect"} ELSE {"delve", "gdb"}

\* A bad parameter, or no gdb: --connect overrides whatever it is given.
DebugRefused(c) ==
    /\ At(c, "spawn") /\ (backend # "connect" \/ made = MaxSessions)
    /\ Returns(c)
    /\ UNCHANGED <<server, session, running, clients, counters>>

\* The adapter does not start, or ends before it tells its address; Spawn
\* then kills it.
SpawnFails(c) ==
    /\ At(c, "spawn") /\ backend # "connect"
    /\ backend' \in Choices
    /\ Returns(c)
    /\ UNCHANGED <<server, tools, caps, cmd, client, frame, running, clients, counters>>

\* ConnectBackend spawns no process.
Spawn(c) ==
    /\ At(c, "spawn") /\ made < MaxSessions
    /\ made' = made + 1
    /\ backend' \in Choices
    /\ IF backend' = "connect"
       THEN cmd' = 0 /\ UNCHANGED running
       ELSE cmd' = made' /\ running' = running \cup {made'}
    /\ Goes(c, "dial")
    /\ UNCHANGED <<server, mu, tools, caps, client, frame, clients, local, losses>>

\* net.Dial fails: ds.cmd stays for the next cleanup.
DialFails(c) ==
    /\ At(c, "dial") /\ backend # "gdb"
    /\ Returns(c)
    /\ UNCHANGED <<server, session, running, clients, counters>>

\* The client is created, wired to the hook and started.
Dial(c) ==
    /\ At(c, "dial")
    /\ client' = made
    /\ pumping' = pumping \cup {made}
    /\ loop' = [loop EXCEPT ![made] = "idle"]
    /\ conn' = 1
    /\ Goes(c, "initialize")
    /\ UNCHANGED <<server, mu, tools, caps, backend, cmd, frame, running, closed, stale,
                   handshake, local, counters>>

Initialize(c) ==
    /\ At(c, "initialize") /\ Usable
    /\ caps' \in SUBSET Gated
    /\ Goes(c, "launch")
    /\ UNCHANGED <<server, mu, tools, backend, cmd, client, frame, running, clients, local,
                   counters>>

\* Launch or attach, initial breakpoints, configurationDone.
Launch(c) ==
    /\ At(c, "launch") /\ Usable
    /\ handshake' = conn
    /\ Goes(c, "removeDebug")
    /\ UNCHANGED <<server, mu, session, running, pumping, closed, stale, loop, conn, local,
                   counters>>

\* registerSessionTools: RemoveTools of debug ...
RemoveDebug(c) ==
    /\ At(c, "removeDebug")
    /\ tools' = tools \ {"debug"}
    /\ Goes(c, "addSession")
    /\ UNCHANGED <<server, mu, caps, backend, cmd, client, frame, running, clients, local,
                   counters>>

\* ... and AddTool of each other, those that depend on a capability last.
\* Some modes then wait for a stop under ds.mu and show its context.
AddSession(c) ==
    /\ At(c, "addSession")
    /\ tools' = tools \cup {"session"}
    /\ Goes(c, "addGated")
    /\ UNCHANGED <<server, mu, caps, backend, cmd, client, frame, running, clients, local,
                   counters>>

AddGated(c) ==
    /\ At(c, "addGated")
    /\ tools' = tools \cup caps
    /\ \/ Returns(c)
       \/ Goes(c, "reading") /\ Keeps(c, conn) /\ UNCHANGED mu
    /\ UNCHANGED <<server, caps, backend, cmd, client, frame, running, clients, counters>>

\* A request fails: debug returns and leaves the session half open, with no
\* tool but debug registered.
DebugFails(c) ==
    /\ server = "up" /\ pc[c] \in {"initialize", "launch"}
    /\ Returns(c)
    /\ UNCHANGED <<server, session, running, clients, counters>>

-----------------------------------------------------------------------------
(* Tools of a session.                                                     *)

\* getFullContext, entered under ds.mu: the stack trace is requested ...
ReadsContext(c) == Goes(c, "reading") /\ Keeps(c, conn)

\* ... and answered on the connection it went to, which may be lost and
\* replaced by now, or it fails.
ContextRead(c) ==
    /\ At(c, "reading")
    /\ frame' \in {frame, local[c]}
    /\ Returns(c)
    /\ UNCHANGED <<server, tools, caps, backend, cmd, client, running, clients, counters>>

\* A tool takes ds.mu and finds no client, or cannot send.
ToolRefused(c) ==
    /\ server = "up" /\ mu = NoOne
    /\ \/ pc[c] \in {"wait", "reconnect"} /\ client = 0
       \/ pc[c] \in {"context", "pause", "got"} /\ ~Usable
    /\ Ends(c)
    /\ UNCHANGED <<server, mu, session, running, clients, counters>>

\* context; also wait-for-stop once it has received a stop, of the client it
\* was called with, while it reads that of ds.client now.
Context(c) ==
    /\ server = "up" /\ pc[c] \in {"context", "got"}
    /\ Usable
    /\ Locks(c) /\ ReadsContext(c)
    /\ UNCHANGED <<server, session, running, clients, counters>>

\* wait-for-stop copies ds.client and waits without ds.mu.
Wait(c) ==
    /\ At(c, "wait") /\ mu = NoOne /\ client # 0
    /\ Goes(c, "waiting")
    /\ UNCHANGED <<server, mu, session, running, clients, local, counters>>

\* A stop, the timeout with pauseIfTimeout, or an end without result.
WaitDone(c) ==
    /\ At(c, "waiting")
    /\ \E where \in {"got", "pause", "idle"} : Goes(c, where)
    /\ UNCHANGED <<server, mu, session, running, clients, local, counters>>

\* pauseAndCaptureContext pauses under ds.mu ...
Pause(c) ==
    /\ At(c, "pause") /\ Usable
    /\ Locks(c) /\ Goes(c, "pausing")
    /\ UNCHANGED <<server, session, running, clients, local, counters>>

\* MUTANT of Released: the error paths return with ds.mu held.
ReleasedUnlessError(where) == IF where = "idle" THEN mu ELSE NoOne

\* Every path unlocks ds.mu by hand.
Released(where) == NoOne

PauseAnswered(c) ==
    /\ At(c, "pausing")
    /\ \E where \in {"paused", "idle"} : Goes(c, where) /\ mu' = Released(where)
    /\ UNCHANGED <<server, session, running, clients, local, counters>>

\* ... reads ds.client again without it, where nil is dereferenced ...
PauseSubscribe(c) ==
    /\ At(c, "paused")
    /\ IF client = 0 THEN server' = "crashed" /\ UNCHANGED pc
                     ELSE Goes(c, "waitingPause") /\ UNCHANGED server
    /\ UNCHANGED <<mu, session, running, clients, local, counters>>

\* ... and goes on with the stop, or after two seconds, as for a stop.
PauseDone(c) ==
    /\ At(c, "waitingPause")
    /\ \E where \in {"got", "idle"} : Goes(c, where)
    /\ UNCHANGED <<server, mu, session, running, clients, local, counters>>

\* reconnect copies ds.client.  With force it goes on only where the backend
\* can redial; without it only a stale client of such a backend is awaited.
Reconnect(c) ==
    /\ At(c, "reconnect") /\ mu = NoOne /\ client # 0
    /\ IF client \in stale /\ backend = "connect" THEN Goes(c, "poll") ELSE Goes(c, "idle")
    /\ UNCHANGED <<server, mu, session, running, clients, local, counters>>

ReconnectForced(c) ==
    /\ At(c, "reconnect") /\ mu = NoOne /\ client # 0
    /\ IF backend = "connect"
       THEN /\ losses < MaxLosses /\ losses' = losses + 1
            /\ Goes(c, "force") /\ Keeps(c, client)
       ELSE Goes(c, "idle") /\ UNCHANGED <<local, losses>>
    /\ UNCHANGED <<server, mu, session, running, clients, made>>

\* markStale, without ds.mu and possibly of a client closed meanwhile.
MarkStale(c) ==
    /\ At(c, "force")
    /\ stale' = stale \cup {local[c]}
    /\ Goes(c, "poll") /\ Keeps(c, 0)
    /\ UNCHANGED <<server, mu, session, running, pumping, closed, loop, conn, handshake,
                   counters>>

\* Healthy, the deadline, or the end of the caller's ctx.
Poll(c) ==
    /\ At(c, "poll")
    /\ Ends(c)
    /\ UNCHANGED <<server, mu, session, running, clients, counters>>

-----------------------------------------------------------------------------
(* The goroutines of a client, and its adapter.                            *)

Up(n) == server = "up" /\ n \in pumping

\* readLoop sees the connection fail and marks the client stale.
Lose(n) ==
    /\ Up(n) /\ n \notin closed \cup stale /\ losses < MaxLosses
    /\ losses' = losses + 1
    /\ stale' = stale \cup {n}
    /\ UNCHANGED <<server, mu, session, running, pumping, closed, loop, conn, handshake,
                   calls, made>>

\* After Close readLoop's read fails: at once over TCP, when the process has
\* closed its stdout over pipes, of which Close closes only stdin.  It may be
\* parked after a loss, or read a connection made meanwhile (see DAPClient).
PumpExits(n) ==
    /\ Up(n) /\ n \in closed
    /\ backend = "gdb" => n \notin running \/ n \in stale
    /\ pumping' = pumping \ {n}
    /\ UNCHANGED <<server, mu, session, running, closed, stale, loop, conn, handshake,
                   calls, counters>>

\* The adapter process ends: by itself, or because its stdin was closed.
ProcExits(n) ==
    /\ server = "up" /\ n \in running
    /\ running' = running \ {n}
    /\ UNCHANGED <<server, mu, session, clients, calls, counters>>

\* reconnectLoop ends with the client, or because nobody can redial.
LoopEnds(n) ==
    /\ server = "up" /\ loop[n] = "idle"
    /\ n \in closed \/ (n \in stale /\ backend # "connect")
    /\ loop' = [loop EXCEPT ![n] = "done"]
    /\ UNCHANGED <<server, mu, session, running, pumping, closed, stale, conn, handshake,
                   calls, counters>>

\* doReconnect: Redial and replaceConn, without ds.mu; Close may have come
\* after its last look at the context.
Redial(n) ==
    /\ server = "up" /\ loop[n] = "idle" /\ n \in stale
    /\ backend = "connect"
    /\ conn' = IF n = client THEN conn + 1 ELSE conn
    /\ loop' = [loop EXCEPT ![n] = "hook"]
    /\ UNCHANGED <<server, mu, session, running, pumping, closed, stale, handshake, calls,
                   counters>>

\* reinitialize takes ds.mu, for whichever client ds.client is by then.
HookBegin(n) ==
    /\ server = "up" /\ loop[n] = "hook" /\ mu = NoOne
    /\ IF client = 0
       THEN loop' = [loop EXCEPT ![n] = "clear"] /\ UNCHANGED mu
       ELSE loop' = [loop EXCEPT ![n] = "inHook"] /\ mu' = n
    /\ UNCHANGED <<server, session, running, pumping, closed, stale, conn, handshake,
                   calls, counters>>

\* MUTANT of HookFrame: the hook leaves lastFrameID.
HookFrameKept == frame

\* reinitialize ends with ds.lastFrameID = -1.
HookFrame == 0

\* It waits for the InitializedEvent with no timeout but the client's context,
\* which Close would end and only a holder of ds.mu calls.  An event that came
\* between the snapshot and the registration of its Subscribe, and a loss that
\* readLoop told before its lostSub was registered, never reach it (HookDeaf
\* of DAPClient).
HookDeaf(n) ==
    /\ server = "up" /\ loop[n] = "inHook" /\ n \notin closed
    /\ loop' = [loop EXCEPT ![n] = "deaf"]
    /\ UNCHANGED <<server, mu, session, running, pumping, closed, stale, conn, handshake,
                   calls, counters>>

\* Only a later loss of a connection that is up would end that wait.
HookTold(n) ==
    /\ server = "up" /\ loop[n] = "deaf"
    /\ mu' = NoOne
    /\ loop' = [loop EXCEPT ![n] = "clear"]
    /\ caps' \in SUBSET Gated
    /\ UNCHANGED <<server, tools, backend, cmd, client, frame, running, pumping, closed,
                   stale, conn, handshake, calls, counters>>

\* It fails before or after it has taken the new capabilities, or succeeds:
\* for a client closed meanwhile too, whose context is cancelled, where every
\* select prefers the answer.
HookEnd(n) ==
    /\ server = "up" /\ loop[n] = "inHook"
    /\ mu' = NoOne
    /\ loop' = [loop EXCEPT ![n] = "clear"]
    /\ caps' \in SUBSET Gated
    /\ \/ UNCHANGED <<frame, handshake>>
       \/ /\ frame' = HookFrame
          /\ handshake' = conn
    /\ UNCHANGED <<server, tools, backend, cmd, client, running, pumping,
                   closed, stale, conn, calls, counters>>

\* doReconnect clears stale, whatever became of the hook.
Clear(n) ==
    /\ server = "up" /\ loop[n] = "clear"
    /\ stale' = stale \ {n}
    /\ loop' = [loop EXCEPT ![n] = "idle"]
    /\ UNCHANGED <<server, mu, session, running, pumping, closed, conn, handshake, calls,
                   counters>>

-----------------------------------------------------------------------------
\* server.Run returns once the calls in flight have: the deferred cleanup of
\* main runs, without ds.mu.
ServerEnds ==
    /\ server = "up" /\ \A c \in Callers : pc[c] = "idle"
    /\ server' = "ended"
    /\ CleanedUp
    /\ tools' = DebugAdded(SessionRemoved)
    /\ closed' = Cancelled
    /\ UNCHANGED <<mu, pumping, stale, loop, calls, counters>>

\* Run returns an error: log.Fatalf ends the process, and nothing is deferred.
ServerFatal ==
    /\ server = "up" /\ \A c \in Callers : pc[c] = "idle"
    /\ server' = "fatal"
    /\ UNCHANGED <<mu, session, running, clients, calls, counters>>

Handler(c) ==
    \/ StopIdle(c) \/ Stop(c) \/ Debug(c) \/ CloseClient(c) \/ Cleanup(c)
    \/ RemoveSession(c) \/ AddDebug(c)
    \/ DebugRefused(c) \/ SpawnFails(c) \/ Spawn(c) \/ DialFails(c) \/ Dial(c)
    \/ Initialize(c) \/ Launch(c) \/ DebugFails(c)
    \/ RemoveDebug(c) \/ AddSession(c) \/ AddGated(c)
    \/ ContextRead(c) \/ ToolRefused(c) \/ Context(c)
    \/ Wait(c) \/ WaitDone(c) \/ Pause(c) \/ PauseAnswered(c)
    \/ PauseSubscribe(c) \/ PauseDone(c)
    \/ Reconnect(c) \/ ReconnectForced(c) \/ MarkStale(c) \/ Poll(c)

Goroutines(n) ==
    PumpExits(n) \/ LoopEnds(n) \/ Redial(n) \/ HookBegin(n) \/ HookEnd(n) \/ Clear(n)

Next ==
    \/ \E c \in Callers :
           \/ \E tool \in {"debug", "stop", "context", "wait", "reconnect"} : Call(c, tool)
           \/ Handler(c)
    \/ \E n \in Sessions :
           Goroutines(n) \/ Lose(n) \/ ProcExits(n) \/ HookDeaf(n) \/ HookTold(n)
    \/ ServerEnds \/ ServerFatal

Spec == Init /\ [][Next]_vars

\* A handler is scheduled, gets ds.mu among those that want it and its
\* timeout passes, or its caller gives up where it has none (the waits of
\* debug); an adapter answers or its connection is lost, which ends every
\* request; a process over pipes ends when its stdin is closed.  Nothing is
\* assumed of a hook that is deaf.
FairSpec ==
    /\ Spec
    /\ \A c \in Callers : SF_vars(Handler(c))
    /\ \A n \in Sessions :
           /\ SF_vars(Goroutines(n))
           /\ WF_vars(backend = "gdb" /\ n \in closed /\ ProcExits(n))

-----------------------------------------------------------------------------
(* Properties.                                                             *)

Locked == {"stopClose", "stopClean", "stopRemove", "stopAdd",
           "debugClose", "debugClean", "debugRemove", "debugAdd", "spawn", "dial",
           "initialize", "launch", "removeDebug", "addSession", "addGated",
           "reading", "pausing"}
Unlocked == {"idle", "stop", "debug", "context", "wait", "reconnect", "waiting",
             "got", "pause", "paused", "waitingPause", "force", "poll"}
Cleaning == {"stopClose", "stopClean", "debugClose", "debugClean"}
Registering == {"stopRemove", "stopAdd", "debugRemove", "debugAdd", "addSession"}
Inside == {"inHook", "deaf"}

\* Types of debuggerSession (tools.go:18-37) and of what surrounds it; ds.mu
\* is held by the one call that is between Lock and Unlock, or by a hook.
TypeOK ==
    /\ server \in {"up", "ended", "fatal", "crashed"}
    /\ tools \subseteq {"debug", "session"} \cup Gated
    /\ caps \subseteq Gated
    /\ backend \in {"none", "connect", "delve", "gdb"}
    /\ {cmd, client} \subseteq 0 .. made
    /\ made \in 0 .. MaxSessions /\ losses \in 0 .. MaxLosses
    /\ UNION {running, pumping, closed, stale} \subseteq 1 .. made
    /\ loop \in [Sessions -> {"none", "idle", "hook", "clear", "done"} \cup Inside]
    /\ {handshake, frame} \subseteq 0 .. conn /\ conn <= 1 + losses
    /\ \A c \in Callers :
           /\ pc[c] \in Locked \cup Unlocked
           /\ local[c] \in Nat
           /\ pc[c] \in Locked <=> mu = c
    /\ \A n \in Sessions : loop[n] \in Inside <=> mu = n

\* No adapter process is left behind: one that runs is ds.cmd, which cleanup
\* will kill, and none runs once the server has ended in order.
OneAdapter ==
    /\ server = "up" => running \subseteq {cmd}
    /\ server = "ended" => running = {}

\* Nor is a client: its readLoop runs only while it is ds.client, and it is
\* closed only by the cleanup that ends it, so that no tool finds a closed one
\* in ds.client.  (wait-for-stop and reconnect keep the client they found.)
OneClient ==
    server = "up" =>
        /\ pumping \subseteq {client}
        /\ client # 0 /\ (\A c \in Callers : pc[c] \notin Cleaning) =>
               client \in pumping \ closed

\* There is a tool that ends what is left of a session: stop and its
\* companions while the session is complete, and debug, which cleans up first,
\* at any other time but while they are exchanged.  Never are both there, so
\* that no debug is called on a session that was not stopped.
ToolsFit ==
    server = "up" =>
        /\ ~({"debug", "session"} \subseteq tools)
        /\ (\A c \in Callers : pc[c] \notin Registering) =>
               /\ "debug" \in tools \/ "session" \in tools
               /\ "session" \in tools => handshake # 0

\* evaluate never takes a frame of an earlier connection for the current one:
\* once a reconnect is complete ds.lastFrameID is unset or of the connection
\* it set up.
FrameIsCurrent ==
    /\ client = 0 /\ mu = NoOne => frame = 0
    /\ client # 0 /\ mu = NoOne /\ client \notin stale /\ handshake = conn =>
           frame \in {0, conn}

\* A hook works on its own client, unless that client was closed before.
HookIsOwn ==
    \A n \in Sessions : mu = n => client = n \/ n \in closed

\* "unregisterSessionTools removes all session tools" (tools.go:275).
NoToolLeft == "session" \notin tools => tools \cap Gated = {}

\* wait-for-stop may run beside any other tool (02-behavior.md of the event
\* pump, "Concurrent tool calls").
NeverNil == server # "crashed"

\* Every call returns: nobody keeps ds.mu, and stop gets past the readLoop it
\* waits for, unless a hook is deaf for ever.
CallsReturn ==
    \A c \in Callers :
        pc[c] # "idle" ~>
            \/ pc[c] = "idle" \/ server # "up"
            \/ [](\E n \in Sessions : loop[n] = "deaf")
=============================================================================
