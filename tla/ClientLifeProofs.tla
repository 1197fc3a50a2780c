-------------------------- MODULE ClientLifeProofs ---------------------------
(***************************************************************************)
(* That DAPClient implements ClientLife, for every number of handlers,     *)
(* requests, connections, losses and forced reconnects: each step of its   *)
(* goroutines is one move of the abstract client, or none.                 *)
(***************************************************************************)
EXTENDS DAPClientProofs

\* doReconnect from the token it took to the flag it clears.
Busy == {"attempt", "dialled", "check", "swap", "drain", "resume", "hook", "inHook",
         "rest", "hookOk", "hookErr", "clear"} \cup AwaitsInit

\* Where the hook is sure to have ds.mu.
HookHolds == {"inHook", "rest", "hookOk"} \cup AwaitsInit

\* Who has ds.mu: a handler in its request, Close until readLoop has ended, or
\* the hook; the hook of a session that has gone fails without it.
MutexInv ==
    /\ \A c \in Callers : pc[c] # "idle" <=> dsMu = c
    /\ closing \in {"cancelled", "waiting"} <=> dsMu = Closer
    /\ rc \in HookHolds => dsMu = Hook
    /\ dsMu = Hook => rc \in HookHolds \cup {"hookErr"}
    /\ pc[Hook] # "idle" <=> rc \in {"inHook", "rest"}
    /\ rc = "hookErr" /\ dsMu # Hook => closing = "done"

\* The context ends with the first step of Close, and readLoop before the last.
EndInv ==
    /\ ctxDone <=> closing # "no"
    /\ closing = "done" => rl = "exit"

\* The client stays stale throughout a reconnect, so that no token is sent
\* that would start another, and a token is only ever one of a stale client.
StaleInv ==
    /\ rc \in Busy => stale /\ ~reconnCh /\ HasRedialer
    /\ rc # "exit" /\ reconnCh => stale

\* Connections are installed in the order in which they were dialled.
OrderInv ==
    /\ rc \in Installing => newGen = cur + 1
    /\ rc \notin Installing \cup {"exit"} => newGen = cur

LifeInv == MutexInv /\ EndInv /\ StaleInv /\ OrderInv

\* One move of the abstract client, or none.
Moves == [Life!Next]_(Life!life)

-----------------------------------------------------------------------------
(* Steps of the inside.                                                    *)

\* What neither the abstract client nor the invariant sees.
Quiet ==
    /\ UNCHANGED <<stale, reconnCh, ctxDone, dsMu, rc, newGen, cur, closing, initialised>>
    /\ rl = "exit" <=> rl' = "exit"
    /\ \A p \in Procs : pc[p] = "idle" <=> pc'[p] = "idle"

LEMMA QuietMoves ==
    ASSUME LifeInv, Quiet
    PROVE  LifeInv' /\ Moves
<1> USE DEF Quiet
<1>1. LifeInv'
  BY DEF LifeInv, MutexInv, HookHolds, AwaitsInit, EndInv, StaleInv, OrderInv, Procs
<1>2. UNCHANGED Life!life
  BY DEF Life!life, MuSeen, LoopSeen
<1> QED BY <1>1, <1>2 DEF Moves

LEMMA QuietActions ==
    ASSUME TypeInv,
           \/ \E p \in Procs : DoRegister(p) \/ WriteOk(p) \/ WriteErr(p) \/ Lookup(p)
           \/ LoadReader \/ Deliver \/ ReadEvent \/ FanOut
           \/ ReadDrain \/ TellLoss \/ ReadResume
           \/ \E s \in Seqs : ReadResponse(s)
           \/ \E g \in Gens, s \in Seqs : Answer(g, s)
           \/ \E g \in Gens : Announce(g) \/ EndOfInput(g) \/ Drop(g)
    PROVE  Quiet
<1> USE DEF Quiet, TypeInv, TypeOK, HandlersOK, registry, transport, signals, handlers, reader,
            recon, events, counters
<1>1. ASSUME NEW p \in Procs, DoRegister(p) \/ WriteOk(p) \/ WriteErr(p) \/ Lookup(p)
      PROVE  Quiet
  BY <1>1 DEF DoRegister, WriteOk, WriteErr, Lookup
<1>2. CASE LoadReader \/ Deliver \/ ReadEvent \/ FanOut \/ ReadDrain \/ TellLoss \/ ReadResume
  BY <1>2 DEF LoadReader, Deliver, ReadEvent, FanOut, ReadDrain, TellLoss, ReadResume
<1>3. ASSUME NEW s \in Seqs, ReadResponse(s) PROVE Quiet
  BY <1>3 DEF ReadResponse
<1>4. ASSUME NEW g \in Gens, NEW s \in Seqs, Answer(g, s) PROVE Quiet
  BY <1>4 DEF Answer
<1>5. ASSUME NEW g \in Gens, Announce(g) \/ EndOfInput(g) \/ Drop(g) PROVE Quiet
  BY <1>5 DEF Announce, EndOfInput, Drop
<1> QED BY <1>1, <1>2, <1>3, <1>4, <1>5

-----------------------------------------------------------------------------
(* Handlers and the hook.                                                  *)

\* Marking a stale client stale changes nothing, so the loop finds no token
\* when it comes back to its select.
LEMMA MarkKeepsStale ==
    ASSUME SignalsOK, StaleInv, rc' = rc,
           UNCHANGED <<stale, reconnCh>> \/ MarkStale
    PROVE  StaleInv'
<1>1. CASE UNCHANGED <<stale, reconnCh>>
  BY <1>1 DEF StaleInv, Busy
<1>2. CASE MarkStale
  <2>1. stale' = TRUE /\ (stale => reconnCh' = reconnCh)
    BY <1>2, Zenon DEF MarkStale, SignalsOK
  <2> QED BY <2>1 DEF StaleInv, Busy
<1> QED BY <1>1, <1>2

\* A handler takes ds.mu, or fails fast on a stale client.
LEMMA BeginMoves ==
    ASSUME TypeInv, LifeInv, NEW c \in Callers, Begin(c)
    PROVE  LifeInv' /\ Moves
<1> USE ProcAssumption DEF transport, signals, reader, recon, events, Procs
<1>1. CASE stale
  <2>1. Quiet
    BY <1>1 DEF Begin, Quiet, handlers
  <2> QED BY <2>1, QuietMoves
<1>2. CASE ~stale
  <2>1. /\ dsMu = NoOne /\ dsMu' = c /\ pc' = [pc EXCEPT ![c] = "begun"]
        /\ UNCHANGED <<stale, reconnCh, ctxDone, rl, rc, newGen, cur, closing, initialised>>
    BY <1>2 DEF Begin
  <2>2. LifeInv'
    BY <2>1 DEF LifeInv, MutexInv, HookHolds, AwaitsInit, EndInv, StaleInv, OrderInv, TypeInv,
       TypeOK, HandlersOK
  <2>3. LoopSeen' = LoopSeen
    BY <2>1 DEF LoopSeen
  <2>4. Life!Lock
    BY <2>1, <2>3 DEF Life!Lock, MuSeen
  <2> QED BY <2>2, <2>4 DEF Moves, Life!Next
<1> QED BY <1>1, <1>2

\* A handler returns and frees ds.mu; it had not been closed under it, or
\* readLoop has ended.
LEMMA CallerReturns ==
    ASSUME TypeInv, LifeInv, NEW c \in Callers, pc[c] # "idle", Return(c),
           UNCHANGED <<ctxDone, rl, rc, newGen, cur, closing, initialised>>,
           UNCHANGED <<stale, reconnCh>> \/ MarkStale
    PROVE  LifeInv' /\ Moves
<1> USE ProcAssumption DEF Procs
<1>1. dsMu = c /\ dsMu' = NoOne /\ pc' = [pc EXCEPT ![c] = "idle"]
  BY DEF Return, LifeInv, MutexInv
<1>2. LifeInv'
  <2>1. MutexInv'
    BY <1>1 DEF LifeInv, MutexInv, TypeInv, TypeOK, HandlersOK
  <2>2. StaleInv'
    BY MarkKeepsStale DEF LifeInv, TypeInv, TypeOK
  <2>3. EndInv' /\ OrderInv'
    BY DEF LifeInv, EndInv, OrderInv
  <2> QED BY <2>1, <2>2, <2>3 DEF LifeInv
<1>3. LoopSeen' = LoopSeen
  BY <1>1 DEF LoopSeen
<1>4. Life!Release
  BY <1>1 DEF Life!Release, MuSeen, LifeInv, MutexInv, EndInv, TypeInv, TypeOK, ReconOK
<1>5. CASE UNCHANGED <<stale, reconnCh>>
  BY <1>2, <1>3, <1>4, <1>5 DEF Moves, Life!Next, Life!Unlock
<1>6. CASE MarkStale
  BY <1>2, <1>3, <1>4, <1>6 DEF Moves, Life!Next, Life!Lose, MarkStale
<1> QED BY <1>5, <1>6

\* The hook's request ends and the hook goes on, with ds.mu.
LEMMA HookReturns ==
    ASSUME TypeInv, LifeInv, pc[Hook] # "idle", Return(Hook),
           rc' \in {"attached", "hookOk", "hookErr"},
           UNCHANGED <<stale, reconnCh, ctxDone, rl, newGen, cur, closing, initialised>>
    PROVE  LifeInv' /\ Moves
<1> USE ProcAssumption DEF Procs
<1>1. rc \in {"inHook", "rest"} /\ dsMu = Hook /\ dsMu' = Hook /\ pc' = [pc EXCEPT ![Hook] = "idle"]
  BY DEF Return, LifeInv, MutexInv, HookHolds, AwaitsInit
<1>2. LifeInv'
  BY <1>1 DEF LifeInv, MutexInv, HookHolds, AwaitsInit, EndInv, StaleInv, OrderInv, TypeInv,
     TypeOK, HandlersOK, Busy, Installing
<1>3. UNCHANGED Life!life
  BY <1>1 DEF Life!life, MuSeen, LoopSeen
<1> QED BY <1>2, <1>3 DEF Moves

\* The ends of a request.
LEMMA ReturnMoves ==
    ASSUME TypeInv, LifeInv, NEW p \in Procs,
           \/ WriteFailed(p) \/ LookupMiss(p) \/ Receive(p) \/ ReceiveClosed(p)
           \/ p \in Callers /\ Cancel(p)
    PROVE  LifeInv' /\ Moves
<1> USE ProcAssumption DEF Procs, registry, transport, signals, reader
<1>1. /\ pc[p] # "idle" /\ Return(p)
      /\ UNCHANGED <<ctxDone, rl, newGen, cur, closing, initialised>>
  BY DEF WriteFailed, LookupMiss, Receive, ReceiveClosed, Cancel, Finish
<1>2. CASE p = Hook
  <2>1. rc' \in {"attached", "hookOk", "hookErr"} /\ UNCHANGED <<stale, reconnCh>>
    BY <1>2 DEF WriteFailed, LookupMiss, Receive, ReceiveClosed, Cancel, Finish, HookGoesOn
  <2> QED BY <1>1, <1>2, <2>1, HookReturns
<1>3. CASE p \in Callers
  <2>1. rc' = rc /\ (UNCHANGED <<stale, reconnCh>> \/ MarkStale)
    BY <1>3 DEF WriteFailed, LookupMiss, Receive, ReceiveClosed, Cancel, Finish
  <2> QED BY <1>1, <1>3, <2>1, CallerReturns
<1> QED BY <1>2, <1>3

-----------------------------------------------------------------------------
(* readLoop and Close.                                                     *)

LEMMA ReadMoves ==
    ASSUME TypeInv, LifeInv, ReadTop \/ ReadError \/ ReadGarbage \/ ReadStop
    PROVE  LifeInv' /\ Moves
<1> USE DEF registry, transport, signals, handlers, recon, events
<1>1. /\ rl # "exit" /\ UNCHANGED <<ctxDone, dsMu, pc, rc, newGen, cur, closing, initialised>>
      /\ UNCHANGED <<stale, reconnCh>> \/ (rl' # "exit" /\ MarkStale)
      /\ rl' = "exit" => ctxDone
  BY DEF ReadTop, ReadError, ReadGarbage, GiveUp, ReadStop
<1>2. LifeInv'
  <2>1. StaleInv'
    BY <1>1, MarkKeepsStale DEF LifeInv, TypeInv, TypeOK
  <2> QED BY <2>1, <1>1 DEF LifeInv, MutexInv, EndInv, OrderInv
<1>3. LoopSeen' = LoopSeen /\ MuSeen' = MuSeen
  BY <1>1 DEF LoopSeen, MuSeen
<1>4. CASE rl' = "exit"
  BY <1>1, <1>2, <1>3, <1>4 DEF Moves, Life!Next, Life!PumpExits
<1>5. CASE rl' # "exit" /\ MarkStale
  BY <1>1, <1>2, <1>3, <1>5 DEF Moves, Life!Next, Life!Lose, MarkStale
<1>6. CASE rl' # "exit" /\ UNCHANGED <<stale, reconnCh>>
  BY <1>1, <1>2, <1>3, <1>6 DEF Moves, Life!life
<1> QED BY <1>1, <1>4, <1>5, <1>6

LEMMA CloseMoves ==
    ASSUME TypeInv, LifeInv, Close
    PROVE  LifeInv' /\ Moves
<1> USE ProcAssumption DEF Procs, registry, transport, signals, handlers, reader, recon, events
<1>1. CASE CloseCancel
  <2>1. LifeInv'
    BY <1>1 DEF CloseCancel, LifeInv, MutexInv, HookHolds, AwaitsInit, EndInv, StaleInv,
       OrderInv
  <2>2. LoopSeen' = LoopSeen /\ MuSeen = "free" /\ MuSeen' = "taken" /\ ~ctxDone /\ ctxDone'
    BY <1>1 DEF CloseCancel, LoopSeen, MuSeen, LifeInv, MutexInv, EndInv
  <2> QED BY <1>1, <2>1, <2>2 DEF CloseCancel, Moves, Life!Next, Life!Close
<1>2. CASE CloseConn
  <2>1. LifeInv'
    BY <1>2 DEF CloseConn, LifeInv, MutexInv, HookHolds, AwaitsInit, EndInv, StaleInv, OrderInv
  <2>2. UNCHANGED Life!life
    BY <1>2 DEF CloseConn, Life!life, MuSeen, LoopSeen
  <2> QED BY <2>1, <2>2 DEF Moves
<1>3. CASE CloseDone
  <2>1. dsMu = Closer /\ dsMu' = NoOne
    BY <1>3 DEF CloseDone, LifeInv, MutexInv, HookHolds, AwaitsInit
  <2>2. LifeInv'
    BY <1>3, <2>1 DEF CloseDone, LifeInv, MutexInv, HookHolds, AwaitsInit, EndInv, StaleInv,
       OrderInv
  <2>3. LoopSeen' = LoopSeen /\ MuSeen = "taken" /\ MuSeen' = "free"
    BY <1>3, <2>1 DEF CloseDone, LoopSeen, MuSeen, LifeInv, MutexInv, HookHolds, AwaitsInit
  <2> QED BY <1>3, <2>2, <2>3 DEF CloseDone, Moves, Life!Next, Life!Unlock, Life!Release
<1> QED BY <1>1, <1>2, <1>3 DEF Close

LEMMA ForceMoves ==
    ASSUME TypeInv, LifeInv, ForceReconnect
    PROVE  LifeInv' /\ Moves
<1> USE DEF registry, transport, handlers, reader, recon, events
<1>1. LifeInv'
  <2>1. StaleInv'
    BY MarkKeepsStale DEF ForceReconnect, LifeInv, TypeInv, TypeOK
  <2> QED BY <2>1 DEF ForceReconnect, LifeInv, MutexInv, EndInv, OrderInv
<1>2. LoopSeen' = LoopSeen /\ MuSeen' = MuSeen
  BY DEF ForceReconnect, LoopSeen, MuSeen
<1> QED BY <1>1, <1>2 DEF ForceReconnect, MarkStale, Moves, Life!Next, Life!Lose

-----------------------------------------------------------------------------
(* reconnectLoop.                                                          *)

\* The loop ends at a stop, or at the first loss when nobody can redial.
LEMMA LoopEndMoves ==
    ASSUME TypeInv, LifeInv, Wake \/ ReconStop \/ CheckClosed
    PROVE  LifeInv' /\ Moves
<1> USE ProcAssumption DEF Procs, registry, transport, signals, handlers, reader, recon, events,
   RcStates
<1>1. /\ UNCHANGED <<stale, ctxDone, dsMu, pc, rl, newGen, cur, closing, initialised>>
      /\ rc \in {"idle", "attempt", "check"} /\ rc' \in {"attempt", "swap", "exit"}
      /\ reconnCh' = reconnCh \/ (reconnCh' = FALSE /\ stale /\ rc = "idle")
      /\ rc' = "exit" => ctxDone \/ (stale /\ ~HasRedialer)
      /\ rc' = "attempt" => rc = "idle" /\ HasRedialer /\ stale /\ ~reconnCh'
      /\ rc' = "swap" => rc = "check"
  BY DEF Wake, ReconStop, CheckClosed, LifeInv, StaleInv
<1>2. LifeInv'
  BY <1>1 DEF LifeInv, MutexInv, HookHolds, AwaitsInit, EndInv, StaleInv, OrderInv, Busy,
     Installing
<1>3. MuSeen' = MuSeen /\ LoopSeen = "idle"
  BY <1>1 DEF MuSeen, LoopSeen
<1>4. CASE rc' = "exit"
  <2>1. LoopSeen' = "done"
    BY <1>4 DEF LoopSeen
  <2> QED BY <1>1, <1>2, <1>3, <1>4, <2>1 DEF Moves, Life!Next, Life!LoopEnds
<1>5. CASE rc' # "exit"
  <2>1. LoopSeen' = "idle"
    BY <1>1, <1>5 DEF LoopSeen
  <2> QED BY <1>1, <1>2, <1>3, <2>1 DEF Moves, Life!life
<1> QED BY <1>4, <1>5

\* The steps of doReconnect around the swap, and the way back to the select.
LEMMA InstallMoves ==
    ASSUME TypeInv, LifeInv, Redial \/ CloseOld \/ Drain \/ Resume \/ LoopAgain
    PROVE  LifeInv' /\ Moves
<1> USE ProcAssumption DEF Procs, registry, transport, signals, handlers, reader, recon, events
<1>1. /\ UNCHANGED <<stale, reconnCh, ctxDone, dsMu, pc, rl, cur, closing, initialised>>
      /\ \/ rc = "attempt" /\ rc' = "dialled" /\ newGen' = newGen + 1
         \/ rc = "dialled" /\ rc' = "check" /\ newGen' = newGen
         \/ rc = "drain" /\ rc' = "resume" /\ newGen' = newGen
         \/ rc = "resume" /\ rc' = "hook" /\ newGen' = newGen
         \/ rc = "return" /\ rc' = "idle" /\ newGen' = newGen
  BY DEF Redial, CloseOld, Drain, Resume, LoopAgain
<1>2. LifeInv'
  BY <1>1 DEF LifeInv, MutexInv, HookHolds, AwaitsInit, EndInv, StaleInv, OrderInv, Busy,
     Installing
<1>3. MuSeen' = MuSeen /\ LoopSeen' = LoopSeen
  BY <1>1 DEF MuSeen, LoopSeen
<1> QED BY <1>1, <1>2, <1>3 DEF Moves, Life!life

\* replaceConn gives a stale client its next connection.
LEMMA SwapMoves ==
    ASSUME TypeInv, LifeInv, Swap
    PROVE  LifeInv' /\ Moves
<1> USE ProcAssumption DEF Procs, signals, handlers, reader
<1>1. /\ UNCHANGED <<stale, reconnCh, ctxDone, dsMu, pc, rl, newGen, closing>>
      /\ rc = "swap" /\ rc' = "drain" /\ cur' = newGen /\ initialised' = FALSE
  BY DEF Swap
<1>2. LifeInv'
  BY <1>1 DEF LifeInv, MutexInv, HookHolds, AwaitsInit, EndInv, StaleInv, OrderInv, Busy,
     Installing
<1>3. cur' = cur + 1 /\ stale /\ HasRedialer
  BY <1>1 DEF LifeInv, OrderInv, StaleInv, Busy, Installing
<1>4. MuSeen' = MuSeen /\ LoopSeen = "idle" /\ LoopSeen' = "hook"
  BY <1>1 DEF MuSeen, LoopSeen
<1> QED BY <1>1, <1>2, <1>3, <1>4 DEF Moves, Life!Next, Life!Redial

\* The hook starts with ds.mu, or finds the session gone.
LEMMA HookStartMoves ==
    ASSUME TypeInv, LifeInv, HookStart
    PROVE  LifeInv' /\ Moves
<1> USE ProcAssumption DEF Procs, transport, signals, reader
<1>1. /\ UNCHANGED <<stale, reconnCh, ctxDone, rl, newGen, cur, closing, initialised>>
      /\ rc = "hook" /\ dsMu = NoOne
  BY DEF HookStart
<1>2. MuSeen = "free" /\ LoopSeen = "hook"
  BY <1>1 DEF MuSeen, LoopSeen
<1>3. CASE closing = "done"
  <2>1. rc' = "hookErr" /\ UNCHANGED <<dsMu, pc>>
    BY <1>3 DEF HookStart, handlers
  <2>2. LifeInv'
    BY <1>1, <1>3, <2>1 DEF LifeInv, MutexInv, HookHolds, AwaitsInit, EndInv, StaleInv,
       OrderInv, Busy, Installing
  <2>3. MuSeen' = MuSeen /\ LoopSeen' = "clear" /\ ctxDone
    BY <1>1, <1>3, <2>1 DEF MuSeen, LoopSeen, LifeInv, EndInv
  <2> QED BY <1>1, <1>2, <2>2, <2>3 DEF Moves, Life!Next, Life!HookBegin
<1>4. CASE closing # "done"
  <2>1. rc' = "inHook" /\ dsMu' = Hook /\ pc' = [pc EXCEPT ![Hook] = "begun"]
    BY <1>4 DEF HookStart, HookRequest
  <2>2. LifeInv'
    BY <1>1, <2>1 DEF LifeInv, MutexInv, HookHolds, AwaitsInit, EndInv, StaleInv, OrderInv,
       Busy, Installing, TypeInv, TypeOK, HandlersOK
  <2>3. ~ctxDone
    BY <1>1, <1>4 DEF LifeInv, MutexInv, EndInv, TypeInv, TypeOK, ReconOK
  <2>4. MuSeen' = "hook" /\ LoopSeen' = "inHook"
    BY <2>1 DEF MuSeen, LoopSeen
  <2> QED BY <1>1, <1>2, <2>2, <2>3, <2>4 DEF Moves, Life!Next, Life!HookBegin
<1> QED BY <1>3, <1>4

\* It awaits InitializedEvent, with ds.mu, and goes on or fails.
LEMMA HookWaitMoves ==
    ASSUME TypeInv, LifeInv, HookSnapshot \/ HookSubscribe \/ HookInit \/ HookLost
    PROVE  LifeInv' /\ Moves
<1> USE ProcAssumption DEF Procs, registry, transport, signals, handlers, reader
<1>1. /\ UNCHANGED <<stale, reconnCh, ctxDone, dsMu, rl, newGen, cur, closing, initialised>>
      /\ rc \in AwaitsInit
      /\ \/ rc' = "rest" /\ pc' = [pc EXCEPT ![Hook] = "begun"]
         \/ rc' \in AwaitsInit \cup {"hookErr"} /\ pc' = pc
  BY DEF HookSnapshot, HookSubscribe, HookInit, HookLost, HookRequest, AwaitsInit
<1>2. dsMu = Hook
  BY <1>1 DEF LifeInv, MutexInv, HookHolds
<1>3. LifeInv'
  BY <1>1, <1>2 DEF LifeInv, MutexInv, HookHolds, AwaitsInit, EndInv, StaleInv, OrderInv,
                    Busy, Installing, TypeInv, TypeOK, HandlersOK
<1>4. UNCHANGED Life!life
  BY <1>1, <1>2 DEF Life!life, MuSeen, LoopSeen, AwaitsInit
<1> QED BY <1>3, <1>4 DEF Moves

\* It ends; marking a client stale that is so already changes nothing.
LEMMA HookEndMoves ==
    ASSUME TypeInv, LifeInv, HookOk \/ HookErr
    PROVE  LifeInv' /\ Moves
<1> USE ProcAssumption DEF Procs, registry, transport, signals, reader
<1>1. rc \in {"hookOk", "hookErr"} /\ stale = TRUE /\ reconnCh = FALSE
  BY DEF HookOk, HookErr, LifeInv, StaleInv, Busy, TypeInv, TypeOK, SignalsOK
<1>2. /\ UNCHANGED <<stale, reconnCh, ctxDone, pc, rl, newGen, cur, closing>>
      /\ rc' = "clear" /\ initialised' \in {initialised, TRUE}
      /\ dsMu' = IF dsMu = Hook THEN NoOne ELSE dsMu
  BY <1>1 DEF HookOk, HookErr, MarkStale, LifeInv, MutexInv, HookHolds, AwaitsInit
<1>3. LifeInv'
  BY <1>1, <1>2 DEF LifeInv, MutexInv, HookHolds, AwaitsInit, EndInv, StaleInv, OrderInv, Busy,
     Installing
<1>4. LoopSeen' = "clear"
  BY <1>2 DEF LoopSeen
<1>5. CASE dsMu = Hook
  <2>1. MuSeen' = "free" /\ LoopSeen = "inHook"
    BY <1>1, <1>2, <1>5 DEF MuSeen, LoopSeen
  <2> QED BY <1>2, <1>3, <1>4, <2>1 DEF Moves, Life!Next, Life!HookEnd
<1>6. CASE dsMu # Hook
  <2>1. rc = "hookErr" /\ HookErr
    BY <1>1, <1>6 DEF HookOk, HookErr, LifeInv, MutexInv, HookHolds, AwaitsInit
  <2>2. MuSeen' = MuSeen /\ LoopSeen = "clear" /\ initialised' = initialised
    BY <1>2, <1>6, <2>1 DEF MuSeen, LoopSeen, HookErr
  <2> QED BY <1>2, <1>3, <1>4, <2>2 DEF Moves, Life!life
<1> QED BY <1>5, <1>6

LEMMA ClearMoves ==
    ASSUME TypeInv, LifeInv, ClearStale
    PROVE  LifeInv' /\ Moves
<1> USE ProcAssumption DEF Procs, registry, transport, handlers, reader
<1>1. /\ UNCHANGED <<reconnCh, ctxDone, dsMu, pc, rl, newGen, cur, closing, initialised>>
      /\ rc = "clear" /\ rc' = "return" /\ stale' = FALSE
  BY DEF ClearStale
<1>2. dsMu # Hook
  BY <1>1 DEF LifeInv, MutexInv, HookHolds, AwaitsInit
<1>3. LifeInv'
  BY <1>1 DEF LifeInv, MutexInv, HookHolds, AwaitsInit, EndInv, StaleInv, OrderInv, Busy,
     Installing
<1>4. MuSeen' = MuSeen /\ LoopSeen = "clear" /\ LoopSeen' = "idle"
  BY <1>1, <1>2 DEF MuSeen, LoopSeen
<1> QED BY <1>1, <1>3, <1>4 DEF Moves, Life!Next, Life!Clear

-----------------------------------------------------------------------------
(* The refinement.                                                         *)

LEMMA InitMoves == Init => LifeInv /\ Life!Init
<1> SUFFICES ASSUME Init PROVE LifeInv /\ Life!Init
  OBVIOUS
<1>1. LifeInv
  BY ProcAssumption DEF Init, LifeInv, MutexInv, HookHolds, AwaitsInit, EndInv, StaleInv,
     OrderInv, Busy, Installing, Procs
<1>2. MuSeen = "free" /\ LoopSeen = "idle"
  BY DEF Init, MuSeen, LoopSeen
<1> QED BY <1>1, <1>2 DEF Init, Life!Init

LEMMA StepMoves == TypeInv /\ LifeInv /\ [Next]_vars => LifeInv' /\ [Life!Next]_(Life!life)
<1> SUFFICES ASSUME TypeInv, LifeInv, [Next]_vars PROVE LifeInv' /\ Moves
  BY DEF Moves
<1>1. ASSUME NEW p \in Procs, Request(p) PROVE LifeInv' /\ Moves
  BY <1>1, QuietActions, QuietMoves, ReturnMoves DEF Request
<1>2. ASSUME NEW c \in Callers, Begin(c) \/ Cancel(c) PROVE LifeInv' /\ Moves
  BY <1>2, BeginMoves, ReturnMoves DEF Procs
<1>3. CASE ReadLoop
  BY <1>3, QuietActions, QuietMoves, ReadMoves DEF ReadLoop
<1>8. CASE ReadGarbage
  BY <1>8, ReadMoves
<1>4. CASE ReconnectLoop
  BY <1>4, LoopEndMoves, InstallMoves, SwapMoves, HookStartMoves, HookWaitMoves, HookEndMoves,
     ClearMoves
     DEF ReconnectLoop
<1>5. CASE Close \/ ForceReconnect
  BY <1>5, CloseMoves, ForceMoves
<1>6. CASE Adapter \/ \E g \in Gens : Drop(g)
  BY <1>6, QuietActions, QuietMoves DEF Adapter
<1>7. CASE UNCHANGED vars
  <2>1. Quiet
    BY <1>7 DEF vars, Quiet, registry, transport, signals, handlers, reader, recon, events
  <2> QED BY <2>1, QuietMoves
<1> QED BY <1>1, <1>2, <1>3, <1>4, <1>5, <1>6, <1>7, <1>8 DEF Next

\* To the session the client is what ClientLife promises (dap.go:440-620):
\* usable again only after the hook ran alone with ds.mu, closed only with its
\* readLoop, and never given a connection while it is not stale.
THEOREM ImplementsClientLife == Spec => LifeSpec
<1>1. Init => LifeInv /\ Life!Init
  BY InitMoves
<1>2. TypeInv /\ LifeInv /\ [Next]_vars => LifeInv' /\ [Life!Next]_(Life!life)
  BY StepMoves
<1> QED BY <1>1, <1>2, TypeInvAlways, PTL DEF Spec, LifeSpec, Life!Spec
=============================================================================
