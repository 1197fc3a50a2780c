--------------------------- MODULE SessionProofs ----------------------------
(***************************************************************************)
(* That no process, client or hook outlives its session, that the tools    *)
(* fit the session and that the remembered frame is of the connection in   *)
(* use: for any number of overlapping calls, sessions and losses.          *)
(***************************************************************************)
EXTENDS Session, FiniteSetTheorems, TLAPS

Phases == {"none", "idle", "hook", "clear", "done"} \cup Inside
Places == Locked \cup Unlocked

\* Types, and the orders of numbers that the other parts rest on.
TypeInv ==
    /\ server \in {"up", "ended", "fatal", "crashed"}
    /\ mu \in Callers \cup {NoOne} \cup Sessions
    /\ caps \subseteq Gated
    /\ made \in 0 .. MaxSessions /\ client \in 0 .. made /\ cmd \in 0 .. made
    /\ conn \in Nat /\ handshake \in 0 .. conn /\ frame \in 0 .. conn
    /\ running \subseteq 1 .. made /\ pumping \subseteq 1 .. made
    /\ closed \subseteq 1 .. made /\ stale \subseteq 1 .. made
    /\ loop \in [Sessions -> Phases]
    /\ pc \in [Callers -> Places] /\ local \in [Callers -> Nat]

\* ds.mu is held by whoever is between Lock and Unlock.
MutexInv ==
    /\ \A c \in Callers : pc[c] \in Locked <=> mu = c
    /\ \A n \in Sessions : loop[n] \in Inside <=> mu = n

\* What cleanup and debug have established by the time they are where they are.
StartInv ==
    \A c \in Callers :
        /\ pc[c] \in {"debugRemove", "debugAdd", "spawn"} => cmd = 0 /\ client = 0 /\ frame = 0
        /\ pc[c] = "dial" => client = 0 /\ made > 0 /\ made \notin closed
        /\ pc[c] \in {"dial", "initialize", "launch"} => frame = 0
        /\ pc[c] \in {"stopAdd", "debugAdd", "spawn", "dial", "initialize", "launch",
                      "removeDebug", "addSession"} => "session" \notin tools
        /\ pc[c] \in {"spawn", "dial", "initialize", "launch"} => "debug" \in tools
        /\ pc[c] = "addSession" => "debug" \notin tools
        /\ pc[c] \in {"removeDebug", "addSession"} => handshake # 0

\* A force concerns a client there was.
ForceInv == \A c \in Callers : pc[c] = "force" => local[c] \in 1 .. made

\* OneAdapter, and OneClient with what cleanup has done of it.
LifeInv ==
    /\ OneAdapter /\ OneClient
    /\ client = 0 <=> conn = 0
    /\ \A n \in Sessions : loop[n] # "none" => n = client \/ n \in closed
    /\ \A c \in Callers : pc[c] \in {"stopClean", "debugClean"} =>
           client = 0 \/ client \in closed

\* A context that is being read on an earlier connection than the one that
\* was set up cannot be: the hook would have had to run beside it.
FrameInv ==
    /\ \A c \in Callers : pc[c] = "reading" => local[c] <= conn
    /\ handshake = conn =>
           /\ frame \in {0, conn}
           /\ \A c \in Callers : pc[c] = "reading" => local[c] = conn

IInv == TypeInv /\ MutexInv /\ StartInv /\ ForceInv /\ LifeInv /\ ToolsFit /\ FrameInv

USE SessionBounds, SessionNames, SessionTools DEF Sessions

\* No call is both inside and outside ds.mu.
LEMMA PlacesDiffer == Locked \cap Unlocked = {}
  BY DEF Locked, Unlocked

LEMMA InitIInv == Init => IInv
<1> SUFFICES ASSUME Init PROVE IInv
  OBVIOUS
<1>1. TypeInv
  BY DEF Init, TypeInv, Phases, Places, Unlocked
<1>2. MutexInv
  BY PlacesDiffer DEF Init, MutexInv, Unlocked, Inside
<1>3. StartInv /\ ForceInv /\ FrameInv
  BY DEF Init, StartInv, ForceInv, FrameInv
<1>4. LifeInv /\ ToolsFit
  BY DEF Init, LifeInv, ToolsFit, OneAdapter, OneClient
<1> QED BY <1>1, <1>2, <1>3, <1>4 DEF IInv

-----------------------------------------------------------------------------
(* Tool calls.                                                             *)

\* A step outside ds.mu changes where the call is, and may mark a client stale.
LEMMA UnlockedStep ==
    ASSUME IInv, NEW c \in Callers, NEW to \in Unlocked, NEW x \in Nat,
           pc[c] \in Unlocked,
           pc' = [pc EXCEPT ![c] = to], local' = [local EXCEPT ![c] = x],
           to = "force" => x \in 1 .. made,
           server' \in {server, "crashed"}, stale' \subseteq 1 .. made,
           UNCHANGED <<mu, session, running, pumping, closed, loop, conn, handshake, made>>
    PROVE  IInv'
<1> USE DEF session, clients, IInv
<1>1. TypeInv'
  BY DEF TypeInv, Places
<1>2. MutexInv'
  BY PlacesDiffer DEF MutexInv, TypeInv
<1>3. StartInv'
  BY DEF StartInv, TypeInv, Unlocked
<1>4. ForceInv'
  BY DEF ForceInv, TypeInv
<1>5. LifeInv'
  <2>1. \A d \in Callers : pc'[d] \notin Cleaning => pc[d] \notin Cleaning
    BY DEF TypeInv, Cleaning, Unlocked
  <2>2. OneAdapter' /\ OneClient'
    BY <2>1 DEF LifeInv, OneAdapter, OneClient, TypeInv
  <2> QED BY <2>2 DEF LifeInv, TypeInv, Unlocked
<1>6. FrameInv'
  BY DEF FrameInv, TypeInv, Unlocked
<1>7. ToolsFit'
  <2>1. \A d \in Callers : pc'[d] \notin Registering => pc[d] \notin Registering
    BY DEF TypeInv, Registering, Unlocked
  <2> QED BY <2>1 DEF ToolsFit
<1> QED BY <1>1, <1>2, <1>3, <1>4, <1>5, <1>6, <1>7

\* A call takes ds.mu.
LEMMA LockStep ==
    ASSUME IInv, NEW c \in Callers, NEW x \in Nat,
           NEW to \in {"stopClose", "debugClose", "reading", "pausing"},
           pc[c] \in Unlocked, Locks(c),
           pc' = [pc EXCEPT ![c] = to], local' = [local EXCEPT ![c] = x],
           to = "reading" => x = conn,
           UNCHANGED <<server, session, running, clients, made>>
    PROVE  IInv'
<1> USE DEF session, clients, IInv, Locks
<1>1. TypeInv'
  BY DEF TypeInv, Places, Locked
<1>2. MutexInv'
  BY PlacesDiffer DEF MutexInv, TypeInv, Locked
<1>3. StartInv' /\ ForceInv'
  BY DEF StartInv, ForceInv, TypeInv
<1>4. LifeInv'
  <2>1. \A d \in Callers : pc[d] \in Cleaning => pc'[d] \in Cleaning
    BY DEF TypeInv, Cleaning, Unlocked
  <2>2. OneAdapter' /\ OneClient'
    BY <2>1 DEF LifeInv, OneAdapter, OneClient, TypeInv
  <2> QED BY <2>2 DEF LifeInv, TypeInv
<1>5. FrameInv'
  BY DEF FrameInv, TypeInv
<1>6. ToolsFit'
  <2>1. \A d \in Callers : pc'[d] \notin Registering => pc[d] \notin Registering
    BY DEF TypeInv, Registering, Unlocked
  <2> QED BY <2>1 DEF ToolsFit
<1> QED BY <1>1, <1>2, <1>3, <1>4, <1>5, <1>6

\* A call that has ds.mu returns it, having read a context or nothing.
LEMMA UnlockStep ==
    ASSUME IInv, NEW c \in Callers, NEW x \in Nat, NEW to \in Unlocked \ {"force"},
           pc[c] \in Locked \ Cleaning, mu' = NoOne,
           pc' = [pc EXCEPT ![c] = to], local' = [local EXCEPT ![c] = x],
           frame' = frame \/ (pc[c] = "reading" /\ frame' = local[c]),
           UNCHANGED <<server, caps, cmd, client, running, clients, made>>,
           ToolsFit'
    PROVE  IInv'
<1> USE DEF clients, IInv
<1>1. TypeInv'
  BY DEF TypeInv, Places, FrameInv
<1>2. MutexInv'
  <2>1. \A d \in Callers : pc[d] \in Locked <=> d = c
    BY DEF MutexInv
  <2>2. to \notin Locked
    BY PlacesDiffer
  <2>3. \A d \in Callers : pc'[d] \notin Locked
    BY <2>1, <2>2 DEF TypeInv
  <2>4. \A n \in Sessions : loop[n] \notin Inside
    BY <2>1, SessionNames DEF MutexInv, Sessions
  <2>5. NoOne \notin Callers /\ NoOne \notin Sessions
    BY SessionNames DEF Sessions
  <2> QED BY <2>3, <2>4, <2>5 DEF MutexInv
<1>3. \A d \in Callers \ {c} : pc[d] \notin Locked
  BY DEF MutexInv
<1>4. StartInv' /\ ForceInv'
  BY <1>3 DEF StartInv, ForceInv, TypeInv, Unlocked, Locked
<1>5. LifeInv'
  <2>1. \A d \in Callers : pc[d] \notin Cleaning
    BY <1>3 DEF Cleaning, Locked
  <2>2. OneAdapter' /\ OneClient'
    BY <2>1 DEF LifeInv, OneAdapter, OneClient, TypeInv
  <2> QED BY <2>2, <1>3 DEF LifeInv, TypeInv, Unlocked, Locked
<1>6. FrameInv'
  BY <1>3 DEF FrameInv, TypeInv, Unlocked, Locked
<1> QED BY <1>1, <1>2, <1>4, <1>5, <1>6

\* While c has ds.mu no other call and no hook is inside.
LEMMA Alone ==
    ASSUME IInv, NEW c \in Callers, pc[c] \in Locked
    PROVE  /\ mu = c
           /\ \A d \in Callers \ {c} : pc[d] \in Unlocked
           /\ \A n \in Sessions : loop[n] \notin Inside
  BY DEF IInv, TypeInv, MutexInv, Places

\* Nobody exchanges tools while c has ds.mu for something else.
LEMMA SameTools ==
    ASSUME IInv, NEW c \in Callers, pc[c] \in Locked \ Registering,
           UNCHANGED <<server, tools, handshake>>
    PROVE  ToolsFit'
<1>1. \A d \in Callers : pc[d] \notin Registering
  BY Alone DEF Registering, Unlocked
<1> QED BY <1>1 DEF IInv, ToolsFit

\* A call that has ds.mu goes on, changing no more than tools and what is
\* known of the connection.
LEMMA ToolsStep ==
    ASSUME IInv, NEW c \in Callers, NEW to \in Locked, NEW x \in Nat,
           pc[c] \in Locked \ Cleaning, to \notin Cleaning,
           pc' = [pc EXCEPT ![c] = to], local' = [local EXCEPT ![c] = x],
           to = "reading" => x = conn,
           handshake' = handshake \/ (handshake' = conn /\ frame = 0),
           UNCHANGED <<server, mu, caps, cmd, client, frame, running, pumping, closed, stale,
                       loop, conn, made>>,
           StartInv', ToolsFit'
    PROVE  IInv'
<1> USE DEF IInv
<1>1. \A d \in Callers \ {c} : pc'[d] = pc[d] /\ local'[d] = local[d] /\ pc[d] \in Unlocked
  BY Alone DEF TypeInv
<1>2. TypeInv'
  BY DEF TypeInv, Places
<1>3. MutexInv'
  BY DEF MutexInv, TypeInv
<1>4. ForceInv'
  <2>1. to # "force"
    BY DEF Locked
  <2> QED BY <1>1, <2>1 DEF ForceInv, TypeInv, Unlocked
<1>5. LifeInv'
  <2>1. OneAdapter'
    BY DEF LifeInv, OneAdapter
  <2>2. \A d \in Callers : pc[d] \notin Cleaning
    BY Alone DEF Cleaning, Unlocked
  <2>3. OneClient'
    BY <2>2 DEF LifeInv, OneClient
  <2>4. \A d \in Callers : pc'[d] \notin {"stopClean", "debugClean"}
    BY <1>1 DEF Cleaning, Unlocked, TypeInv
  <2> QED BY <2>1, <2>3, <2>4 DEF LifeInv
<1>6. FrameInv'
  <2>1. \A d \in Callers : pc'[d] = "reading" => local'[d] = conn
    BY <1>1 DEF TypeInv, Unlocked
  <2> QED BY <2>1 DEF FrameInv, TypeInv, LifeInv
<1> QED BY <1>2, <1>3, <1>4, <1>5, <1>6

\* Close cancels the client that cleanup ends.
LEMMA CloseClientIInv ==
    ASSUME IInv, NEW c \in Callers, CloseClient(c)
    PROVE  IInv'
<1> USE DEF session, calls, counters, IInv
<1>1. pc[c] \in Locked /\ pc[c] \in {"stopClose", "debugClose"}
  BY DEF CloseClient, AfterClose, Locked
<1>2. PICK to \in {"stopClean", "debugClean"} : pc' = [pc EXCEPT ![c] = to]
  <2>1. CASE pc[c] = "stopClose"
    <3>1. AfterClose[pc[c]] = "stopClean"
      BY <2>1 DEF AfterClose
    <3> QED BY <3>1 DEF CloseClient, Goes
  <2>2. CASE pc[c] = "debugClose"
    <3>1. AfterClose[pc[c]] = "debugClean"
      BY <2>2 DEF AfterClose
    <3> QED BY <3>1 DEF CloseClient, Goes
  <2> QED BY <1>1, <2>1, <2>2
<1>3. closed' = closed \cup ({client} \ {0})
  BY DEF CloseClient, Cancelled
<1>4. UNCHANGED <<server, mu, session, running, pumping, stale, loop, conn, handshake, local, made>>
  BY DEF CloseClient
<1>5. TypeInv'
  BY <1>2, <1>3, <1>4 DEF TypeInv, Places, Locked
<1>6. MutexInv'
  BY <1>1, <1>2, <1>4 DEF MutexInv, TypeInv, Locked
<1>7. StartInv' /\ ForceInv'
  BY <1>1, <1>2, <1>3, <1>4, Alone DEF StartInv, ForceInv, TypeInv, Unlocked
<1>8. LifeInv'
  <2>1. OneAdapter'
    BY <1>4 DEF LifeInv, OneAdapter
  <2>2. OneClient'
    BY <1>2, <1>4 DEF LifeInv, OneClient, TypeInv, Cleaning
  <2>3. client = 0 \/ client \in closed'
    BY <1>3
  <2>4. closed \subseteq closed'
    BY <1>3
  <2> QED BY <2>1, <2>2, <2>3, <2>4, <1>4 DEF LifeInv
<1>9. FrameInv'
  BY <1>2, <1>4 DEF FrameInv, TypeInv
<1>10. ToolsFit'
  <2>1. \A d \in Callers : pc'[d] \notin Registering => pc[d] \notin Registering
    BY <1>1, <1>2 DEF TypeInv, Registering
  <2> QED BY <2>1, <1>4 DEF ToolsFit
<1> QED BY <1>5, <1>6, <1>7, <1>8, <1>9, <1>10

\* The rest of cleanup, once readLoop has ended, leaves no session at all.
LEMMA CleanupIInv ==
    ASSUME IInv, NEW c \in Callers, Cleanup(c)
    PROVE  IInv'
<1> USE DEF IInv
<1>1. pc[c] \in Locked /\ pc[c] \in {"stopClean", "debugClean"} /\ server = "up"
  BY DEF Cleanup, AfterClean, Locked
<1>2. /\ client' = 0 /\ cmd' = 0 /\ conn' = 0 /\ handshake' = 0 /\ caps' = {} /\ frame' = 0
      /\ running' = running \ {cmd}
  BY DEF Cleanup, CleanedUp, Killed
<1>3. UNCHANGED <<server, mu, tools, pumping, closed, stale, loop, local, made>>
      /\ client \notin pumping
  BY DEF Cleanup, counters, PumpDone
<1>4. PICK to \in {"stopRemove", "debugRemove"} : pc' = [pc EXCEPT ![c] = to]
  <2>1. CASE pc[c] = "stopClean"
    <3>1. AfterClean[pc[c]] = "stopRemove"
      BY <2>1 DEF AfterClean
    <3> QED BY <3>1 DEF Cleanup, Goes
  <2>2. CASE pc[c] = "debugClean"
    <3>1. AfterClean[pc[c]] = "debugRemove"
      BY <2>2 DEF AfterClean
    <3> QED BY <3>1 DEF Cleanup, Goes
  <2> QED BY <1>1, <2>1, <2>2
<1>5. running \subseteq {cmd} /\ pumping \subseteq {client}
  BY <1>1 DEF LifeInv, OneAdapter, OneClient
<1>6. TypeInv'
  <2>1. pc' \in [Callers -> Places]
    BY <1>4 DEF TypeInv, Places, Locked
  <2>2. running' \subseteq 1 .. made
    BY <1>2 DEF TypeInv
  <2> QED BY <2>1, <2>2, <1>2, <1>3 DEF TypeInv
<1>7. MutexInv'
  BY <1>1, <1>3, <1>4 DEF MutexInv, TypeInv, Locked
<1>8. StartInv' /\ ForceInv'
  BY <1>1, <1>2, <1>3, <1>4, Alone DEF StartInv, ForceInv, TypeInv, Unlocked
<1>9. LifeInv'
  <2>1. OneAdapter' /\ OneClient'
    BY <1>1, <1>2, <1>3, <1>5 DEF OneAdapter, OneClient
  <2>2. \A n \in Sessions : loop[n] # "none" => n \in closed
    BY <1>1 DEF LifeInv, TypeInv
  <2> QED BY <2>1, <2>2, <1>2, <1>3 DEF LifeInv
<1>10. ToolsFit'
  <2>1. pc'[c] \in Registering
    BY <1>4 DEF TypeInv, Registering
  <2> QED BY <2>1, <1>3 DEF ToolsFit
<1>11. FrameInv'
  <2>1. \A d \in Callers : pc'[d] # "reading"
    BY <1>1, <1>4, Alone DEF TypeInv, Unlocked
  <2> QED BY <2>1, <1>2 DEF FrameInv
<1> QED BY <1>6, <1>7, <1>8, <1>9, <1>10, <1>11

\* A new adapter process, when the last one has been killed.
LEMMA SpawnIInv ==
    ASSUME IInv, NEW c \in Callers, Spawn(c)
    PROVE  IInv'
<1> USE DEF clients, IInv
<1>1. pc[c] = "spawn" /\ server = "up" /\ pc[c] \in Locked /\ mu = c
  BY Alone DEF Spawn, At, Locked
<1>2. made < MaxSessions /\ made' = made + 1
  BY DEF Spawn
<1>3. \/ cmd' = 0 /\ running' = running
      \/ cmd' = made' /\ running' = running \cup {made'}
  BY DEF Spawn
<1>4. pc' = [pc EXCEPT ![c] = "dial"]
  BY DEF Spawn, Goes
<1>5. UNCHANGED <<server, mu, tools, caps, client, frame, clients, local>>
  BY DEF Spawn
<1>6. cmd = 0 /\ client = 0 /\ running = {}
  BY <1>1 DEF StartInv, LifeInv, OneAdapter, TypeInv
<1>7. TypeInv'
  <2>1. made' \in 0 .. MaxSessions /\ 0 .. made \subseteq 0 .. made' /\ made' \in 1 .. made'
    BY <1>2 DEF TypeInv
  <2>2. 1 .. made \subseteq 1 .. made'
    BY <1>2 DEF TypeInv
  <2>3. cmd' \in 0 .. made' /\ running' \subseteq 1 .. made'
    BY <1>3, <1>6, <2>1
  <2>4. pc' \in [Callers -> Places]
    BY <1>4 DEF TypeInv, Places, Locked
  <2> QED BY <2>1, <2>2, <2>3, <2>4, <1>5 DEF TypeInv
<1>8. MutexInv'
  BY <1>1, <1>4, <1>5 DEF MutexInv, TypeInv, Locked
<1>9. StartInv'
  <2>1. made' > 0 /\ made' \notin closed /\ frame = 0 /\ "session" \notin tools
    BY <1>1, <1>2 DEF StartInv, TypeInv
  <2>2. \A d \in Callers \ {c} : pc'[d] \in Unlocked
    BY <1>1, <1>4, Alone DEF TypeInv
  <2>3. pc'[c] = "dial" /\ "debug" \in tools
    BY <1>1, <1>4 DEF TypeInv, StartInv
  <2> QED BY <2>1, <2>2, <2>3, <1>5, <1>6 DEF StartInv, Unlocked
<1>10. ForceInv'
  BY <1>2, <1>4, <1>5 DEF ForceInv, TypeInv
<1>11. LifeInv'
  <2>1. OneAdapter' /\ OneClient'
    BY <1>1, <1>3, <1>5, <1>6 DEF LifeInv, OneAdapter, OneClient
  <2> QED BY <2>1, <1>4, <1>5, <1>6 DEF LifeInv, TypeInv
<1>12. FrameInv'
  BY <1>4, <1>5 DEF FrameInv, TypeInv
<1>13. ToolsFit'
  BY <1>1, <1>5, SameTools DEF Registering
<1> QED BY <1>7, <1>8, <1>9, <1>10, <1>11, <1>12, <1>13

\* The client of the new session: the only one, and not closed.
LEMMA DialIInv ==
    ASSUME IInv, NEW c \in Callers, Dial(c)
    PROVE  IInv'
<1> USE DEF counters, IInv
<1>1. pc[c] = "dial" /\ server = "up" /\ pc[c] \in Locked /\ mu = c
  BY Alone DEF Dial, At, Locked
<1>2. client = 0 /\ made > 0 /\ made \notin closed /\ frame = 0 /\ "session" \notin tools
      /\ "debug" \in tools
  BY <1>1 DEF StartInv
<1>3. conn = 0 /\ handshake = 0 /\ pumping = {}
  BY <1>1, <1>2 DEF LifeInv, OneClient, TypeInv
<1>4. /\ client' = made /\ pumping' = pumping \cup {made} /\ conn' = 1
      /\ loop' = [loop EXCEPT ![made] = "idle"]
      /\ pc' = [pc EXCEPT ![c] = "initialize"]
  BY DEF Dial, Goes
<1>5. UNCHANGED <<server, mu, tools, caps, cmd, frame, running, closed, stale, handshake,
                  local, made>>
  BY DEF Dial
<1>6. made \in Sessions
  BY <1>2 DEF TypeInv
<1>7. TypeInv'
  BY <1>2, <1>3, <1>4, <1>5, <1>6 DEF TypeInv, Places, Locked, Phases
<1>8. MutexInv'
  <2>1. \A n \in Sessions : mu # n
    BY <1>1
  <2>2. \A n \in Sessions : loop'[n] \notin Inside
    BY <1>1, <1>4, <1>6, Alone DEF TypeInv, Inside
  <2>3. \A d \in Callers : pc'[d] \in Locked <=> mu = d
    BY <1>1, <1>4 DEF MutexInv, TypeInv, Locked
  <2> QED BY <2>1, <2>2, <2>3, <1>5 DEF MutexInv
<1>9. StartInv' /\ ForceInv'
  <2>1. \A d \in Callers \ {c} : pc'[d] = pc[d] /\ pc'[d] \in Unlocked
    BY <1>1, <1>4, Alone DEF TypeInv
  <2>2. pc'[c] = "initialize"
    BY <1>4 DEF TypeInv
  <2> QED BY <2>1, <2>2, <1>2, <1>5 DEF StartInv, ForceInv, Unlocked
<1>10. LifeInv'
  <2>1. OneAdapter'
    BY <1>5 DEF LifeInv, OneAdapter
  <2>2. OneClient'
    BY <1>2, <1>3, <1>4, <1>5 DEF OneClient
  <2>3. \A n \in Sessions : loop'[n] # "none" => n = made \/ n \in closed
    BY <1>2, <1>4, <1>6 DEF LifeInv, TypeInv
  <2>4. \A d \in Callers : pc'[d] \notin {"stopClean", "debugClean"}
    BY <1>1, <1>4, Alone DEF TypeInv, Unlocked
  <2> QED BY <2>1, <2>2, <2>3, <2>4, <1>2, <1>4, <1>5 DEF LifeInv
<1>11. ToolsFit'
  BY <1>1, <1>5, SameTools DEF Registering
<1>12. FrameInv'
  <2>1. \A d \in Callers : pc'[d] # "reading"
    BY <1>1, <1>4, Alone DEF TypeInv, Unlocked
  <2> QED BY <2>1, <1>3, <1>4, <1>5 DEF FrameInv
<1> QED BY <1>7, <1>8, <1>9, <1>10, <1>11, <1>12

LEMMA InitializeIInv ==
    ASSUME IInv, NEW c \in Callers, Initialize(c)
    PROVE  IInv'
<1> USE DEF clients, counters, IInv
<1>1. pc[c] = "initialize" /\ server = "up" /\ pc[c] \in Locked /\ mu = c
  BY Alone DEF Initialize, At, Locked
<1>2. caps' \subseteq Gated /\ pc' = [pc EXCEPT ![c] = "launch"]
  BY DEF Initialize, Goes
<1>3. UNCHANGED <<server, mu, tools, cmd, client, frame, running, clients, local, made>>
  BY DEF Initialize
<1>4. TypeInv'
  BY <1>2, <1>3 DEF TypeInv, Places, Locked
<1>5. MutexInv'
  BY <1>1, <1>2, <1>3 DEF MutexInv, TypeInv, Locked
<1>6. StartInv' /\ ForceInv'
  BY <1>1, <1>2, <1>3 DEF StartInv, ForceInv, TypeInv
<1>7. LifeInv'
  <2>1. OneAdapter'
    BY <1>3 DEF LifeInv, OneAdapter
  <2>2. OneClient'
    BY <1>1, <1>2, <1>3 DEF LifeInv, OneClient, TypeInv, Cleaning
  <2> QED BY <2>1, <2>2, <1>2, <1>3 DEF LifeInv, TypeInv
<1>8. FrameInv'
  BY <1>2, <1>3 DEF FrameInv, TypeInv
<1>9. ToolsFit'
  BY <1>1, <1>3, SameTools DEF Registering
<1> QED BY <1>4, <1>5, <1>6, <1>7, <1>8, <1>9

\* The tools of the session replace debug once its connection is initialised,
\* and debug replaces them once cleanup has left no session.
LEMMA ExchangeIInv ==
    ASSUME IInv, NEW c \in Callers,
           \/ Launch(c) \/ RemoveDebug(c) \/ AddSession(c) \/ AddGated(c)
           \/ RemoveSession(c) \/ AddDebug(c)
    PROVE  IInv'
<1> USE DEF IInv
<1>1. pc[c] \in Locked \ Cleaning /\ pc[c] # "force" /\ server = "up"
  BY DEF Launch, RemoveDebug, AddSession, AddGated, RemoveSession, AddDebug, AfterRemove, At,
         Locked, Cleaning
<1>2. mu = c /\ \A d \in Callers \ {c} : pc[d] \in Unlocked
  BY <1>1, Alone
<1>3. local[c] \in Nat /\ local = [local EXCEPT ![c] = local[c]] /\ conn \in Nat
      /\ pc \in [Callers -> Places]
  BY DEF TypeInv
<1>4. CASE Launch(c)
  <2>1. /\ pc[c] = "launch" /\ pc' = [pc EXCEPT ![c] = "removeDebug"] /\ handshake' = conn
        /\ client # 0
        /\ UNCHANGED <<server, mu, session, running, pumping, closed, stale, loop, conn, local,
                       made>>
    BY <1>4 DEF Launch, At, Goes, Usable, counters
  <2>2. frame = 0 /\ conn # 0 /\ "session" \notin tools /\ "debug" \in tools
    BY <2>1 DEF StartInv, LifeInv
  <2>3. StartInv'
    BY <1>2, <1>3, <2>1, <2>2 DEF StartInv, Unlocked, session
  <2>4. ToolsFit'
    BY <2>1, <2>2 DEF ToolsFit, session
  <2>5. "removeDebug" \in Locked \ Cleaning
    BY DEF Locked, Cleaning
  <2> QED BY <1>1, <1>3, <2>1, <2>2, <2>3, <2>4, <2>5, ToolsStep DEF session
<1>5. CASE RemoveDebug(c)
  <2>1. /\ pc[c] = "removeDebug" /\ pc' = [pc EXCEPT ![c] = "addSession"]
        /\ tools' = tools \ {"debug"}
        /\ UNCHANGED <<server, mu, caps, cmd, client, frame, running, clients, local, made>>
    BY <1>5 DEF RemoveDebug, At, Goes, counters
  <2>2. "session" \notin tools /\ handshake # 0
    BY <2>1 DEF StartInv
  <2>3. StartInv'
    BY <1>2, <1>3, <2>1, <2>2 DEF StartInv, Unlocked, clients
  <2>4. pc'[c] \in Registering
    BY <1>3, <2>1 DEF Registering
  <2>5. ToolsFit'
    BY <2>1, <2>2, <2>4 DEF ToolsFit
  <2>6. "addSession" \in Locked \ Cleaning
    BY DEF Locked, Cleaning
  <2> QED BY <1>1, <1>3, <2>1, <2>3, <2>5, <2>6, ToolsStep DEF clients
<1>6. CASE AddSession(c)
  <2>1. /\ pc[c] = "addSession" /\ pc' = [pc EXCEPT ![c] = "addGated"]
        /\ tools' = tools \cup {"session"}
        /\ UNCHANGED <<server, mu, caps, cmd, client, frame, running, clients, local, made>>
    BY <1>6 DEF AddSession, At, Goes, counters
  <2>2. "debug" \notin tools /\ handshake # 0
    BY <2>1 DEF StartInv
  <2>3. StartInv'
    BY <1>2, <1>3, <2>1 DEF StartInv, Unlocked, clients
  <2>4. ToolsFit'
    BY <2>1, <2>2 DEF ToolsFit, clients
  <2>5. "addGated" \in Locked \ Cleaning
    BY DEF Locked, Cleaning
  <2> QED BY <1>1, <1>3, <2>1, <2>3, <2>4, <2>5, ToolsStep DEF clients
<1>7. CASE AddGated(c)
  <2>1. /\ pc[c] = "addGated" /\ tools' = tools \cup caps
        /\ UNCHANGED <<server, caps, cmd, client, frame, running, clients, made>>
    BY <1>7 DEF AddGated, At, counters
  <2>2. \A d \in Callers : pc[d] \notin Registering
    BY <1>2, <2>1 DEF Registering, Unlocked
  <2>3. "debug" \in tools' <=> "debug" \in tools
    BY <2>1 DEF TypeInv
  <2>4. "session" \in tools' <=> "session" \in tools
    BY <2>1 DEF TypeInv
  <2>5. ToolsFit'
    BY <2>1, <2>2, <2>3, <2>4 DEF ToolsFit, clients
  <2>6. CASE pc' = [pc EXCEPT ![c] = "idle"] /\ local' = [local EXCEPT ![c] = 0] /\ mu' = NoOne
    <3>1. "idle" \in Unlocked \ {"force"}
      BY DEF Unlocked
    <3> QED BY <1>1, <2>1, <2>5, <2>6, <3>1, UnlockStep DEF session
  <2>7. CASE /\ pc' = [pc EXCEPT ![c] = "reading"] /\ local' = [local EXCEPT ![c] = conn]
             /\ mu' = mu
    <3>1. "reading" \in Locked \ Cleaning
      BY DEF Locked, Cleaning
    <3>2. StartInv'
      BY <1>2, <1>3, <2>1, <2>7 DEF StartInv, Unlocked
    <3> QED BY <1>1, <1>3, <2>1, <2>5, <2>7, <3>1, <3>2, ToolsStep DEF clients
  <2> QED BY <1>7, <2>6, <2>7 DEF AddGated, Returns, Ends, Goes, Keeps
<1>8. CASE RemoveSession(c)
  <2>1. /\ pc[c] \in {"stopRemove", "debugRemove"} /\ tools' = tools \ {"session"}
        /\ UNCHANGED <<server, mu, caps, cmd, client, frame, running, clients, local, made>>
    BY <1>8 DEF RemoveSession, AfterRemove, SessionRemoved, counters
  <2>2. PICK to \in {"stopAdd", "debugAdd"} :
            /\ pc' = [pc EXCEPT ![c] = to]
            /\ to = "debugAdd" => pc[c] = "debugRemove"
    <3>1. CASE pc[c] = "stopRemove"
      <4>1. AfterRemove[pc[c]] = "stopAdd"
        BY <3>1 DEF AfterRemove
      <4> QED BY <1>8, <4>1 DEF RemoveSession, Goes
    <3>2. CASE pc[c] = "debugRemove"
      <4>1. AfterRemove[pc[c]] = "debugAdd"
        BY <3>2 DEF AfterRemove
      <4> QED BY <1>8, <3>2, <4>1 DEF RemoveSession, Goes
    <3> QED BY <2>1, <3>1, <3>2
  <2>3. StartInv'
    BY <1>2, <1>3, <2>1, <2>2 DEF StartInv, Unlocked, clients
  <2>4. pc'[c] \in Registering
    BY <1>3, <2>2 DEF Registering
  <2>5. ToolsFit'
    BY <2>1, <2>4 DEF ToolsFit
  <2>6. to \in Locked \ Cleaning
    BY DEF Locked, Cleaning
  <2>7. to # "reading"
    OBVIOUS
  <2> QED BY <1>1, <1>3, <2>1, <2>2, <2>3, <2>5, <2>6, <2>7, ToolsStep DEF clients
<1>9. CASE AddDebug(c)
  <2>1. /\ pc[c] \in {"stopAdd", "debugAdd"} /\ tools' = tools \cup {"debug"}
        /\ UNCHANGED <<server, caps, cmd, client, frame, running, clients, made>>
    BY <1>9 DEF AddDebug, DebugAdded, counters
  <2>2. "session" \notin tools
    BY <2>1 DEF StartInv
  <2>3. ToolsFit'
    BY <2>1, <2>2 DEF ToolsFit
  <2>4. CASE pc' = [pc EXCEPT ![c] = "idle"] /\ local' = [local EXCEPT ![c] = 0] /\ mu' = NoOne
    <3>1. "idle" \in Unlocked \ {"force"}
      BY DEF Unlocked
    <3> QED BY <1>1, <2>1, <2>3, <2>4, <3>1, UnlockStep DEF session
  <2>5. CASE /\ pc[c] = "debugAdd" /\ pc' = [pc EXCEPT ![c] = "spawn"]
             /\ UNCHANGED <<mu, local>>
    <3>1. "spawn" \in Locked \ Cleaning
      BY DEF Locked, Cleaning
    <3>2. StartInv'
      BY <1>2, <1>3, <2>1, <2>2, <2>5 DEF StartInv, Unlocked, clients
    <3> QED BY <1>1, <1>3, <2>1, <2>3, <2>5, <3>1, <3>2, ToolsStep DEF clients
  <2> QED BY <1>9, <2>1, <2>4, <2>5 DEF AddDebug, Returns, Ends, Goes, Keeps
<1> QED BY <1>4, <1>5, <1>6, <1>7, <1>8, <1>9

\* A tool is called.
LEMMA CallIInv ==
    ASSUME IInv, NEW c \in Callers,
           NEW tool \in {"debug", "stop", "context", "wait", "reconnect"}, Call(c, tool)
    PROVE  IInv'
<1>1. tool \in Unlocked /\ pc[c] \in Unlocked /\ tool # "force"
  BY DEF Call, At, Unlocked
<1>2. local[c] \in Nat /\ local = [local EXCEPT ![c] = local[c]] /\ stale \subseteq 1 .. made
  BY DEF IInv, TypeInv
<1>3. /\ pc' = [pc EXCEPT ![c] = tool]
      /\ UNCHANGED <<server, mu, session, running, clients, local, made>>
  BY DEF Call, Goes, counters
<1> QED BY <1>1, <1>2, <1>3, UnlockedStep DEF session, clients

\* The calls that move outside ds.mu.
LEMMA UnlockedIInv ==
    ASSUME IInv, NEW c \in Callers,
           \/ StopIdle(c) \/ ToolRefused(c) \/ Wait(c) \/ WaitDone(c) \/ PauseSubscribe(c)
           \/ PauseDone(c) \/ Reconnect(c) \/ ReconnectForced(c) \/ MarkStale(c) \/ Poll(c)
    PROVE  IInv'
<1> USE DEF At, Goes, Keeps, Ends, session, clients, calls, counters, Unlocked
<1>1. local[c] \in Nat /\ local = [local EXCEPT ![c] = local[c]]
      /\ pc = [pc EXCEPT ![c] = pc[c]] /\ stale \subseteq 1 .. made
  BY DEF IInv, TypeInv
<1>3. CASE StopIdle(c) \/ ToolRefused(c) \/ Poll(c)
  <2>1. pc[c] \in Unlocked /\ pc' = [pc EXCEPT ![c] = "idle"] /\ local' = [local EXCEPT ![c] = 0]
        /\ UNCHANGED <<server, mu, session, running, clients, made>>
    BY <1>3 DEF StopIdle, ToolRefused, Poll
  <2> QED BY <1>1, <2>1, UnlockedStep
<1>4. CASE Wait(c)
  BY <1>1, <1>4, UnlockedStep DEF Wait
<1>5. CASE WaitDone(c) \/ PauseDone(c)
  <2>1. PICK to \in {"got", "pause", "idle"} : pc' = [pc EXCEPT ![c] = to]
    BY <1>5 DEF WaitDone, PauseDone
  <2>2. pc[c] \in Unlocked /\ UNCHANGED <<server, mu, session, running, clients, local, made>>
    BY <1>5 DEF WaitDone, PauseDone
  <2> QED BY <1>1, <2>1, <2>2, UnlockedStep
<1>6. CASE PauseSubscribe(c)
  <2>1. pc[c] = "paused" /\ UNCHANGED <<mu, session, running, clients, local, made>>
    BY <1>6 DEF PauseSubscribe
  <2>2. CASE client = 0
    <3>1. server' = "crashed" /\ pc' = [pc EXCEPT ![c] = "paused"]
      BY <1>1, <1>6, <2>1, <2>2 DEF PauseSubscribe
    <3> QED BY <1>1, <2>1, <3>1, UnlockedStep
  <2>3. CASE client # 0
    <3>1. server' = server /\ pc' = [pc EXCEPT ![c] = "waitingPause"]
      BY <1>6, <2>3 DEF PauseSubscribe
    <3> QED BY <1>1, <2>1, <3>1, UnlockedStep
  <2> QED BY <2>2, <2>3
<1>7. CASE Reconnect(c)
  <2>1. PICK to \in {"poll", "idle"} : pc' = [pc EXCEPT ![c] = to]
    BY <1>7 DEF Reconnect
  <2>2. pc[c] \in Unlocked /\ UNCHANGED <<server, mu, session, running, clients, local, made>>
    BY <1>7 DEF Reconnect
  <2> QED BY <1>1, <2>1, <2>2, UnlockedStep
<1>8. CASE ReconnectForced(c)
  <2>1. pc[c] = "reconnect" /\ client \in 1 .. made
        /\ UNCHANGED <<server, mu, session, running, clients, made>>
    BY <1>8 DEF ReconnectForced, IInv, TypeInv
  <2>2. CASE backend = "connect"
    <3>1. pc' = [pc EXCEPT ![c] = "force"] /\ local' = [local EXCEPT ![c] = client]
      BY <1>8, <2>2 DEF ReconnectForced
    <3>2. client \in Nat
      BY <2>1 DEF IInv, TypeInv
    <3> QED BY <1>1, <2>1, <3>1, <3>2, UnlockedStep
  <2>3. CASE backend # "connect"
    <3>1. pc' = [pc EXCEPT ![c] = "idle"] /\ local' = [local EXCEPT ![c] = local[c]]
      BY <1>1, <1>8, <2>3 DEF ReconnectForced
    <3> QED BY <1>1, <2>1, <3>1, UnlockedStep
  <2> QED BY <2>2, <2>3
<1>9. CASE MarkStale(c)
  <2>1. stale' \subseteq 1 .. made
    BY <1>1, <1>9 DEF MarkStale, IInv, ForceInv
  <2>2. pc[c] \in Unlocked /\ pc' = [pc EXCEPT ![c] = "poll"] /\ local' = [local EXCEPT ![c] = 0]
        /\ UNCHANGED <<server, mu, session, running, pumping, closed, loop, conn, handshake, made>>
    BY <1>9 DEF MarkStale
  <2> QED BY <2>1, <2>2, UnlockedStep
<1> QED BY <1>3, <1>4, <1>5, <1>6, <1>7, <1>8, <1>9

\* The calls that take ds.mu.
LEMMA LockIInv ==
    ASSUME IInv, NEW c \in Callers, Stop(c) \/ Debug(c) \/ Context(c) \/ Pause(c)
    PROVE  IInv'
<1> USE DEF At, Goes, Keeps, session, clients, counters, Unlocked
<1>1. local[c] \in Nat /\ conn \in Nat /\ local = [local EXCEPT ![c] = local[c]]
  BY DEF IInv, TypeInv
<1>2. CASE Stop(c)
  BY <1>1, <1>2, LockStep DEF Stop
<1>3. CASE Debug(c)
  BY <1>1, <1>3, LockStep DEF Debug
<1>4. CASE Context(c)
  BY <1>1, <1>4, LockStep DEF Context, ReadsContext
<1>5. CASE Pause(c)
  BY <1>1, <1>5, LockStep DEF Pause
<1> QED BY <1>2, <1>3, <1>4, <1>5

\* The calls that leave it, with no more than a frame read.
LEMMA UnlockIInv ==
    ASSUME IInv, NEW c \in Callers,
           \/ DebugRefused(c) \/ SpawnFails(c) \/ DialFails(c) \/ DebugFails(c)
           \/ ContextRead(c) \/ PauseAnswered(c)
    PROVE  IInv'
<1> USE DEF At, Goes, Keeps, Ends, Returns, session, counters
<1>1. local[c] \in Nat /\ local = [local EXCEPT ![c] = local[c]]
  BY DEF IInv, TypeInv
<1>2. {"idle", "paused"} \subseteq Unlocked \ {"force"}
  BY DEF Unlocked
<1>3. CASE DebugRefused(c) \/ SpawnFails(c) \/ DialFails(c) \/ DebugFails(c)
  <2>1. /\ pc[c] \in Locked \ (Cleaning \cup Registering) /\ mu' = NoOne
        /\ pc' = [pc EXCEPT ![c] = "idle"] /\ local' = [local EXCEPT ![c] = 0]
        /\ UNCHANGED <<server, tools, caps, cmd, client, frame, running, clients, made>>
    BY <1>3 DEF DebugRefused, SpawnFails, DialFails, DebugFails, Locked, Cleaning, Registering
  <2>2. ToolsFit'
    BY <2>1, SameTools DEF clients
  <2> QED BY <1>2, <2>1, <2>2, UnlockStep
<1>4. CASE ContextRead(c)
  <2>1. /\ pc[c] = "reading" /\ pc[c] \in Locked \ Cleaning /\ mu' = NoOne
        /\ pc' = [pc EXCEPT ![c] = "idle"] /\ local' = [local EXCEPT ![c] = 0]
        /\ frame' = frame \/ frame' = local[c]
        /\ UNCHANGED <<server, tools, caps, cmd, client, running, clients, made>>
    BY <1>4 DEF ContextRead, Locked, Cleaning
  <2>2. ToolsFit'
    BY <2>1, SameTools DEF clients, Registering
  <2> QED BY <1>2, <2>1, <2>2, UnlockStep
<1>5. CASE PauseAnswered(c)
  <2>1. PICK to \in {"paused", "idle"} : pc' = [pc EXCEPT ![c] = to] /\ mu' = NoOne
    BY <1>5 DEF PauseAnswered, Released
  <2>2. /\ pc[c] \in Locked \ (Cleaning \cup Registering)
        /\ UNCHANGED <<server, tools, caps, cmd, client, frame, running, clients, local, made>>
    BY <1>5 DEF PauseAnswered, Locked, Cleaning, Registering
  <2>3. ToolsFit'
    BY <2>2, SameTools DEF clients
  <2> QED BY <1>1, <1>2, <2>1, <2>2, <2>3, UnlockStep
<1> QED BY <1>3, <1>4, <1>5

LEMMA HandlerIInv ==
    ASSUME IInv, NEW c \in Callers, Handler(c)
    PROVE  IInv'
  BY UnlockedIInv, LockIInv, UnlockIInv, CloseClientIInv, CleanupIInv, SpawnIInv, DialIInv,
     InitializeIInv, ExchangeIInv DEF Handler

-----------------------------------------------------------------------------
(* The goroutines of a client.                                             *)

\* A loss, an end of readLoop, of a process or of reconnectLoop, and the end
\* of a reconnect take nothing from the client in use.
LEMMA QuietStep ==
    ASSUME IInv, NEW n \in Sessions,
           Lose(n) \/ PumpExits(n) \/ ProcExits(n) \/ LoopEnds(n) \/ Clear(n) \/ HookDeaf(n)
    PROVE  IInv'
<1> USE DEF session, clients, calls, counters, IInv
<1>1. UNCHANGED <<server, mu, tools, caps, cmd, client, frame, closed, conn, handshake,
                  pc, local, made>>
  BY DEF Lose, PumpExits, ProcExits, LoopEnds, Clear, HookDeaf
<1>2. pumping' = pumping \/ (pumping' = pumping \ {n} /\ n \in closed)
  BY DEF Lose, PumpExits, ProcExits, LoopEnds, Clear, HookDeaf
<1>3. running' \subseteq running
  BY DEF Lose, PumpExits, ProcExits, LoopEnds, Clear, HookDeaf
<1>4. stale' \subseteq 1 .. made
  BY DEF Lose, PumpExits, ProcExits, LoopEnds, Clear, HookDeaf, Up, TypeInv
<1>5. \/ loop' = loop
      \/ /\ loop[n] \in {"idle", "clear"}
         /\ \E ph \in {"idle", "done"} : loop' = [loop EXCEPT ![n] = ph]
      \/ loop[n] = "inHook" /\ loop' = [loop EXCEPT ![n] = "deaf"]
  BY DEF Lose, PumpExits, ProcExits, LoopEnds, Clear, HookDeaf
<1>6. TypeInv'
  <2>1. loop' \in [Sessions -> Phases]
    BY <1>5 DEF TypeInv, Phases, Inside
  <2> QED BY <2>1, <1>1, <1>2, <1>3, <1>4 DEF TypeInv
<1>7. MutexInv'
  <2>1. \A m \in Sessions : loop'[m] \in Inside <=> loop[m] \in Inside
    BY <1>5 DEF TypeInv, Inside
  <2> QED BY <2>1, <1>1 DEF MutexInv
<1>8. StartInv' /\ ForceInv' /\ ToolsFit' /\ FrameInv'
  BY <1>1 DEF StartInv, ForceInv, ToolsFit, FrameInv
<1>9. LifeInv'
  <2>1. OneAdapter'
    BY <1>1, <1>3 DEF LifeInv, OneAdapter
  <2>2. OneClient'
    BY <1>1, <1>2 DEF LifeInv, OneClient
  <2>3. \A m \in Sessions : loop'[m] # "none" => loop[m] # "none"
    BY <1>5 DEF TypeInv
  <2> QED BY <2>1, <2>2, <2>3, <1>1 DEF LifeInv
<1> QED BY <1>6, <1>7, <1>8, <1>9

\* A new connection is not initialised, and no frame or read is of it.
LEMMA RedialIInv ==
    ASSUME IInv, NEW n \in Sessions, Redial(n)
    PROVE  IInv'
<1> USE DEF session, calls, counters, IInv
<1>1. UNCHANGED <<server, mu, tools, caps, cmd, client, frame, running, pumping, closed, stale,
                  handshake, pc, local, made>>
  BY DEF Redial
<1>2. loop[n] = "idle" /\ loop' = [loop EXCEPT ![n] = "hook"]
  BY DEF Redial
<1>3. conn' = conn \/ (client # 0 /\ conn' = conn + 1)
  BY DEF Redial
<1>4. TypeInv'
  <2>1. conn' \in Nat /\ conn <= conn'
    BY <1>3 DEF TypeInv
  <2>2. handshake' \in 0 .. conn' /\ frame' \in 0 .. conn'
    BY <1>1, <2>1 DEF TypeInv
  <2>3. loop' \in [Sessions -> Phases]
    BY <1>2 DEF TypeInv, Phases
  <2> QED BY <2>1, <2>2, <2>3, <1>1 DEF TypeInv
<1>5. MutexInv'
  BY <1>1, <1>2 DEF MutexInv, TypeInv, Inside
<1>6. StartInv' /\ ForceInv' /\ ToolsFit'
  BY <1>1 DEF StartInv, ForceInv, ToolsFit
<1>7. LifeInv'
  <2>1. OneAdapter' /\ OneClient'
    BY <1>1 DEF LifeInv, OneAdapter, OneClient
  <2>2. client' = 0 <=> conn' = 0
    BY <1>1, <1>3 DEF LifeInv, TypeInv
  <2> QED BY <2>1, <2>2, <1>1, <1>2 DEF LifeInv, TypeInv
<1>8. FrameInv'
  <2>1. CASE conn' = conn
    BY <2>1, <1>1 DEF FrameInv
  <2>2. CASE conn' = conn + 1
    <3>1. handshake' # conn' /\ conn <= conn'
      BY <2>2, <1>1 DEF TypeInv
    <3>2. \A d \in Callers : pc[d] = "reading" => local[d] <= conn'
      BY <2>2 DEF FrameInv, TypeInv
    <3> QED BY <3>1, <3>2, <1>1 DEF FrameInv
  <2> QED BY <2>1, <2>2, <1>3
<1> QED BY <1>4, <1>5, <1>6, <1>7, <1>8

\* The hook of a client that was closed may take ds.mu too.
LEMMA HookBeginIInv ==
    ASSUME IInv, NEW n \in Sessions, HookBegin(n)
    PROVE  IInv'
<1> USE DEF session, calls, counters, IInv
<1>1. UNCHANGED <<server, tools, caps, cmd, client, frame, running, pumping, closed, stale, conn,
                  handshake, pc, local, made>>
  BY DEF HookBegin
<1>2. loop[n] = "hook" /\ mu = NoOne
  BY DEF HookBegin
<1>3. \/ loop' = [loop EXCEPT ![n] = "clear"] /\ mu' = mu
      \/ loop' = [loop EXCEPT ![n] = "inHook"] /\ mu' = n
  BY DEF HookBegin
<1>4. TypeInv'
  BY <1>1, <1>3 DEF TypeInv, Phases, Inside
<1>5. MutexInv'
  <2>1. \A c \in Callers : pc[c] \notin Locked /\ mu' # c
    BY <1>2, <1>3 DEF MutexInv
  <2>2. \A m \in Sessions : loop[m] \notin Inside
    BY <1>2 DEF MutexInv
  <2>3. \A m \in Sessions : loop'[m] \in Inside <=> mu' = m
    BY <1>2, <1>3, <2>2 DEF TypeInv, Inside
  <2> QED BY <2>1, <2>3, <1>1 DEF MutexInv
<1>6. StartInv' /\ ForceInv' /\ ToolsFit' /\ FrameInv'
  BY <1>1 DEF StartInv, ForceInv, ToolsFit, FrameInv
<1>7. LifeInv'
  <2>1. OneAdapter' /\ OneClient'
    BY <1>1 DEF LifeInv, OneAdapter, OneClient
  <2>2. \A m \in Sessions : loop'[m] # "none" => loop[m] # "none"
    BY <1>2, <1>3 DEF TypeInv
  <2> QED BY <2>1, <2>2, <1>1 DEF LifeInv
<1> QED BY <1>4, <1>5, <1>6, <1>7

\* While a hook has ds.mu no context is read.
LEMMA HookEndIInv ==
    ASSUME IInv, NEW n \in Sessions, HookEnd(n) \/ HookTold(n)
    PROVE  IInv'
<1> USE DEF calls, counters, IInv
<1>1. UNCHANGED <<server, tools, cmd, client, running, pumping, closed, stale, conn,
                  pc, local, made>>
  BY DEF HookEnd, HookTold
<1>2. loop[n] \in Inside /\ mu' = NoOne /\ loop' = [loop EXCEPT ![n] = "clear"]
      /\ caps' \subseteq Gated
  BY DEF HookEnd, HookTold, Inside
<1>3. \/ UNCHANGED <<frame, handshake>>
      \/ frame' = 0 /\ handshake' = conn
  BY DEF HookEnd, HookTold, HookFrame
<1>4. mu = n /\ \A c \in Callers : pc[c] \notin Locked
  BY <1>2 DEF MutexInv
<1>5. TypeInv'
  BY <1>1, <1>2, <1>3 DEF TypeInv, Phases
<1>6. MutexInv'
  <2>1. \A m \in Sessions : loop'[m] \notin Inside
    BY <1>2, <1>4 DEF MutexInv, TypeInv, Inside
  <2> QED BY <2>1, <1>1, <1>2, <1>4 DEF MutexInv
<1>7. StartInv' /\ ForceInv'
  BY <1>1, <1>4 DEF StartInv, ForceInv, Locked
<1>8. LifeInv'
  <2>1. OneAdapter' /\ OneClient'
    BY <1>1 DEF LifeInv, OneAdapter, OneClient
  <2> QED BY <2>1, <1>1, <1>2 DEF LifeInv, TypeInv, Inside
<1>9. ToolsFit'
  <2>1. \A c \in Callers : pc[c] \notin Registering
    BY <1>4 DEF Registering, Locked
  <2>2. "session" \in tools /\ server = "up" => conn # 0
    BY <2>1 DEF ToolsFit, TypeInv
  <2> QED BY <2>1, <2>2, <1>1, <1>3 DEF ToolsFit
<1>10. FrameInv'
  BY <1>1, <1>3, <1>4 DEF FrameInv, Locked
<1> QED BY <1>5, <1>6, <1>7, <1>8, <1>9, <1>10

-----------------------------------------------------------------------------
(* The end of the server, and the specification.                           *)

LEMMA ServerEndsIInv ==
    ASSUME IInv, ServerEnds
    PROVE  IInv'
<1> USE DEF calls, counters, IInv
<1>1. server = "up" /\ server' = "ended" /\ \A c \in Callers : pc[c] = "idle"
  BY DEF ServerEnds
<1>2. /\ client' = 0 /\ cmd' = 0 /\ conn' = 0 /\ handshake' = 0 /\ caps' = {} /\ frame' = 0
      /\ running' = running \ {cmd} /\ closed' = closed \cup ({client} \ {0})
  BY DEF ServerEnds, CleanedUp, Killed, Cancelled
<1>3. UNCHANGED <<mu, pumping, stale, loop, pc, local, made>>
  BY DEF ServerEnds
<1>4. TypeInv'
  BY <1>1, <1>2, <1>3 DEF TypeInv
<1>5. MutexInv' /\ StartInv' /\ ForceInv' /\ ToolsFit' /\ FrameInv'
  BY <1>1, <1>2, <1>3 DEF MutexInv, StartInv, ForceInv, ToolsFit, FrameInv
<1>6. LifeInv'
  <2>1. OneAdapter' /\ OneClient'
    BY <1>1, <1>2 DEF LifeInv, OneAdapter, OneClient
  <2>2. \A n \in Sessions : loop[n] # "none" => n \in closed'
    BY <1>2 DEF LifeInv
  <2> QED BY <2>1, <2>2, <1>1, <1>2, <1>3 DEF LifeInv
<1> QED BY <1>4, <1>5, <1>6

\* Nothing but server, or nothing at all, changes.
LEMMA StillIInv ==
    ASSUME IInv, server' \in {server, "fatal"},
           UNCHANGED <<mu, session, running, clients, calls, counters>>
    PROVE  IInv'
<1> USE DEF session, clients, calls, counters, IInv
<1>1. TypeInv' /\ MutexInv' /\ StartInv' /\ ForceInv' /\ FrameInv'
  BY DEF TypeInv, MutexInv, StartInv, ForceInv, FrameInv
<1>2. LifeInv' /\ ToolsFit'
  BY DEF LifeInv, ToolsFit, OneAdapter, OneClient
<1> QED BY <1>1, <1>2

LEMMA NextIInv == IInv /\ [Next]_vars => IInv'
<1> SUFFICES ASSUME IInv, [Next]_vars PROVE IInv'
  OBVIOUS
<1>1. ASSUME NEW c \in Callers,
             NEW tool \in {"debug", "stop", "context", "wait", "reconnect"}, Call(c, tool)
      PROVE  IInv'
  BY <1>1, CallIInv
<1>2. ASSUME NEW c \in Callers, Handler(c) PROVE IInv'
  BY <1>2, HandlerIInv
<1>3. ASSUME NEW n \in Sessions,
             Goroutines(n) \/ Lose(n) \/ ProcExits(n) \/ HookDeaf(n) \/ HookTold(n)
      PROVE  IInv'
  BY <1>3, QuietStep, RedialIInv, HookBeginIInv, HookEndIInv DEF Goroutines
<1>4. CASE ServerEnds
  BY <1>4, ServerEndsIInv
<1>5. CASE ServerFatal
  BY <1>5, StillIInv DEF ServerFatal
<1>6. CASE UNCHANGED vars
  BY <1>6, StillIInv DEF vars
<1> QED BY <1>1, <1>2, <1>3, <1>4, <1>5, <1>6 DEF Next

\* The invariant of every behaviour.
LEMMA SpecIInv == Spec => []IInv
  BY InitIInv, NextIInv, PTL DEF Spec

\* However calls overlap and connections are lost, an adapter process that
\* runs is the one the next cleanup will kill.
THEOREM AdapterIsOwned == Spec => []OneAdapter
<1>1. IInv => OneAdapter
  BY DEF IInv, LifeInv
<1> QED BY <1>1, SpecIInv, PTL

\* Only one client has a readLoop, and a tool outside cleanup finds it open.
THEOREM ClientIsOwned == Spec => []OneClient
<1>1. IInv => OneClient
  BY DEF IInv, LifeInv
<1> QED BY <1>1, SpecIInv, PTL

\* Either debug or the tools of an initialised session are registered, so
\* that some tool can always end what there is.
THEOREM ToolsFitSession == Spec => []ToolsFit
<1>1. IInv => ToolsFit
  BY DEF IInv
<1> QED BY <1>1, SpecIInv, PTL

\* The frame evaluate uses is of the connection in use.
THEOREM FrameOfConnection == Spec => []FrameIsCurrent
<1>1. IInv => FrameIsCurrent
  BY DEF IInv, TypeInv, LifeInv, FrameInv, FrameIsCurrent
<1> QED BY <1>1, SpecIInv, PTL

\* A hook that outlives its client was of a client cleanup had closed.
THEOREM HookOfOwnClient == Spec => []HookIsOwn
<1>1. IInv => HookIsOwn
  <2> SUFFICES ASSUME IInv, NEW n \in Sessions, mu = n PROVE client = n \/ n \in closed
    BY DEF HookIsOwn
  <2>1. loop[n] \in Inside
    BY DEF IInv, MutexInv
  <2> QED BY <2>1 DEF IInv, LifeInv, Inside
<1> QED BY <1>1, SpecIInv, PTL

-----------------------------------------------------------------------------
(* Types, with the bound on the connections of a client: each redial is    *)
(* preceded by a loss, or by a forced reconnect that has marked the client *)
(* stale.                                                                  *)

\* The forced reconnects that have not marked their client stale yet.
Forcing == {c \in Callers : pc[c] = "force"}
\* The redial that the present client has before it.
Owed == IF client \in stale /\ loop[client] = "idle" THEN 1 ELSE 0
\* Those it has behind it.
Redialled == IF conn = 0 THEN 0 ELSE conn - 1

CountInv == IsFiniteSet(Forcing) /\ Cardinality(Forcing) + Owed + Redialled <= losses

AllTools == {"debug", "session"} \cup Gated
Backends == {"none", "connect", "delve", "gdb"}

\* Only a client whose reconnectLoop was started is made stale.
SideInv ==
    /\ tools \subseteq AllTools /\ backend \in Backends /\ losses \in 0 .. MaxLosses
    /\ \A n \in stale : loop[n] # "none"
    /\ \A c \in Callers : pc[c] = "force" => loop[local[c]] # "none"
    /\ client # 0 => loop[client] # "none"

\* A step of call c that is nobody's concern here.
Calm(c) ==
    /\ UNCHANGED <<client, conn, stale, loop, losses>>
    /\ pc[c] # "force" /\ pc'[c] # "force"
    /\ \A d \in Callers \ {c} : pc'[d] = pc[d] /\ local'[d] = local[d]
    /\ tools' \subseteq AllTools /\ backend' \in Backends

LEMMA CalmSteps ==
    ASSUME IInv, SideInv, NEW c \in Callers,
           \/ \E tool \in {"debug", "stop", "context", "wait", "reconnect"} : Call(c, tool)
           \/ StopIdle(c) \/ Stop(c) \/ Debug(c) \/ CloseClient(c)
           \/ DebugRefused(c) \/ SpawnFails(c) \/ Spawn(c) \/ DialFails(c)
           \/ Initialize(c) \/ Launch(c) \/ DebugFails(c)
           \/ RemoveDebug(c) \/ AddSession(c) \/ AddGated(c) \/ RemoveSession(c) \/ AddDebug(c)
           \/ ContextRead(c) \/ ToolRefused(c) \/ Context(c)
           \/ Wait(c) \/ WaitDone(c) \/ Pause(c) \/ PauseAnswered(c)
           \/ PauseSubscribe(c) \/ PauseDone(c) \/ Reconnect(c) \/ Poll(c)
    PROVE  Calm(c)
<1>0. pc \in [Callers -> Places] /\ local \in [Callers -> Nat] /\ caps \subseteq Gated
  BY DEF IInv, TypeInv
<1> USE DEF session, clients, calls, counters, SideInv, Calm, At, Goes, Keeps, Ends, Returns, Locks
<1>1. ASSUME NEW tool \in {"debug", "stop", "context", "wait", "reconnect"}, Call(c, tool)
      PROVE  Calm(c)
  BY <1>0, <1>1 DEF Call
<1>2. CASE StopIdle(c) \/ Stop(c) \/ Debug(c)
  BY <1>0, <1>2 DEF StopIdle, Stop, Debug
<1>3. CASE CloseClient(c)
  BY <1>0, <1>3 DEF CloseClient, AfterClose
<1>4. CASE DebugRefused(c) \/ SpawnFails(c) \/ Spawn(c) \/ DialFails(c)
  BY <1>0, <1>4 DEF DebugRefused, SpawnFails, Spawn, DialFails, Choices, Backends
<1>5. CASE Initialize(c) \/ Launch(c) \/ DebugFails(c)
  BY <1>0, <1>5 DEF Initialize, Launch, DebugFails
<1>6. CASE ContextRead(c) \/ ToolRefused(c) \/ Context(c)
  BY <1>0, <1>6 DEF ContextRead, ToolRefused, Context, ReadsContext
<1>7. CASE Wait(c) \/ WaitDone(c) \/ Pause(c)
  BY <1>0, <1>7 DEF Wait, WaitDone, Pause
<1>8. CASE PauseAnswered(c) \/ PauseSubscribe(c) \/ PauseDone(c)
  BY <1>0, <1>8 DEF PauseAnswered, PauseSubscribe, PauseDone
<1>9. CASE Reconnect(c) \/ Poll(c)
  BY <1>0, <1>9 DEF Reconnect, Poll
<1>11. CASE RemoveDebug(c) \/ AddSession(c) \/ AddGated(c)
  BY <1>0, <1>11 DEF RemoveDebug, AddSession, AddGated, AllTools
<1>12. CASE RemoveSession(c)
  BY <1>0, <1>12 DEF RemoveSession, AfterRemove, SessionRemoved
<1>13. CASE AddDebug(c)
  BY <1>0, <1>13 DEF AddDebug, DebugAdded, AllTools
<1>10. (\E tool \in {"debug", "stop", "context", "wait", "reconnect"} : Call(c, tool)) => Calm(c)
  BY <1>1
<1> QED BY <1>2, <1>3, <1>4, <1>5, <1>6, <1>7, <1>8, <1>9, <1>10, <1>11, <1>12, <1>13

\* What the counts come to when the numbers behind them change.
LEMMA Numbered ==
    ASSUME IInv, SideInv, CountInv
    PROVE  /\ Cardinality(Forcing) \in Nat /\ Owed \in {0, 1} /\ Redialled \in Nat
           /\ losses \in Nat /\ conn \in Nat
<1>1. conn \in Nat /\ losses \in Nat
  BY DEF IInv, TypeInv, SideInv
<1>2. Cardinality(Forcing) \in Nat
  BY FS_CardinalityType DEF CountInv
<1> QED BY <1>1, <1>2 DEF Owed, Redialled

LEMMA CalmKeeps ==
    ASSUME IInv, SideInv, CountInv, NEW c \in Callers, Calm(c)
    PROVE  SideInv' /\ CountInv'
<1>1. Forcing' = Forcing
  BY DEF Calm, Forcing
<1>2. Owed' = Owed /\ Redialled' = Redialled
  BY DEF Calm, Owed, Redialled
<1>3. CountInv'
  BY <1>1, <1>2 DEF CountInv, Calm
<1>4. SideInv'
  BY DEF SideInv, Calm
<1> QED BY <1>3, <1>4

LEMMA ForcedKeeps ==
    ASSUME IInv, SideInv, CountInv, NEW c \in Callers, ReconnectForced(c)
    PROVE  SideInv' /\ CountInv'
<1>0. pc \in [Callers -> Places] /\ local \in [Callers -> Nat]
  BY DEF IInv, TypeInv
<1>1. UNCHANGED <<tools, backend, client, conn, stale, loop>> /\ pc[c] = "reconnect" /\ client # 0
  BY DEF ReconnectForced, session, clients, At
<1>2. CASE backend # "connect"
  <2>1. Calm(c)
    BY <1>0, <1>1, <1>2 DEF ReconnectForced, Calm, Goes, SideInv
  <2> QED BY <2>1, CalmKeeps
<1>3. CASE backend = "connect"
  <2>1. /\ losses < MaxLosses /\ losses' = losses + 1
        /\ pc' = [pc EXCEPT ![c] = "force"] /\ local' = [local EXCEPT ![c] = client]
    BY <1>3 DEF ReconnectForced, Goes, Keeps
  <2>2. SideInv'
    BY <1>0, <1>1, <2>1 DEF SideInv
  <2>3. Forcing' = Forcing \cup {c} /\ c \notin Forcing
    BY <1>0, <1>1, <2>1 DEF Forcing
  <2>4. IsFiniteSet(Forcing') /\ Cardinality(Forcing') = Cardinality(Forcing) + 1
    BY <2>3, FS_AddElement DEF CountInv
  <2>5. Owed' = Owed /\ Redialled' = Redialled
    BY <1>1 DEF Owed, Redialled
  <2>6. Cardinality(Forcing') + Owed' + Redialled' <= losses'
    BY <2>1, <2>4, <2>5, Numbered DEF CountInv
  <2>7. CountInv'
    BY <2>4, <2>6 DEF CountInv
  <2> QED BY <2>2, <2>7
<1> QED BY <1>2, <1>3

LEMMA MarkKeeps ==
    ASSUME IInv, SideInv, CountInv, NEW c \in Callers, MarkStale(c)
    PROVE  SideInv' /\ CountInv'
<1>0. pc \in [Callers -> Places] /\ local \in [Callers -> Nat]
  BY DEF IInv, TypeInv
<1>1. /\ UNCHANGED <<tools, backend, client, conn, loop, losses>> /\ pc[c] = "force"
      /\ stale' = stale \cup {local[c]}
      /\ pc' = [pc EXCEPT ![c] = "poll"] /\ local' = [local EXCEPT ![c] = 0]
  BY DEF MarkStale, session, clients, counters, At, Goes, Keeps
<1>2. SideInv'
  BY <1>0, <1>1 DEF SideInv
<1>3. Forcing' = Forcing \ {c} /\ c \in Forcing
  BY <1>0, <1>1 DEF Forcing
<1>4. IsFiniteSet(Forcing') /\ Cardinality(Forcing') = Cardinality(Forcing) - 1
  BY <1>3, FS_RemoveElement DEF CountInv
<1>5. Owed' \in {0, 1} /\ Redialled' = Redialled
  BY <1>1 DEF Owed, Redialled
<1>6. Cardinality(Forcing') + Owed' + Redialled' <= losses'
  BY <1>1, <1>4, <1>5, Numbered DEF CountInv
<1>7. CountInv'
  BY <1>4, <1>6 DEF CountInv
<1> QED BY <1>2, <1>7

\* The steps that change the client of the session.
LEMMA ClientKeeps ==
    ASSUME IInv, IInv', SideInv, CountInv,
           ServerEnds \/ \E c \in Callers : Cleanup(c) \/ Dial(c)
    PROVE  SideInv' /\ CountInv'
<1>0. pc \in [Callers -> Places] /\ local \in [Callers -> Nat] /\ stale \subseteq 1 .. made
      /\ loop \in [Sessions -> Phases]
  BY DEF IInv, TypeInv
<1>1. CASE ServerEnds
  <2>1. /\ UNCHANGED <<backend, stale, loop, pc, local, losses>> /\ client' = 0 /\ conn' = 0
        /\ tools' = (tools \ {"session"}) \cup {"debug"}
    BY <1>1 DEF ServerEnds, CleanedUp, DebugAdded, SessionRemoved, calls, counters
  <2>2. SideInv'
    BY <2>1 DEF SideInv, AllTools
  <2>3. Forcing' = Forcing /\ Owed' = 0 /\ Redialled' = 0
    BY <1>0, <2>1 DEF Forcing, Owed, Redialled
  <2>4. Cardinality(Forcing) + 0 + 0 <= losses
    BY Numbered DEF CountInv
  <2> QED BY <2>1, <2>2, <2>3, <2>4 DEF CountInv
<1>2. ASSUME NEW c \in Callers, Cleanup(c)
      PROVE  SideInv' /\ CountInv'
  <2>1. /\ UNCHANGED <<tools, backend, stale, loop, losses>> /\ client' = 0 /\ conn' = 0
    BY <1>2 DEF Cleanup, CleanedUp, counters
  <2>2. /\ pc[c] # "force" /\ pc'[c] # "force"
        /\ \A d \in Callers \ {c} : pc'[d] = pc[d] /\ local'[d] = local[d]
    BY <1>0, <1>2 DEF Cleanup, Goes, AfterClean
  <2>3. SideInv'
    BY <2>1, <2>2 DEF SideInv, AllTools
  <2>4. Forcing' = Forcing /\ Owed' = 0 /\ Redialled' = 0
    BY <1>0, <2>1, <2>2 DEF Forcing, Owed, Redialled
  <2>5. Cardinality(Forcing) + 0 + 0 <= losses
    BY Numbered DEF CountInv
  <2> QED BY <2>1, <2>3, <2>4, <2>5 DEF CountInv
<1>3. ASSUME NEW c \in Callers, Dial(c)
      PROVE  SideInv' /\ CountInv'
  <2>1. /\ UNCHANGED <<tools, backend, stale, losses, local>> /\ client' = made /\ conn' = 1
        /\ loop' = [loop EXCEPT ![made] = "idle"] /\ pc[c] = "dial"
        /\ pc' = [pc EXCEPT ![c] = "initialize"]
    BY <1>3 DEF Dial, counters, At, Goes
  <2>2. made \in Sessions /\ made \notin closed /\ client = 0
    BY <2>1 DEF IInv, StartInv, TypeInv
  <2>3. loop[made] = "none"
    BY <2>2 DEF IInv, LifeInv
  <2>4. made \notin stale
    BY <2>3 DEF SideInv
  <2>5. \A n \in Sessions : loop[n] # "none" => loop'[n] # "none"
    BY <1>0, <2>1, <2>2
  <2>6. SideInv'
    <3>1. \A n \in stale' : loop'[n] # "none"
      BY <1>0, <2>1, <2>5 DEF SideInv, IInv, TypeInv
    <3>2. ASSUME NEW d \in Callers, pc'[d] = "force"
          PROVE  loop'[local'[d]] # "none"
      <4>1. pc[d] = "force"
        BY <1>0, <2>1, <3>2
      <4>2. local[d] \in Sessions
        BY <4>1 DEF IInv, ForceInv, TypeInv
      <4> QED BY <2>1, <2>5, <4>1, <4>2 DEF SideInv
    <3>3. loop'[client'] # "none"
      BY <1>0, <2>1, <2>2
    <3> QED BY <2>1, <3>1, <3>2, <3>3 DEF SideInv
  <2>7. Forcing' = Forcing /\ Owed' = 0 /\ Redialled' = 0
    BY <1>0, <2>1, <2>4 DEF Forcing, Owed, Redialled
  <2>8. Cardinality(Forcing) + 0 + 0 <= losses
    BY Numbered DEF CountInv
  <2> QED BY <2>1, <2>6, <2>7, <2>8 DEF CountInv
<1> QED BY <1>1, <1>2, <1>3

\* The goroutines of a client.
LEMMA GoroutinesKeep ==
    ASSUME IInv, SideInv, CountInv, NEW n \in Sessions,
           Goroutines(n) \/ Lose(n) \/ ProcExits(n) \/ HookDeaf(n) \/ HookTold(n)
    PROVE  SideInv' /\ CountInv'
<1>0. loop \in [Sessions -> Phases] /\ stale \subseteq Sessions
      /\ (client # 0 => client \in Sessions) /\ 0 \notin stale
      /\ \A c \in Callers : pc[c] = "force" => local[c] \in Sessions
  BY DEF IInv, TypeInv, ForceInv
<1> USE DEF session, clients, calls, counters
<1>1. Forcing' = Forcing /\ UNCHANGED <<tools, backend, client, pc, local>>
  BY DEF Goroutines, Lose, ProcExits, PumpExits, LoopEnds, Redial, HookBegin, HookEnd, HookDeaf,
         HookTold, Clear, Forcing
<1>2. CASE Lose(n)
  <2>1. n \in pumping /\ losses < MaxLosses /\ losses' = losses + 1 /\ stale' = stale \cup {n}
        /\ UNCHANGED <<loop, conn>> /\ n \notin closed /\ server = "up"
    BY <1>2 DEF Lose, Up
  <2>2. loop[n] # "none"
    <3>1. n = client /\ client # 0
      BY <2>1 DEF IInv, LifeInv, OneClient
    <3> QED BY <3>1 DEF SideInv
  <2>3. SideInv'
    BY <1>1, <2>1, <2>2 DEF SideInv
  <2>4. Owed' <= Owed + 1 /\ Owed' \in {0, 1} /\ Redialled' = Redialled
    BY <1>1, <2>1 DEF Owed, Redialled
  <2>5. Cardinality(Forcing) + Owed' + Redialled' <= losses'
    BY <2>1, <2>4, Numbered DEF CountInv
  <2> QED BY <1>1, <2>3, <2>5 DEF CountInv
<1>3. CASE ProcExits(n) \/ PumpExits(n)
  <2>1. UNCHANGED <<loop, conn, stale, losses>>
    BY <1>3 DEF ProcExits, PumpExits
  <2>2. Owed' = Owed /\ Redialled' = Redialled
    BY <1>1, <2>1 DEF Owed, Redialled
  <2> QED BY <1>1, <2>1, <2>2 DEF CountInv, SideInv
<1>4. CASE LoopEnds(n) \/ HookBegin(n) \/ HookEnd(n) \/ HookDeaf(n) \/ HookTold(n)
  <2>1. PICK to \in Phases \ {"none", "idle"} : loop' = [loop EXCEPT ![n] = to]
    BY <1>4 DEF LoopEnds, HookBegin, HookEnd, HookDeaf, HookTold, Phases, Inside
  <2>2. UNCHANGED <<conn, stale, losses>> /\ loop[n] # "none"
    BY <1>4 DEF LoopEnds, HookBegin, HookEnd, HookDeaf, HookTold
  <2>3. \A m \in Sessions : loop[m] # "none" => loop'[m] # "none"
    BY <1>0, <2>1
  <2>4. SideInv'
    BY <1>0, <1>1, <2>2, <2>3 DEF SideInv
  <2>5. Owed' <= Owed /\ Owed' \in {0, 1} /\ Redialled' = Redialled
    BY <1>0, <1>1, <2>1, <2>2 DEF Owed, Redialled
  <2>6. Cardinality(Forcing) + Owed' + Redialled' <= losses
    BY <2>5, Numbered DEF CountInv
  <2> QED BY <1>1, <2>2, <2>4, <2>6 DEF CountInv
<1>5. CASE Redial(n)
  <2>1. /\ UNCHANGED <<stale, losses>> /\ loop[n] = "idle" /\ n \in stale
        /\ conn' = IF n = client THEN conn + 1 ELSE conn
        /\ loop' = [loop EXCEPT ![n] = "hook"]
    BY <1>5 DEF Redial
  <2>2. \A m \in Sessions : loop[m] # "none" => loop'[m] # "none"
    BY <1>0, <2>1
  <2>3. SideInv'
    BY <1>0, <1>1, <2>1, <2>2 DEF SideInv
  <2>4. CASE n = client
    <3>1. Owed = 1 /\ Owed' = 0
      BY <1>0, <1>1, <2>1, <2>4 DEF Owed
    <3>2. Redialled' = Redialled + 1
      <4>1. conn # 0
        BY <1>0, <2>1, <2>4 DEF IInv, LifeInv
      <4> QED BY <2>1, <2>4, <4>1, Numbered DEF Redialled
    <3>3. Cardinality(Forcing) + Owed' + Redialled' <= losses
      BY <3>1, <3>2, Numbered DEF CountInv
    <3> QED BY <1>1, <2>1, <2>3, <3>3 DEF CountInv
  <2>5. CASE n # client
    <3>1. Owed' = Owed /\ Redialled' = Redialled
      BY <1>0, <1>1, <2>1, <2>5 DEF Owed, Redialled
    <3> QED BY <1>1, <2>1, <2>3, <3>1 DEF CountInv
  <2> QED BY <2>4, <2>5
<1>6. CASE Clear(n)
  <2>1. /\ UNCHANGED <<conn, losses>> /\ stale' = stale \ {n}
        /\ loop' = [loop EXCEPT ![n] = "idle"] /\ loop[n] = "clear"
    BY <1>6 DEF Clear
  <2>2. \A m \in Sessions : loop[m] # "none" => loop'[m] # "none"
    BY <1>0, <2>1
  <2>3. SideInv'
    BY <1>0, <1>1, <2>1, <2>2 DEF SideInv
  <2>4. Owed' <= Owed /\ Owed' \in {0, 1} /\ Redialled' = Redialled
    BY <1>0, <1>1, <2>1 DEF Owed, Redialled
  <2>5. Cardinality(Forcing) + Owed' + Redialled' <= losses
    BY <2>4, Numbered DEF CountInv
  <2> QED BY <1>1, <2>1, <2>3, <2>5 DEF CountInv
<1> QED BY <1>2, <1>3, <1>4, <1>5, <1>6 DEF Goroutines

LEMMA CountStep == IInv /\ IInv' /\ SideInv /\ CountInv /\ [Next]_vars => SideInv' /\ CountInv'
<1> SUFFICES ASSUME IInv, IInv', SideInv, CountInv, [Next]_vars
             PROVE  SideInv' /\ CountInv'
  OBVIOUS
<1>1. ASSUME NEW c \in Callers,
             \/ \E tool \in {"debug", "stop", "context", "wait", "reconnect"} : Call(c, tool)
             \/ Handler(c)
      PROVE  SideInv' /\ CountInv'
  <2>1. CASE ReconnectForced(c)
    BY <2>1, ForcedKeeps
  <2>2. CASE MarkStale(c)
    BY <2>2, MarkKeeps
  <2>3. CASE Cleanup(c) \/ Dial(c)
    BY <2>3, ClientKeeps
  <2>4. CASE ~ReconnectForced(c) /\ ~MarkStale(c) /\ ~Cleanup(c) /\ ~Dial(c)
    <3>1. Calm(c)
      BY <1>1, <2>4, CalmSteps DEF Handler
    <3> QED BY <3>1, CalmKeeps
  <2> QED BY <2>1, <2>2, <2>3, <2>4
<1>2. ASSUME NEW n \in Sessions,
             Goroutines(n) \/ Lose(n) \/ ProcExits(n) \/ HookDeaf(n) \/ HookTold(n)
      PROVE  SideInv' /\ CountInv'
  BY <1>2, GoroutinesKeep
<1>3. CASE ServerEnds
  BY <1>3, ClientKeeps
<1>4. CASE ServerFatal \/ UNCHANGED vars
  <2>1. UNCHANGED <<session, clients, calls, counters>>
    BY <1>4 DEF ServerFatal, vars
  <2>2. Forcing' = Forcing /\ Owed' = Owed /\ Redialled' = Redialled
    BY <2>1 DEF session, clients, calls, Forcing, Owed, Redialled
  <2> QED BY <2>1, <2>2 DEF session, clients, calls, counters, SideInv, CountInv
<1> QED BY <1>1, <1>2, <1>3, <1>4 DEF Next

\* The session is well typed, ds.mu is held by the call or the hook that is
\* inside, and a client has no more connections than losses and forced
\* reconnects account for.
THEOREM Typing == Spec => []TypeOK
<1>1. Init => SideInv /\ CountInv
  <2> SUFFICES ASSUME Init
               PROVE  SideInv /\ CountInv
    OBVIOUS
  <2>1. SideInv
    BY SessionSetups DEF Init, SideInv, AllTools, Backends
  <2>2. Forcing = {} /\ Owed = 0 /\ Redialled = 0 /\ losses = 0
    BY DEF Init, Forcing, Owed, Redialled
  <2>3. IsFiniteSet({}) /\ Cardinality({}) = 0
    BY FS_EmptySet
  <2> QED BY <2>1, <2>2, <2>3 DEF CountInv
<1>2. IInv /\ SideInv /\ CountInv => TypeOK
  <2> SUFFICES ASSUME IInv, SideInv, CountInv
               PROVE  TypeOK
    OBVIOUS
  <2>1. conn <= 1 + losses
    <3>1. Redialled <= losses
      BY Numbered DEF CountInv
    <3> QED BY <3>1, Numbered DEF Redialled
  <2>2. \A c \in Callers : pc[c] \in Locked \cup Unlocked /\ local[c] \in Nat
    BY DEF IInv, TypeInv, Places
  <2>3. UNION {running, pumping, closed, stale} \subseteq 1 .. made
    BY DEF IInv, TypeInv
  <2> QED BY <2>1, <2>2, <2>3 DEF IInv, TypeInv, MutexInv, SideInv, TypeOK, AllTools, Backends,
                                  Phases
<1>3. Spec => [](SideInv /\ CountInv)
  BY <1>1, CountStep, SpecIInv, PTL DEF Spec
<1> QED BY <1>2, <1>3, SpecIInv, PTL
=============================================================================
