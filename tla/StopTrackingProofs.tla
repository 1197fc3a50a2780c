------------------------- MODULE StopTrackingProofs -------------------------
(***************************************************************************)
(* That no stop is missed, and that to a client that takes turns none is   *)
(* reported twice or late and frames belong to the stop shown: for any     *)
(* number of callers, stops and readings of the clock.                     *)
(***************************************************************************)
EXTENDS StopTracking, TLAPS

Places == Starting \cup {"idle", "passing", "stepping", "waiting", "received", "pausing"}
Progs == {"none", "running", "stopped", "ended", "core"}
Kinds == StopKinds \cup {"term"}
Notes == [kind : Kinds, stop : Nat]
Entries == [at : Nat, kind : Kinds, stop : Nat]

\* What is on its way, in whatever order.
OnWay == {sent[i] : i \in DOMAIN sent}

\* The debuggee and what it sent: no event of a stop to come.
SentOK ==
    /\ sent \in Seq(Notes) /\ \A e \in OnWay : e.stop <= stops
    /\ stops \in Nat /\ prog \in Progs /\ connected \in BOOLEAN

\* The ring: no event later than now or of a stop to come.
RingOK ==
    /\ events \in Seq(Entries) /\ returned \in Seq(Nat) /\ DOMAIN returned = DOMAIN events
    /\ \A i \in DOMAIN events : events[i].at \in 1 .. now /\ events[i].stop <= stops
    /\ now \in Nat

\* The calls, and the marks of what was consumed and shown.
CallsOK ==
    /\ lastStopAt \in Nat /\ lastStopAt <= now
    /\ {frame, seen} \subseteq 0 .. stops
    /\ missed \in [Causes -> Nat] /\ stray \subseteq Nat
    /\ mu \in Callers \cup {NoOne} /\ orderly \in BOOLEAN
    /\ pc \in [Callers -> Places]
    /\ since \in [Callers -> Nat] /\ got \in [Callers -> Nat]
    /\ \A c \in Callers : got[c] \in DOMAIN events \cup {0}

TypeInv == SentOK /\ RingOK /\ CallsOK

\* debug runs alone, before anything else; the event of a stop meanwhile is to
\* come or came too early.  debug and step keep ds.mu.
StartInv ==
    /\ prog = "none" =>
           /\ connected /\ sent = <<>> /\ events = <<>> /\ frame = 0
           /\ \A c \in Callers : pc[c] = "idle"
    /\ \A c \in Callers : pc[c] \in Starting =>
           /\ frame = 0 /\ connected
           /\ \A d \in Callers : d # c => pc[d] = "idle"
           /\ prog = "stopped" => missed["early"] = stops \/ Coming(stops)
    /\ \A c \in Callers :
           /\ pc[c] \in Starting \cup {"passing", "stepping"} => mu = c
           /\ pc[c] \in {"entry", "entryOn", "passing"} => prog = "stopped"
           /\ pc[c] = "core" => prog = "core"

\* The debuggee that has ended stays so.
EndInv ==
    /\ \A i \in DOMAIN events : events[i].kind = "term" => prog = "ended"
    /\ \A e \in OnWay : e.kind = "term" => prog = "ended"

\* The present stop was shown, can be found, is one that may go unnoticed, or a
\* call is about to show it.
MissInv ==
    prog = "stopped" =>
        \/ seen = stops
        \/ Told(stops, lastStopAt) \/ Coming(stops)
        \/ \E k \in {"early", "lost", "unread"} : missed[k] = stops
        \/ ~Told(stops, 0) /\ (missed["pause"] = stops \/ \E c \in Callers : pc[c] = "pausing")
        \/ \E c \in Callers : pc[c] = "received"

\* The calls of a client in turns do not overlap, and its connection stands.
AloneInv ==
    orderly =>
        /\ connected
        /\ \A c, d \in Callers : pc[c] # "idle" /\ pc[d] # "idle" => c = d

\* Where a call waits for events since its time, or will.
Awaiting == Starting \cup {"passing", "stepping", "waiting", "pausing"}

\* What was returned lies before lastStopAt, and before what the call under
\* way looks for.
OnceInv ==
    orderly =>
        /\ \A i \in DOMAIN returned : returned[i] > 0 =>
               returned[i] = 1 /\ events[i].at < lastStopAt
        /\ \A c \in Callers :
               /\ pc[c] \in Awaiting =>
                      \A i \in DOMAIN returned : returned[i] > 0 => events[i].at < since[c]
               /\ pc[c] = "received" /\ got[c] # 0 => returned[got[c]] = 0

\* Of a stop other than the present one, and of this one once it is shown, the
\* event lies before lastStopAt, or the stop is stray, or the event comes when
\* it makes it so.
PastRing ==
    orderly => \A i \in DOMAIN events : events[i].kind # "term" =>
        \/ events[i].at < lastStopAt \/ events[i].stop \in stray
        \/ Stopped /\ events[i].stop = stops /\ seen # stops
PastWay ==
    orderly => \A e \in OnWay : e.kind # "term" =>
        \/ e.stop <= seen \/ e.stop \in stray
        \/ Stopped /\ e.stop = stops
LooksAhead ==
    orderly => \A c \in Callers :
        /\ pc[c] \in {"waiting", "pausing"} => since[c] >= lastStopAt
        /\ pc[c] = "received" /\ got[c] # 0 => events[got[c]].at >= lastStopAt

IInv ==
    /\ TypeInv /\ StartInv /\ EndInv /\ MissInv /\ AloneInv
    /\ OnceInv /\ PastRing /\ PastWay /\ LooksAhead /\ FrameIsShown

-----------------------------------------------------------------------------
(* The operators.                                                          *)

\* What the adapter says is on its way behind the rest.
LEMMA WayTells ==
    ASSUME SentOK, NEW kind \in Kinds, Tells(kind), stops' \in {stops, stops + 1}
    PROVE  /\ sent' \in Seq(Notes)
           /\ OnWay' = IF connected THEN OnWay \cup {[kind |-> kind, stop |-> stops']} ELSE OnWay
<1>. DEFINE e == [kind |-> kind, stop |-> stops']
<1>1. e \in Notes /\ sent \in Seq(Notes)
  BY DEF SentOK, Notes
<1>2. CASE ~connected
  BY <1>1, <1>2 DEF Tells, OnWay
<1>3. CASE connected
  <2>1. sent' = Append(sent, e)
    BY <1>3 DEF Tells
  <2>2. /\ sent' \in Seq(Notes) /\ DOMAIN sent' = DOMAIN sent \cup {Len(sent) + 1}
        /\ sent'[Len(sent) + 1] = e /\ \A i \in DOMAIN sent : sent'[i] = sent[i]
    BY <1>1, <2>1
  <2> HIDE DEF e
  <2>3. OnWay' = OnWay \cup {e}
    BY <2>2 DEF OnWay
  <2> QED BY <1>3, <2>2, <2>3 DEF e
<1> QED BY <1>2, <1>3

\* What arrives was on its way.
LEMMA WayArrives ==
    ASSUME SentOK, sent # <<>>, sent' = Tail(sent)
    PROVE  /\ sent' \in Seq(Notes) /\ Head(sent) \in Notes
           /\ OnWay = OnWay' \cup {Head(sent)}
<1>1. sent \in Seq(Notes) /\ Len(sent) \in Nat /\ Len(sent) > 0
  BY DEF SentOK
<1>2. /\ sent' \in Seq(Notes) /\ Head(sent) = sent[1] /\ 1 \in DOMAIN sent
      /\ \A i \in DOMAIN sent' : i + 1 \in DOMAIN sent /\ sent'[i] = sent[i + 1]
      /\ \A i \in DOMAIN sent : i # 1 => i - 1 \in DOMAIN sent' /\ sent'[i - 1] = sent[i]
  BY <1>1
<1>3. sent[1] \in Notes
  BY <1>1
<1>4. ASSUME NEW e \in OnWay PROVE e \in OnWay' \cup {sent[1]}
  <2>1. PICK i \in DOMAIN sent : e = sent[i]
    BY DEF OnWay
  <2>2. i # 1 => \E j \in DOMAIN sent' : e = sent'[j]
    BY <1>2, <2>1
  <2> QED BY <2>1, <2>2 DEF OnWay
<1>5. OnWay' \subseteq OnWay
  BY <1>2 DEF OnWay
<1>6. sent[1] \in OnWay
  BY <1>2 DEF OnWay
<1> QED BY <1>2, <1>3, <1>4, <1>5, <1>6

LEMMA WayComing ==
    \A n : Coming(n) <=> \E e \in OnWay : e.stop = n /\ e.kind \in StopKinds
  BY DEF Coming, OnWay

\* The ring grows by an event of now, not returned yet.
LEMMA RingGrows ==
    ASSUME TypeInv, Arrives
    PROVE  /\ events' \in Seq(Entries) /\ returned' \in Seq(Nat)
           /\ now' = now + 1 /\ now' \in Nat
           /\ DOMAIN events' = DOMAIN events \cup {Len(events) + 1}
           /\ DOMAIN returned' = DOMAIN events'
           /\ Len(events) + 1 \notin DOMAIN events
           /\ \A i \in DOMAIN events : events'[i] = events[i] /\ returned'[i] = returned[i]
           /\ events'[Len(events) + 1].at = now' /\ returned'[Len(events) + 1] = 0
           /\ events'[Len(events) + 1].kind = Head(sent).kind
           /\ events'[Len(events) + 1].stop = Head(sent).stop
<1>. DEFINE e == [at |-> now', kind |-> Head(sent).kind, stop |-> Head(sent).stop]
<1>1. Head(sent) \in Notes /\ now' = now + 1 /\ now' \in Nat
  BY WayArrives DEF Arrives, TypeInv, Tick, RingOK
<1>2. e \in Entries
  BY <1>1 DEF Entries, Notes
<1>3. events' = Append(events, e) /\ returned' = Append(returned, 0)
  BY DEF Arrives
<1>4. /\ events \in Seq(Entries) /\ returned \in Seq(Nat) /\ Len(events) = Len(returned)
  BY DEF TypeInv, RingOK
<1>5. e.at = now' /\ e.kind = Head(sent).kind /\ e.stop = Head(sent).stop
  OBVIOUS
<1> HIDE DEF e
<1>6. /\ events' \in Seq(Entries) /\ DOMAIN events' = DOMAIN events \cup {Len(events) + 1}
      /\ events'[Len(events) + 1] = e /\ \A i \in DOMAIN events : events'[i] = events[i]
      /\ Len(events) + 1 \notin DOMAIN events
  BY <1>2, <1>3, <1>4
<1>7. /\ returned' \in Seq(Nat) /\ DOMAIN returned' = DOMAIN returned \cup {Len(returned) + 1}
      /\ returned'[Len(returned) + 1] = 0
      /\ \A i \in DOMAIN returned : returned'[i] = returned[i]
  BY <1>3, <1>4
<1>8. DOMAIN returned = DOMAIN events
  BY DEF TypeInv, RingOK
<1> QED BY <1>1, <1>4, <1>5, <1>6, <1>7, <1>8

LEMMA Counts ==
    ASSUME TypeInv, NEW i \in DOMAIN events \cup {0}, returned' = Returned(i)
    PROVE  /\ returned' \in Seq(Nat) /\ DOMAIN returned' = DOMAIN returned
           /\ \A j \in DOMAIN returned :
                  returned'[j] = IF j = i THEN returned[j] + 1 ELSE returned[j]
  BY DEF TypeInv, RingOK, Returned

\* What a subscription yields is an event of its kinds since its time.
LEMMA Yields ==
    ASSUME NEW kinds, NEW t, NEW i \in First(kinds, t)
    PROVE  i \in DOMAIN events /\ events[i].kind \in kinds /\ events[i].at >= t
  BY DEF First, Pending

LEMMA Ranges ==
    ASSUME TypeInv
    PROVE  /\ now \in Nat /\ lastStopAt \in Nat /\ lastStopAt <= now
           /\ \A i \in DOMAIN events : events[i].at \in Nat /\ events[i].at <= now
           /\ DOMAIN returned = DOMAIN events
           /\ \A i \in DOMAIN returned : returned[i] \in Nat
           /\ \A c \in Callers : since[c] \in Nat
<1>1. ASSUME NEW i \in DOMAIN events PROVE events[i].at \in Nat /\ events[i].at <= now
  BY DEF TypeInv, RingOK, Entries
<1>2. ASSUME NEW i \in DOMAIN returned PROVE returned[i] \in Nat
  BY DEF TypeInv, RingOK
<1> QED BY <1>1, <1>2 DEF TypeInv, RingOK, CallsOK

-----------------------------------------------------------------------------
(* Types.                                                                  *)

\* What a step may do to the debuggee, to what is on its way and to the ring.
Moves ==
    /\ now' \in {now, now + 1} /\ stops' \in {stops, stops + 1}
    /\ prog' \in Progs /\ connected' \in BOOLEAN
    /\ \/ UNCHANGED sent \/ sent' = <<>> \/ Arrives
       \/ \E kind \in Kinds : Tells(kind)
    /\ \/ UNCHANGED ring \/ Arrives
       \/ UNCHANGED events /\ \E i \in DOMAIN events \cup {0} : returned' = Returned(i)

LEMMA SentMoves ==
    ASSUME TypeInv, Moves
    PROVE  SentOK' /\ stops \in Nat /\ stops' \in Nat /\ stops <= stops'
<1>1. SentOK
  BY DEF TypeInv
<1>2. stops \in Nat /\ stops' \in Nat /\ stops <= stops'
  BY <1>1 DEF Moves, SentOK
<1>3. sent' \in Seq(Notes) /\ \A e \in OnWay' : e \in OnWay \/ e.stop = stops'
  <2>1. CASE UNCHANGED sent
    BY <1>1, <2>1 DEF SentOK, OnWay
  <2>4. CASE sent' = <<>>
    <3>1. DOMAIN sent' = {} /\ sent' \in Seq(Notes)
      BY <2>4
    <3> QED BY <3>1 DEF OnWay
  <2>2. CASE Arrives
    BY <1>1, <2>2, WayArrives DEF Arrives
  <2>3. ASSUME NEW kind \in Kinds, Tells(kind)
        PROVE  sent' \in Seq(Notes) /\ \A e \in OnWay' : e \in OnWay \/ e.stop = stops'
    BY <1>1, <2>3, WayTells DEF Moves
  <2> QED BY <2>1, <2>2, <2>3, <2>4 DEF Moves
<1>4. ASSUME NEW e \in OnWay' PROVE e.stop <= stops'
  <2>1. CASE e \in OnWay
    <3>1. e \in Notes /\ e.stop <= stops
      BY <1>1, <2>1 DEF SentOK, OnWay
    <3>2. e.stop \in Nat
      BY <3>1 DEF Notes
    <3> QED BY <1>2, <3>1, <3>2
  <2> QED BY <1>2, <1>3, <1>4, <2>1
<1> QED BY <1>2, <1>3, <1>4 DEF SentOK, Moves

LEMMA RingMoves ==
    ASSUME TypeInv, Moves
    PROVE  /\ RingOK' /\ DOMAIN events \subseteq DOMAIN events'
           /\ \A i \in DOMAIN events : events'[i] = events[i]
<1>1. RingOK /\ SentOK
  BY DEF TypeInv
<1>2. now' \in Nat /\ now <= now' /\ stops \in Nat /\ stops' \in Nat /\ stops <= stops'
  BY <1>1, SentMoves DEF Moves, RingOK
<1>3. \A i \in DOMAIN events : events[i].at \in 1 .. now' /\ events[i].stop <= stops'
  <2>1. \A i \in DOMAIN events :
            /\ events[i] \in Entries /\ events[i].at \in 1 .. now /\ events[i].stop <= stops
    BY <1>1 DEF RingOK
  <2> QED BY <1>1, <1>2, <2>1 DEF Entries, RingOK
<1>4. CASE UNCHANGED ring
  BY <1>1, <1>2, <1>3, <1>4 DEF ring, RingOK
<1>5. ASSUME UNCHANGED events, NEW i \in DOMAIN events \cup {0}, returned' = Returned(i)
      PROVE  RingOK'
  <2>1. returned' \in Seq(Nat) /\ DOMAIN returned' = DOMAIN returned
    BY <1>5, Counts
  <2> QED BY <1>1, <1>2, <1>3, <1>5, <2>1 DEF RingOK
<1>6. CASE Arrives
  <2>1. Head(sent) \in OnWay /\ Head(sent) \in Notes
    BY <1>1, <1>6, WayArrives DEF Arrives
  <2>2. Head(sent).stop <= stops' /\ stops' = stops
    BY <1>1, <1>6, <2>1 DEF SentOK, Arrives
  <2>3. now' \in 1 .. now'
    BY <1>1, <1>2, <1>6, RingGrows DEF RingOK
  <2>4. \A i \in DOMAIN events' : events'[i].at \in 1 .. now' /\ events'[i].stop <= stops'
    BY <1>3, <1>6, <2>2, <2>3, RingGrows
  <2> QED BY <1>6, <2>4, RingGrows DEF RingOK
<1> QED BY <1>4, <1>5, <1>6, RingGrows DEF Moves, ring

\* The debuggee stands still, or a tool resumes or stops it.
Stands == UNCHANGED <<connected, debuggee, ring>> /\ now' \in {now, now + 1}

LEMMA StandsMoves == ASSUME TypeInv, Stands PROVE Moves
  BY DEF Stands, Moves, debuggee, TypeInv, SentOK

LEMMA TurnMoves ==
    ASSUME TypeInv, UNCHANGED <<connected, ring>>, now' \in {now, now + 1},
           \/ Resumed \/ CoreLoaded
           \/ \E kind \in StopKinds, told \in BOOLEAN : Stops(kind, told)
    PROVE  Moves
<1>1. CASE Resumed
  BY <1>1 DEF Resumed, Moves, Progs, TypeInv, SentOK
<1>2. CASE CoreLoaded
  BY <1>2 DEF CoreLoaded, Moves, Progs, TypeInv, SentOK, Kinds, StopKinds
<1>3. ASSUME NEW kind \in StopKinds, NEW told \in BOOLEAN, Stops(kind, told) PROVE Moves
  BY <1>3 DEF Stops, Moves, Progs, TypeInv, SentOK, Kinds
<1> QED BY <1>1, <1>2, <1>3

LEMMA WaitingTypes ==
    ASSUME TypeInv, NEW c \in Callers,
           \/ StepTimeout(c) \/ WaitTimeout(c) \/ PauseEnded(c) \/ PauseCancelled(c)
           \/ Wait(c) \/ WaitReceive(c) \/ PauseReceive(c) \/ Context(c)
    PROVE  Moves /\ CallsOK'
<1> USE DEF Goes, calls, marks, shown, debuggee, ring, TakesTurn
<1>1. Stands /\ UNCHANGED <<now, connected, stops, events, lastStopAt>>
  BY DEF Stands, StepTimeout, WaitTimeout, PauseEnded, PauseCancelled, Wait, WaitReceive,
     PauseReceive, Context
<1>2. CallsOK /\ SentOK
  BY DEF TypeInv
<1>4. Moves
  BY <1>1, StandsMoves
<1>3. CASE \/ StepTimeout(c) \/ WaitTimeout(c) \/ PauseEnded(c) \/ PauseCancelled(c)
  <2>1. /\ pc' = [pc EXCEPT ![c] = "idle"] /\ mu' \in {mu, NoOne}
        /\ UNCHANGED <<frame, since, got, seen, stray, orderly>>
        /\ missed' = missed \/ missed' = [missed EXCEPT !["pause"] = stops]
    BY <1>3 DEF StepTimeout, WaitTimeout, PauseEnded, PauseCancelled
  <2>2. pc' \in [Callers -> Places] /\ missed' \in [Causes -> Nat]
    BY <1>2, <2>1 DEF CallsOK, SentOK, Places
  <2> QED BY <1>1, <1>2, <1>4, <2>1, <2>2 DEF CallsOK
<1>5. CASE Wait(c)
  <2>1. /\ pc' = [pc EXCEPT ![c] = "waiting"] /\ since' = [since EXCEPT ![c] = lastStopAt]
        /\ UNCHANGED <<frame, mu, got, seen, missed, stray>> /\ orderly' \in BOOLEAN
    BY <1>5 DEF Wait, WaitFrom
  <2>2. pc' \in [Callers -> Places] /\ since' \in [Callers -> Nat]
    BY <1>2, <2>1 DEF CallsOK, Places
  <2> QED BY <1>1, <1>2, <1>4, <2>1, <2>2 DEF CallsOK
<1>6. CASE WaitReceive(c) \/ PauseReceive(c)
  <2>1. PICK i \in DOMAIN events \cup {0} : got' = [got EXCEPT ![c] = i]
    BY <1>6, Yields DEF WaitReceive, PauseReceive, Received
  <2>2. /\ pc' = [pc EXCEPT ![c] = "received"] /\ i \in Nat
        /\ UNCHANGED <<frame, mu, since, seen, missed, stray, orderly>>
    BY <1>6 DEF WaitReceive, PauseReceive, TypeInv, RingOK
  <2>3. got' \in [Callers -> Nat] /\ \A d \in Callers : got'[d] \in DOMAIN events' \cup {0}
    BY <1>1, <1>2, <2>1, <2>2 DEF CallsOK
  <2>4. pc' \in [Callers -> Places]
    BY <1>2, <2>2 DEF CallsOK, Places
  <2> QED BY <1>1, <1>2, <1>4, <2>2, <2>3, <2>4 DEF CallsOK
<1>7. CASE Context(c)
  <2>1. /\ seen' = stops /\ frame' = stops /\ orderly' \in BOOLEAN
        /\ UNCHANGED <<mu, pc, since, got, missed, stray>>
    BY <1>7 DEF Context, FrameShown
  <2> QED BY <1>1, <1>2, <1>4, <2>1 DEF CallsOK, SentOK
<1> QED BY <1>3, <1>5, <1>6, <1>7

LEMMA ContextTypes ==
    ASSUME TypeInv, ShowsContext \/ UNCHANGED <<seen, frame, missed>>
    PROVE  {frame', seen'} \subseteq 0 .. stops /\ missed' \in [Causes -> Nat]
  BY DEF TypeInv, CallsOK, SentOK, ShowsContext, FrameShown

\* Where debug goes when it is ready.
LEMMA ReadyGoes ==
    ASSUME NEW c \in Callers, DebugReady(c)
    PROVE  \E where \in {"stepping", "passing", "idle"} :
               /\ pc' = [pc EXCEPT ![c] = where]
               /\ where = "passing" => pc[c] = "entryOn"
               /\ where # "idle" => mu' = mu
<1>1. CASE pc[c] \notin Waits
  BY <1>1 DEF DebugReady, Goes
<1>2. CASE pc[c] = "entryOn"
  BY <1>2 DEF DebugReady, Goes, Waits
<1>3. CASE pc[c] \in {"direct", "core"}
  BY <1>3 DEF DebugReady, Goes, Waits
<1> QED BY <1>1, <1>2, <1>3 DEF Waits

LEMMA ConsumingTypes ==
    ASSUME TypeInv, NEW c \in Callers, DebugReady(c) \/ StepDone(c) \/ WaitReturn(c)
    PROVE  Moves /\ CallsOK'
<1> USE DEF Goes, calls, marks, debuggee, ring, Consumed, Tick
<1>1. CallsOK /\ SentOK /\ RingOK
  BY DEF TypeInv
<1>2. /\ now' = now + 1 /\ lastStopAt' = now + 1 /\ now' \in Nat /\ lastStopAt' <= now'
      /\ UNCHANGED <<connected, debuggee, events, since, stray, orderly>>
  BY <1>1 DEF DebugReady, StepDone, WaitReturn, RingOK
<1>3. CASE DebugReady(c)
  <2>1. Moves
    BY <1>3, StandsMoves DEF DebugReady, Stands
  <2>2. \E where \in {"stepping", "passing", "idle"} : pc' = [pc EXCEPT ![c] = where]
    BY <1>3, ReadyGoes
  <2>3. pc' \in [Callers -> Places]
    BY <1>1, <2>2 DEF CallsOK, Places
  <2>4. /\ {frame', seen'} \subseteq 0 .. stops /\ mu' \in {mu, NoOne}
        /\ UNCHANGED <<got, missed>>
    BY <1>1, <1>3 DEF DebugReady, CallsOK, SentOK
  <2> QED BY <1>1, <1>2, <2>1, <2>3, <2>4 DEF CallsOK
<1>4. CASE StepDone(c)
  <2>1. PICK i \in DOMAIN events : returned' = Returned(i)
    BY <1>4, Yields DEF StepDone, Received
  <2>2. Moves
    BY <1>1, <1>2, <2>1 DEF Moves, SentOK
  <2>3. /\ pc' = [pc EXCEPT ![c] = "idle"] /\ mu' = NoOne /\ got' = got
        /\ {frame', seen'} \subseteq 0 .. stops /\ missed' \in [Causes -> Nat]
    BY <1>4, ContextTypes DEF StepDone
  <2> QED BY <1>1, <1>2, <2>2, <2>3 DEF CallsOK, Places
<1>5. CASE WaitReturn(c)
  <2>1. Moves
    BY <1>1, <1>2, <1>5 DEF WaitReturn, Moves, CallsOK, SentOK
  <2>2. {frame', seen'} \subseteq 0 .. stops /\ missed' \in [Causes -> Nat]
    BY <1>5, ContextTypes DEF WaitReturn
  <2>3. /\ pc' = [pc EXCEPT ![c] = "idle"] /\ mu' = mu /\ got' = [got EXCEPT ![c] = 0]
    BY <1>5 DEF WaitReturn
  <2> QED BY <1>1, <1>2, <2>1, <2>2, <2>3 DEF CallsOK, Places
<1> QED BY <1>3, <1>4, <1>5

\* What the types of the marks need when the debuggee and the ring move on.
LEMMA MarksMove ==
    ASSUME TypeInv, Moves
    PROVE  /\ lastStopAt \in Nat /\ lastStopAt <= now' /\ now' \in Nat
           /\ {frame, seen} \subseteq 0 .. stops' /\ stops' \in Nat
           /\ \A d \in Callers : got[d] \in DOMAIN events' \cup {0}
<1>1. CallsOK /\ SentOK' /\ RingOK' /\ stops <= stops' /\ stops \in Nat
  BY SentMoves, RingMoves DEF TypeInv
<1>2. now \in Nat /\ now' \in {now, now + 1} /\ stops' \in Nat
  BY <1>1 DEF Moves, TypeInv, RingOK, SentOK
<1> QED BY <1>1, <1>2, RingMoves DEF CallsOK

LEMMA MovingTypes ==
    ASSUME TypeInv, NEW c \in Callers,
           \/ Continue(c) \/ Restart(c) \/ Step(c) \/ EntryPassed(c)
           \/ \E how \in Starting : DebugStart(c, how)
           \/ \E told \in BOOLEAN :
                  WaitPause(c, told) \/ \E acked \in BOOLEAN : Pause(c, told, acked)
    PROVE  Moves /\ CallsOK'
<1> USE DEF Goes, calls, marks, shown, TakesTurn
<1>1. CallsOK
  BY DEF TypeInv
<1>2. CASE Continue(c) \/ Restart(c) \/ Step(c)
  <2>1. Moves
    BY <1>2, TurnMoves DEF Continue, Restart, Step, Tick, StopKinds
  <2> QED BY <1>1, <1>2, <2>1, MarksMove DEF Continue, Restart, Step, Tick, CallsOK, Places
<1>3. CASE EntryPassed(c)
  <2>1. Moves
    BY <1>3, TurnMoves, StandsMoves DEF EntryPassed, Stands
  <2>2. PICK i \in DOMAIN events : since' = [since EXCEPT ![c] = events[i].at + 1]
    BY <1>3, Yields DEF EntryPassed
  <2>3. events[i].at + 1 \in Nat /\ stops \in Nat
    BY Ranges DEF TypeInv, SentOK
  <2> QED BY <1>1, <1>3, <2>1, <2>2, <2>3, MarksMove DEF EntryPassed, CallsOK, Places
<1>4. ASSUME NEW how \in Starting, DebugStart(c, how) PROVE Moves /\ CallsOK'
  <2>1. Moves
    BY <1>4, TurnMoves DEF DebugStart, Tick, StopKinds
  <2> QED BY <1>1, <1>4, <2>1, MarksMove DEF DebugStart, CallsOK, Places
<1>5. ASSUME NEW told \in BOOLEAN, WaitPause(c, told) PROVE Moves /\ CallsOK'
  <2>1. Moves
    BY <1>5, TurnMoves, StandsMoves DEF WaitPause, Stands, Tick, StopKinds
  <2> QED BY <1>1, <1>5, <2>1, MarksMove DEF WaitPause, CallsOK, Places
<1>6. ASSUME NEW told \in BOOLEAN, NEW acked \in BOOLEAN, Pause(c, told, acked)
      PROVE  Moves /\ CallsOK'
  <2>1. Moves
    BY <1>6, TurnMoves DEF Pause, StopKinds
  <2>2. {frame, seen'} \subseteq 0 .. stops' /\ missed' \in [Causes -> Nat]
    BY <1>1, <1>6, <2>1, MarksMove DEF Pause, CallsOK
  <2> QED BY <1>1, <1>6, <2>1, <2>2, MarksMove DEF Pause, CallsOK
<1> QED BY <1>2, <1>3, <1>4, <1>5, <1>6

LEMMA WorldTypes ==
    ASSUME TypeInv, Hit \/ End \/ Arrives \/ Lost \/ Reconnected
    PROVE  Moves /\ CallsOK'
<1> USE DEF calls, marks, shown, TakesTurn
<1>1. CallsOK /\ SentOK
  BY DEF TypeInv
<1>2. CASE Hit
  <2>1. Moves
    BY <1>2, TurnMoves DEF Hit, StopKinds
  <2>2. missed' \in [Causes -> Nat]
    BY <1>1, <1>2, <2>1, MarksMove DEF Hit, CallsOK
  <2> QED BY <1>1, <1>2, <2>1, <2>2, MarksMove DEF Hit, CallsOK
<1>3. CASE End
  <2>1. Moves
    BY <1>1, <1>3 DEF End, Moves, SentOK, Progs, Kinds
  <2> QED BY <1>1, <1>3, <2>1, MarksMove DEF End, CallsOK
<1>4. CASE Arrives
  <2>1. Moves
    BY <1>1, <1>4 DEF Arrives, Moves, SentOK, Tick
  <2>2. missed' \in [Causes -> Nat]
    BY <1>1, <1>4 DEF Arrives, CallsOK, SentOK
  <2>3. stray' \subseteq Nat
    <3>1. Head(sent).stop \in Nat
      BY <1>1, <1>4, WayArrives DEF Arrives, Notes
    <3> QED BY <1>1, <1>4, <3>1 DEF Arrives, CallsOK
  <2> QED BY <1>1, <1>4, <2>1, <2>2, <2>3, MarksMove DEF Arrives, CallsOK
<1>5. CASE Lost
  <2>1. Moves
    BY <1>1, <1>5 DEF Lost, Moves, SentOK
  <2>2. missed' \in [Causes -> Nat]
    BY <1>1, <1>5 DEF Lost, CallsOK, SentOK
  <2>3. pc' \in [Callers -> Places] /\ mu' = NoOne /\ orderly' \in BOOLEAN
    BY <1>1, <1>5 DEF Lost, CallsOK, Places
  <2> QED BY <1>1, <1>5, <2>1, <2>2, <2>3, MarksMove DEF Lost, CallsOK
<1>6. CASE Reconnected
  <2>1. Moves
    BY <1>1, <1>6 DEF Reconnected, Resumed, debuggee, Moves, SentOK, Tick, Progs
  <2>2. lastStopAt' = 0 /\ frame' = 0
    BY <1>6 DEF Reconnected, AfterReinit
  <2> QED BY <1>1, <1>6, <2>1, <2>2, MarksMove DEF Reconnected, CallsOK
<1> QED BY <1>2, <1>3, <1>4, <1>5, <1>6

LEMMA TypeStep ==
    ASSUME TypeInv, Next
    PROVE  TypeInv' /\ Moves
<1>1. Moves /\ CallsOK'
  BY WaitingTypes, ConsumingTypes, MovingTypes, WorldTypes DEF Next
<1> QED BY <1>1, SentMoves, RingMoves DEF TypeInv

-----------------------------------------------------------------------------
(* debug, and the calls of a client in turns.                              *)

\* A step after which no debug is starting.
LEMMA StartedKept ==
    ASSUME prog' # "none",
           \A d \in Callers :
               /\ pc'[d] \notin Starting
               /\ pc'[d] \in {"passing", "stepping"} => mu' = d
               /\ pc'[d] = "passing" => prog' = "stopped"
    PROVE  StartInv'
  BY DEF StartInv, Starting

\* A call that was waiting ends or goes on.
LEMMA StartWaits ==
    ASSUME TypeInv, StartInv, NEW c \in Callers,
           pc[c] \in {"passing", "stepping", "waiting", "received", "pausing"},
           \E to \in {"idle", "received", "stepping", "pausing"} :
               /\ pc' = [pc EXCEPT ![c] = to]
               /\ to = "stepping" => pc[c] = "passing" /\ mu' = c
               /\ to \in {"received", "pausing"} => mu' = mu,
           mu' = mu \/ pc[c] \in {"passing", "stepping"}, prog' # "none",
           prog' = prog \/ mu = NoOne \/ pc[c] = "passing"
    PROVE  StartInv'
<1>1. \A d \in Callers : pc[d] \notin Starting
  BY DEF StartInv, Starting
<1>2. PICK to \in {"idle", "received", "stepping", "pausing"} :
          /\ pc' = [pc EXCEPT ![c] = to]
          /\ to = "stepping" => pc[c] = "passing" /\ mu' = c
  OBVIOUS
<1>3. pc'[c] = to /\ \A d \in Callers : d # c => pc'[d] = pc[d]
  BY <1>2 DEF TypeInv, CallsOK
<1>4. ASSUME NEW d \in Callers, d # c, pc[d] \in {"passing", "stepping"}
      PROVE  mu' = mu /\ mu = d /\ (pc[d] = "passing" => prog' = "stopped")
  BY <1>4, CallerAssumption DEF StartInv
<1> QED BY <1>1, <1>2, <1>3, <1>4, StartedKept DEF Starting

\* ds.mu is free, so no debug and no step is under way.
LEMMA StartFree ==
    ASSUME TypeInv, StartInv, mu = NoOne
    PROVE  \A d \in Callers : pc[d] \notin Starting \cup {"passing", "stepping"}
  BY CallerAssumption DEF StartInv

LEMMA StartCalls ==
    ASSUME TypeInv, StartInv, NEW c \in Callers,
           \/ StepDone(c) \/ StepTimeout(c) \/ WaitReceive(c) \/ WaitReturn(c)
           \/ WaitTimeout(c) \/ PauseReceive(c) \/ PauseEnded(c) \/ PauseCancelled(c)
           \/ EntryPassed(c) \/ \E told \in BOOLEAN : WaitPause(c, told)
    PROVE  StartInv'
<1> USE DEF Goes, debuggee
<1>1. pc[c] \in {"passing", "stepping", "waiting", "received", "pausing"} => prog # "none"
  BY DEF StartInv
<1>2. CASE StepDone(c) \/ StepTimeout(c)
  BY <1>1, <1>2, StartWaits DEF StepDone, StepTimeout
<1>3. CASE WaitReceive(c) \/ WaitReturn(c) \/ WaitTimeout(c)
  BY <1>1, <1>3, StartWaits DEF WaitReceive, WaitReturn, WaitTimeout
<1>4. CASE PauseReceive(c) \/ PauseEnded(c) \/ PauseCancelled(c)
  BY <1>1, <1>4, StartWaits DEF PauseReceive, PauseEnded, PauseCancelled
<1>5. CASE EntryPassed(c)
  <2>1. mu = c /\ mu' = mu /\ pc' = [pc EXCEPT ![c] = "stepping"] /\ prog' # "none"
    BY <1>1, <1>5 DEF EntryPassed, StartInv, Resumed
  <2> QED BY <1>5, <2>1, StartWaits DEF EntryPassed
<1>6. ASSUME NEW told \in BOOLEAN, WaitPause(c, told) PROVE StartInv'
  <2>1. /\ mu = NoOne /\ mu' = mu /\ pc' = [pc EXCEPT ![c] = "pausing"] /\ prog' # "none"
        /\ pc[c] = "waiting"
    BY <1>6 DEF WaitPause, Stops
  <2> QED BY <2>1, StartWaits
<1> QED BY <1>2, <1>3, <1>4, <1>5, <1>6

LEMMA StartTools ==
    ASSUME TypeInv, StartInv, NEW c \in Callers,
           \/ Continue(c) \/ Restart(c) \/ Step(c) \/ Wait(c) \/ Context(c)
           \/ \E told \in BOOLEAN, acked \in BOOLEAN : Pause(c, told, acked)
    PROVE  StartInv'
<1> USE DEF Goes, calls, debuggee, MayCall
<1>1. mu = NoOne /\ prog # "none"
  BY DEF Continue, Restart, Step, Wait, Context, Pause
<1>2. \A d \in Callers : pc[d] \notin Starting \cup {"passing", "stepping"}
  BY <1>1, StartFree
<1>3. prog' # "none"
  BY <1>1 DEF Continue, Restart, Step, Wait, Context, Pause, Resumed, Stops
<1>4. \/ pc' = pc
      \/ pc' = [pc EXCEPT ![c] = "stepping"] /\ mu' = c
      \/ pc' = [pc EXCEPT ![c] = "waiting"]
  BY DEF Continue, Restart, Step, Wait, Context, Pause
<1>5. \A d \in Callers : pc'[d] = pc[d] \/ (pc'[d] = "stepping" /\ mu' = d) \/ pc'[d] = "waiting"
  BY <1>4 DEF TypeInv, CallsOK
<1> QED BY <1>2, <1>3, <1>5, StartedKept DEF Starting

LEMMA StartDebug ==
    ASSUME TypeInv, StartInv, NEW c \in Callers,
           DebugReady(c) \/ \E how \in Starting : DebugStart(c, how)
    PROVE  StartInv'
<1> USE DEF Goes, debuggee, marks, shown
<1>1. pc \in [Callers -> Places] /\ SentOK
  BY DEF TypeInv, CallsOK
<1>2. CASE DebugReady(c)
  <2>1. PICK to \in {"stepping", "passing", "idle"} :
            /\ pc' = [pc EXCEPT ![c] = to]
            /\ to = "passing" => pc[c] = "entryOn"
            /\ to # "idle" => mu' = mu
    BY <1>2, ReadyGoes
  <2>2. pc'[c] = to /\ \A d \in Callers : d # c => pc'[d] = "idle"
    BY <1>1, <1>2, <2>1 DEF DebugReady, StartInv
  <2>3. mu = c /\ prog' = prog /\ prog # "none" /\ (pc[c] = "entryOn" => prog = "stopped")
    BY <1>2 DEF DebugReady, StartInv, Starting
  <2> QED BY <2>1, <2>2, <2>3, StartedKept DEF Starting
<1>3. ASSUME NEW how \in Starting, DebugStart(c, how) PROVE StartInv'
  <2>1. /\ pc' = [pc EXCEPT ![c] = how] /\ mu' = c /\ connected /\ UNCHANGED <<connected, frame>>
        /\ frame = 0 /\ \A d \in Callers : pc[d] = "idle"
    BY <1>3 DEF DebugStart, StartInv
  <2>2. pc'[c] = how /\ \A d \in Callers : d # c => pc'[d] = "idle"
    BY <1>1, <2>1
  <2>3. /\ prog' # "none"
        /\ how \in {"entry", "entryOn"} => prog' = "stopped" /\ Stops("entry", TRUE)
        /\ how = "core" => prog' = "core"
        /\ how \in {"attaching", "direct"} => prog' = "running"
    BY <1>3 DEF DebugStart, Resumed, Stops, CoreLoaded
  <2>4. ASSUME Stops("entry", TRUE) PROVE Coming(stops)'
    <3>1. Tells("entry") /\ stops' = stops + 1 /\ "entry" \in Kinds /\ "entry" \in StopKinds
      BY <2>4 DEF Stops, Kinds, StopKinds
    <3>2. [kind |-> "entry", stop |-> stops'] \in OnWay'
      BY <1>1, <2>1, <3>1, WayTells
    <3> QED BY <3>1, <3>2, WayComing DEF Coming, OnWay
  <2> QED BY <2>1, <2>2, <2>3, <2>4 DEF StartInv, Starting
<1> QED BY <1>2, <1>3

LEMMA StartWorld ==
    ASSUME TypeInv, StartInv, Hit \/ End \/ Arrives \/ Lost \/ Reconnected
    PROVE  StartInv'
<1> USE DEF calls, marks, shown
<1>1. SentOK /\ CallsOK
  BY DEF TypeInv
<1>2. CASE Hit
  <2>1. ASSUME connected PROVE Coming(stops)'
    <3>1. Tells("stop") /\ stops' = stops + 1 /\ "stop" \in Kinds /\ "stop" \in StopKinds
      BY <1>2 DEF Hit, Stops, Kinds, StopKinds
    <3>2. [kind |-> "stop", stop |-> stops'] \in OnWay'
      BY <1>1, <2>1, <3>1, WayTells
    <3> QED BY <3>1, <3>2 DEF Coming, OnWay
  <2>2. prog = "running" /\ prog' = "stopped" /\ UNCHANGED <<connected, frame, mu, pc>>
    BY <1>2 DEF Hit, Stops
  <2> QED BY <2>1, <2>2 DEF StartInv, Starting
<1>3. CASE End
  <2>1. prog = "running" /\ prog' = "ended" /\ UNCHANGED <<connected, frame, mu, pc>>
    BY <1>3 DEF End
  <2> QED BY <2>1 DEF StartInv, Starting
<1>4. CASE Arrives
  <2>1. UNCHANGED <<connected, frame, mu, pc, prog, stops>> /\ prog # "none"
    BY <1>4 DEF Arrives, StartInv
  <2>2. (\E c \in Callers : pc[c] \in Starting) => missed'["early"] = stops
    BY <1>1, <1>4 DEF Arrives, CallsOK, Causes
  <2> QED BY <2>1, <2>2 DEF StartInv, Starting
<1>5. CASE Lost
  <2>1. prog' # "none" /\ \A d \in Callers : pc'[d] \in {"idle", "received"}
    BY <1>5 DEF Lost
  <2> QED BY <2>1, StartedKept DEF Starting
<1>6. CASE Reconnected
  <2>1. prog' # "none" /\ pc' = pc /\ mu = NoOne
    BY <1>6 DEF Reconnected, Resumed, debuggee
  <2> QED BY <1>6, <2>1, StartFree, StartedKept
<1> QED BY <1>2, <1>3, <1>4, <1>5, <1>6

LEMMA StartStep ==
    ASSUME TypeInv, StartInv, Next
    PROVE  StartInv'
  BY StartCalls, StartTools, StartDebug, StartWorld DEF Next

\* Who has a call under way is alone; who begins one was.
LEMMA AloneStep ==
    ASSUME TypeInv, StartInv, AloneInv, Next
    PROVE  AloneInv'
<1> USE DEF Goes, calls, TakesTurn
<1>1. pc \in [Callers -> Places]
  BY DEF TypeInv, CallsOK
<1>2. ASSUME NEW c \in Callers, pc[c] # "idle" \/ \A d \in Callers : pc[d] = "idle",
             \E to \in Places : pc' = [pc EXCEPT ![c] = to], connected' = connected,
             orderly' => orderly
      PROVE  AloneInv'
  BY <1>1, <1>2 DEF AloneInv
<1>3. ASSUME UNCHANGED <<pc, connected>>, orderly' => orderly PROVE AloneInv'
  BY <1>3 DEF AloneInv
<1>4. CASE Hit \/ End \/ Arrives
  BY <1>3, <1>4 DEF Hit, End, Arrives
<1>5. CASE Lost \/ Reconnected
  BY <1>5 DEF Lost, Reconnected, AloneInv
<1>6. ASSUME NEW c \in Callers, NEW how \in Starting, DebugStart(c, how) PROVE AloneInv'
  BY <1>2, <1>6 DEF DebugStart, StartInv, Places
<1>7. ASSUME NEW c \in Callers, Continue(c) \/ Restart(c) \/ Context(c) PROVE AloneInv'
  BY <1>3, <1>7 DEF Continue, Restart, Context
<1>8. ASSUME NEW c \in Callers, Step(c) \/ Wait(c) PROVE AloneInv'
  <2>1. orderly' => orderly /\ \A d \in Callers : pc[d] = "idle"
    BY <1>8 DEF Step, Wait
  <2>2. connected' = connected /\ \E to \in Places : pc' = [pc EXCEPT ![c] = to]
    BY <1>8 DEF Step, Wait, Places
  <2>3. CASE ~orderly'
    BY <2>3 DEF AloneInv
  <2> QED BY <1>2, <2>1, <2>2, <2>3
<1>9. ASSUME NEW c \in Callers, DebugReady(c) PROVE AloneInv'
  <2>1. /\ pc[c] # "idle" /\ UNCHANGED <<connected, orderly>>
        /\ \E to \in Places : pc' = [pc EXCEPT ![c] = to]
    BY <1>9, ReadyGoes DEF DebugReady, Starting, Places
  <2> QED BY <1>2, <2>1
<1>10. ASSUME NEW c \in Callers,
              \/ EntryPassed(c) \/ StepDone(c) \/ StepTimeout(c) \/ WaitReceive(c)
              \/ WaitReturn(c) \/ WaitTimeout(c) \/ PauseReceive(c) \/ PauseEnded(c)
              \/ PauseCancelled(c) \/ \E told \in BOOLEAN : WaitPause(c, told)
       PROVE  AloneInv'
  <2>1. pc[c] # "idle" /\ UNCHANGED <<connected, orderly>>
    BY <1>10 DEF EntryPassed, StepDone, StepTimeout, WaitReceive, WaitReturn, WaitTimeout,
       PauseReceive, PauseEnded, PauseCancelled, WaitPause
  <2>2. \E to \in {"idle", "stepping", "received", "pausing"} : pc' = [pc EXCEPT ![c] = to]
    BY <1>10 DEF EntryPassed, StepDone, StepTimeout, WaitReceive, WaitReturn, WaitTimeout,
       PauseReceive, PauseEnded, PauseCancelled, WaitPause
  <2> QED BY <1>2, <2>1, <2>2 DEF Places
<1>11. ASSUME NEW c \in Callers, NEW told \in BOOLEAN, NEW acked \in BOOLEAN,
              Pause(c, told, acked)
       PROVE  AloneInv'
  BY <1>3, <1>11 DEF Pause
<1> QED BY <1>4, <1>5, <1>6, <1>7, <1>8, <1>9, <1>10, <1>11 DEF Next

\* The debuggee does not go on once it has ended.
LEMMA EndKept ==
    ASSUME TypeInv, EndInv, UNCHANGED events, prog = "ended" => prog' = "ended",
           stops' \in {stops, stops + 1},
           \/ UNCHANGED sent \/ sent' = <<>>
           \/ \E kind \in Kinds : Tells(kind) /\ (kind = "term" => prog' = "ended")
    PROVE  EndInv'
<1>1. SentOK
  BY DEF TypeInv
<1>2. \A e \in OnWay' : e \in OnWay \/ (e.kind = "term" => prog' = "ended")
  <2>1. CASE UNCHANGED sent
    BY <2>1 DEF OnWay
  <2>2. CASE sent' = <<>>
    <3>1. DOMAIN sent' = {}
      BY <2>2
    <3> QED BY <3>1 DEF OnWay
  <2>3. ASSUME NEW kind \in Kinds, Tells(kind), kind = "term" => prog' = "ended",
               NEW e \in OnWay'
        PROVE  e \in OnWay \/ (e.kind = "term" => prog' = "ended")
    BY <1>1, <2>3, WayTells
  <2> QED BY <2>1, <2>2, <2>3
<1> QED BY <1>2 DEF EndInv

LEMMA EndStep ==
    ASSUME TypeInv, StartInv, EndInv, Next
    PROVE  EndInv'
<1> USE DEF debuggee, ring, EndInv
<1>1. ASSUME UNCHANGED <<events, sent>>, prog = "ended" => prog' = "ended" PROVE EndInv'
  BY <1>1 DEF OnWay
<1>2. ASSUME UNCHANGED events, prog # "ended",
             \/ Resumed \/ CoreLoaded
             \/ \E kind \in StopKinds, told \in BOOLEAN : Stops(kind, told)
      PROVE  EndInv'
  <2>1. CASE Resumed
    BY <1>1, <1>2, <2>1 DEF Resumed
  <2>2. CASE CoreLoaded
    BY <1>2, <2>2, EndKept DEF CoreLoaded, Kinds, StopKinds
  <2>3. ASSUME NEW kind \in StopKinds, NEW told \in BOOLEAN, Stops(kind, told) PROVE EndInv'
    <3>1. kind \in Kinds /\ kind # "term"
      BY DEF Kinds, StopKinds
    <3> QED BY <1>2, <2>3, <3>1, EndKept DEF Stops
  <2> QED BY <1>2, <2>1, <2>2, <2>3
<1>3. CASE Hit
  BY <1>2, <1>3 DEF Hit, StopKinds
<1>4. CASE End
  BY <1>4, EndKept DEF End, Kinds
<1>5. CASE Lost
  BY <1>5, EndKept DEF Lost
<1>6. CASE Reconnected
  BY <1>1, <1>2, <1>6 DEF Reconnected
<1>7. CASE Arrives
  <2>1. OnWay = OnWay' \cup {Head(sent)} /\ prog' = prog
    BY <1>7, WayArrives DEF Arrives, TypeInv
  <2>2. ASSUME NEW i \in DOMAIN events', events'[i].kind = "term" PROVE prog' = "ended"
    BY <1>7, <2>1, <2>2, RingGrows
  <2> QED BY <2>1, <2>2
<1>8. ASSUME NEW c \in Callers, NEW how \in Starting, DebugStart(c, how) PROVE EndInv'
  BY <1>2, <1>8 DEF DebugStart, StopKinds
<1>9. ASSUME NEW c \in Callers, DebugReady(c) PROVE EndInv'
  BY <1>1, <1>9 DEF DebugReady
<1>10. ASSUME NEW c \in Callers, EntryPassed(c) PROVE EndInv'
  <2>1. prog = "stopped" /\ UNCHANGED events /\ (Resumed \/ UNCHANGED debuggee)
    BY <1>10 DEF EntryPassed, StartInv
  <2> QED BY <1>1, <1>2, <2>1
<1>11. ASSUME NEW c \in Callers, Continue(c) \/ Restart(c) \/ Step(c) PROVE EndInv'
  BY <1>2, <1>11 DEF Continue, Restart, Step, StopKinds
<1>12. ASSUME NEW c \in Callers,
              \/ Wait(c) \/ Context(c)
              \/ StepDone(c) \/ StepTimeout(c) \/ WaitReceive(c) \/ WaitReturn(c)
              \/ WaitTimeout(c) \/ PauseReceive(c) \/ PauseEnded(c) \/ PauseCancelled(c)
       PROVE  EndInv'
  <2>1. UNCHANGED <<events, sent, prog>>
    BY <1>12 DEF Wait, Context, StepDone, StepTimeout, WaitReceive, WaitReturn, WaitTimeout,
       PauseReceive, PauseEnded, PauseCancelled
  <2> QED BY <1>1, <2>1
<1>13. ASSUME NEW c \in Callers, NEW told \in BOOLEAN,
              WaitPause(c, told) \/ \E acked \in BOOLEAN : Pause(c, told, acked)
       PROVE  EndInv'
  BY <1>1, <1>2, <1>13 DEF WaitPause, Pause, StopKinds
<1> QED BY <1>3, <1>4, <1>5, <1>6, <1>7, <1>8, <1>9, <1>10, <1>11, <1>12, <1>13 DEF Next

-----------------------------------------------------------------------------
(* No stop is missed.                                                      *)

\* Of a new stop nothing has come; what the adapter tells is to come.
LEMMA NewStop ==
    ASSUME TypeInv, NEW kind \in StopKinds, NEW told \in BOOLEAN, Stops(kind, told),
           UNCHANGED events
    PROVE  ~Told(stops, 0)' /\ (told /\ connected => Coming(stops)')
<1>1. /\ stops' = stops + 1 /\ stops \in Nat
      /\ \A i \in DOMAIN events : events[i].stop <= stops /\ events[i] \in Entries
  BY DEF Stops, TypeInv, SentOK, RingOK
<1>2. ~Told(stops, 0)'
  BY <1>1 DEF Told, Entries
<1>3. ASSUME told, connected PROVE Coming(stops)'
  <2>1. Tells(kind) /\ kind \in Kinds
    BY <1>3 DEF Stops, Kinds
  <2>2. [kind |-> kind, stop |-> stops'] \in OnWay'
    BY <1>1, <1>3, <2>1, WayTells DEF TypeInv
  <2> QED BY <2>2 DEF Coming, OnWay
<1> QED BY <1>2, <1>3

\* When the debuggee stops, its stop is told, shown, noted as lost, or one of
\* a pause.
LEMMA MissStops ==
    ASSUME TypeInv, NEW kind \in StopKinds, NEW told \in BOOLEAN, Stops(kind, told),
           UNCHANGED events,
           \/ told /\ connected
           \/ seen' = stops' \/ missed'["lost"] = stops' \/ missed'["pause"] = stops'
           \/ \E c \in Callers : pc'[c] = "pausing"
    PROVE  MissInv'
  BY NewStop DEF MissInv

\* While nothing comes or is consumed, a stop that can be found still can be.
LEMMA MissKept ==
    ASSUME MissInv, UNCHANGED <<prog, stops, seen, events, sent, lastStopAt>>,
           \A k \in Causes : missed[k] = stops => missed'[k] = stops,
           \A d \in Callers : pc[d] = "received" => pc'[d] = "received",
           \A d \in Callers : pc[d] = "pausing" =>
               pc'[d] \in {"pausing", "received"} \/ missed'["pause"] = stops
    PROVE  MissInv'
  BY DEF MissInv, Told, Coming, Causes

LEMMA MissWorld ==
    ASSUME TypeInv, MissInv, Hit \/ End \/ Arrives \/ Lost \/ Reconnected
    PROVE  MissInv'
<1> USE DEF calls, marks, shown, ring, debuggee
<1>1. SentOK /\ CallsOK /\ RingOK
  BY DEF TypeInv
<1>2. CASE Hit
  <2>1. Stops("stop", TRUE) /\ "stop" \in StopKinds /\ events' = events
    BY <1>2 DEF Hit, StopKinds
  <2>2. connected \/ missed'["lost"] = stops'
    BY <1>1, <1>2 DEF Hit, CallsOK, Causes
  <2> QED BY <2>1, <2>2, MissStops
<1>3. CASE End
  BY <1>3 DEF End, MissInv
<1>4. CASE Arrives
  <2>1. UNCHANGED <<prog, stops, seen, lastStopAt, pc>>
    BY <1>4 DEF Arrives
  <2>2. OnWay = OnWay' \cup {Head(sent)} /\ Head(sent).kind \in Kinds
    BY <1>1, <1>4, WayArrives DEF Arrives, Notes
  <2>3. \A k \in Causes : missed[k] = stops => missed'[k] = stops
    BY <1>1, <1>4 DEF Arrives, CallsOK
  <2>4. Told(stops, lastStopAt) => Told(stops, lastStopAt)'
    BY <1>4, <2>1, RingGrows DEF Told
  <2>5. ASSUME Head(sent).stop = stops, Head(sent).kind \in StopKinds
        PROVE  Told(stops, lastStopAt)'
    <3>1. now' >= lastStopAt
      BY <1>4, Ranges, RingGrows
    <3> QED BY <1>4, <2>1, <2>5, <3>1, RingGrows DEF Told
  <2>6. CASE Head(sent).stop = stops /\ Head(sent).kind \in StopKinds
    BY <2>5, <2>6 DEF MissInv
  <2>7. CASE ~(Head(sent).stop = stops /\ Head(sent).kind \in StopKinds)
    <3>1. Coming(stops) => Coming(stops)'
      BY <2>1, <2>2, <2>7, WayComing DEF Coming, OnWay
    <3>2. ~Told(stops, 0) => ~Told(stops, 0)'
      BY <1>4, <2>1, <2>7, RingGrows DEF Told
    <3> QED BY <2>1, <2>3, <2>4, <3>1, <3>2 DEF MissInv, Causes
  <2> QED BY <2>6, <2>7
<1>5. CASE Lost
  <2>1. UNCHANGED <<prog, stops, seen, events, lastStopAt>>
    BY <1>5 DEF Lost
  <2>2. /\ missed'["early"] = missed["early"] /\ missed'["unread"] = missed["unread"]
        /\ missed'["lost"] = IF Coming(stops) THEN stops ELSE missed["lost"]
        /\ missed'["pause"] =
               IF \E c \in Callers : pc[c] = "pausing" THEN stops ELSE missed["pause"]
    BY <1>1, <1>5 DEF Lost, CallsOK, Causes
  <2>3. \A d \in Callers : pc[d] = "received" => pc'[d] = "received"
    BY <1>5 DEF Lost
  <2> QED BY <2>1, <2>2, <2>3 DEF MissInv, Told
<1>6. CASE Reconnected
  <2>1. Told(stops, lastStopAt) => Told(stops, 0)
    BY <1>1 DEF Told, RingOK, Entries
  <2>2. CASE Resumed
    BY <2>2 DEF Resumed, MissInv
  <2>3. CASE UNCHANGED debuggee
    BY <1>6, <2>1, <2>3 DEF Reconnected, AfterReinit, MissInv, Told, Coming
  <2> QED BY <1>6, <2>2, <2>3 DEF Reconnected
<1> QED BY <1>2, <1>3, <1>4, <1>5, <1>6

LEMMA MissMoves ==
    ASSUME TypeInv, StartInv, MissInv, NEW c \in Callers,
           \/ Continue(c) \/ Restart(c) \/ Step(c) \/ EntryPassed(c)
           \/ \E how \in Starting : DebugStart(c, how)
           \/ \E told \in BOOLEAN :
                  WaitPause(c, told) \/ \E acked \in BOOLEAN : Pause(c, told, acked)
    PROVE  MissInv'
<1> USE DEF Goes, calls, marks, shown, ring
<1>1. CallsOK /\ (Resumed => MissInv')
  BY DEF TypeInv, Resumed, MissInv
<1>2. CASE Continue(c) \/ Step(c)
  BY <1>1, <1>2 DEF Continue, Step
<1>3. CASE Restart(c)
  BY <1>1, <1>3, MissStops DEF Restart, StopKinds
<1>4. CASE EntryPassed(c)
  <2>1. CASE UNCHANGED debuggee
    <3>1. /\ UNCHANGED <<prog, stops, seen, events, sent, lastStopAt, missed>>
          /\ pc[c] = "passing" /\ pc' = [pc EXCEPT ![c] = "stepping"]
      BY <1>4, <2>1 DEF EntryPassed, debuggee
    <3>2. \A d \in Callers : pc[d] \in {"received", "pausing"} => pc'[d] = pc[d]
      BY <1>1, <3>1 DEF CallsOK
    <3> QED BY <3>1, <3>2, MissKept
  <2> QED BY <1>1, <1>4, <2>1 DEF EntryPassed
<1>5. ASSUME NEW how \in Starting, DebugStart(c, how) PROVE MissInv'
  <2>1. CASE Stops("entry", TRUE)
    <3>1. connected /\ UNCHANGED events /\ "entry" \in StopKinds
      BY <1>5 DEF DebugStart, StartInv, StopKinds
    <3> QED BY <2>1, <3>1, MissStops
  <2>2. CASE CoreLoaded
    BY <2>2 DEF CoreLoaded, MissInv
  <2> QED BY <1>1, <1>5, <2>1, <2>2 DEF DebugStart
<1>6. ASSUME NEW told \in BOOLEAN, NEW acked \in BOOLEAN, Pause(c, told, acked)
      PROVE  MissInv'
  <2>1. seen' = stops' \/ missed'["pause"] = stops'
    BY <1>1, <1>6 DEF Pause, CallsOK, Causes
  <2> QED BY <1>6, <2>1, MissStops DEF Pause, StopKinds
<1>7. ASSUME NEW told \in BOOLEAN, WaitPause(c, told) PROVE MissInv'
  <2>1. /\ pc'[c] = "pausing" /\ \A d \in Callers : d # c => pc'[d] = pc[d]
        /\ pc[c] = "waiting"
    BY <1>1, <1>7 DEF WaitPause, CallsOK
  <2>2. CASE prog = "running"
    BY <1>7, <2>1, <2>2, MissStops DEF WaitPause, StopKinds
  <2>3. CASE prog # "running"
    <3>1. UNCHANGED <<prog, stops, seen, events, sent, lastStopAt, missed>>
      BY <1>7, <2>3 DEF WaitPause, debuggee
    <3> QED BY <2>1, <3>1, MissKept
  <2> QED BY <2>2, <2>3
<1> QED BY <1>2, <1>3, <1>4, <1>5, <1>6, <1>7

LEMMA MissCalls ==
    ASSUME TypeInv, StartInv, EndInv, MissInv, NEW c \in Callers,
           \/ StepTimeout(c) \/ WaitTimeout(c) \/ PauseEnded(c) \/ PauseCancelled(c)
           \/ Wait(c) \/ WaitReceive(c) \/ PauseReceive(c)
           \/ DebugReady(c) \/ StepDone(c) \/ WaitReturn(c) \/ Context(c)
    PROVE  MissInv'
<1> USE DEF Goes, calls, marks, shown, ring, debuggee
<1>1. CallsOK /\ SentOK
  BY DEF TypeInv
<1>2. CASE StepTimeout(c) \/ WaitTimeout(c) \/ Wait(c)
  <2>1. /\ UNCHANGED <<prog, stops, seen, events, sent, lastStopAt, missed>>
        /\ pc[c] \in {"passing", "stepping", "waiting", "idle"}
        /\ \E to \in {"idle", "waiting"} : pc' = [pc EXCEPT ![c] = to]
    BY <1>2 DEF StepTimeout, WaitTimeout, Wait, MayCall
  <2>2. \A d \in Callers : pc[d] \in {"received", "pausing"} => pc'[d] = pc[d]
    BY <1>1, <2>1 DEF CallsOK
  <2> QED BY <2>1, <2>2, MissKept
<1>3. CASE WaitReceive(c) \/ PauseReceive(c)
  <2>1. /\ UNCHANGED <<prog, stops, seen, events, sent, lastStopAt, missed>>
        /\ pc' = [pc EXCEPT ![c] = "received"]
    BY <1>3 DEF WaitReceive, PauseReceive
  <2>2. \A d \in Callers : pc'[d] \in {pc[d], "received"}
    BY <1>1, <2>1 DEF CallsOK
  <2> QED BY <2>1, <2>2, MissKept
<1>4. CASE PauseCancelled(c)
  <2>1. /\ UNCHANGED <<prog, stops, seen, events, sent, lastStopAt>>
        /\ missed' = [missed EXCEPT !["pause"] = stops]
        /\ pc[c] = "pausing" /\ pc' = [pc EXCEPT ![c] = "idle"]
    BY <1>4 DEF PauseCancelled
  <2>2. /\ missed'["pause"] = stops /\ \A k \in Causes : missed'[k] \in {missed[k], stops}
        /\ \A d \in Callers : pc[d] = "received" => pc'[d] = "received"
    BY <1>1, <2>1 DEF CallsOK, Causes
  <2> QED BY <2>1, <2>2, MissKept
<1>5. CASE PauseEnded(c)
  <2>1. prog = "ended" /\ prog' = prog
    BY <1>5, Yields DEF PauseEnded, EndInv
  <2> QED BY <2>1 DEF MissInv
<1>6. CASE DebugReady(c)
  <2>1. prog = "stopped" => missed["early"] = stops \/ Coming(stops)
    BY <1>6 DEF DebugReady, StartInv
  <2>2. UNCHANGED <<prog, stops, missed, sent>>
    BY <1>6 DEF DebugReady
  <2> QED BY <2>1, <2>2 DEF MissInv, Coming
<1>7. CASE StepDone(c) \/ WaitReturn(c)
  <2>1. UNCHANGED <<prog, stops>>
    BY <1>7 DEF StepDone, WaitReturn
  <2>2. CASE ShowsContext
    <3>1. prog = "stopped" => seen' = stops \/ missed'["unread"] = stops
      BY <1>1, <2>2 DEF ShowsContext, Stopped, CallsOK, Causes
    <3> QED BY <2>1, <3>1 DEF MissInv
  <2>3. CASE WaitReturn(c) /\ got[c] # 0 /\ events[got[c]].kind = "term"
    BY <1>1, <2>1, <2>3 DEF CallsOK, EndInv, MissInv
  <2> QED BY <1>7, <2>2, <2>3 DEF StepDone, WaitReturn
<1>8. CASE Context(c)
  BY <1>8 DEF Context, MissInv
<1> QED BY <1>2, <1>3, <1>4, <1>5, <1>6, <1>7, <1>8

LEMMA MissStep ==
    ASSUME TypeInv, StartInv, EndInv, MissInv, Next
    PROVE  MissInv'
  BY MissWorld, MissMoves, MissCalls DEF Next

-----------------------------------------------------------------------------
(* No event is reported twice to a client in turns.                        *)

\* What had been returned stays, and nothing is added to it.
NotReturning ==
    \A i \in DOMAIN returned' : returned'[i] > 0 =>
        i \in DOMAIN returned /\ returned[i] = returned'[i] /\ events'[i] = events[i]

\* While nothing is returned, lastStopAt does not go back and no call looks
\* further back, nothing returned is looked for again.
LEMMA OnceKept ==
    ASSUME TypeInv, TypeInv', OnceInv, orderly' => orderly,
           UNCHANGED ring \/ Arrives, lastStopAt' >= lastStopAt, now' >= now,
           \A c \in Callers :
               /\ pc'[c] \in Awaiting =>
                      \/ since'[c] \in {lastStopAt, now'}
                      \/ since'[c] >= since[c] /\ pc[c] \in Awaiting
               /\ pc'[c] = "received" => pc[c] = "received" /\ got'[c] = got[c]
    PROVE  OnceInv'
<1> SUFFICES ASSUME orderly, orderly' PROVE OnceInv'
  BY DEF OnceInv
<1>1. NotReturning /\ \A i \in DOMAIN returned : returned'[i] = returned[i]
  <2>1. CASE UNCHANGED ring
    BY <2>1 DEF ring, NotReturning
  <2>2. CASE Arrives
    BY <2>2, Ranges, RingGrows DEF NotReturning
  <2> QED BY <2>1, <2>2
<1>2. ASSUME NEW i \in DOMAIN returned', returned'[i] > 0
      PROVE  /\ returned'[i] = 1 /\ i \in DOMAIN events /\ events'[i] = events[i]
             /\ events[i].at \in Nat /\ events[i].at < lastStopAt
             /\ i \in DOMAIN returned /\ returned[i] > 0
  <2>1. /\ i \in DOMAIN returned /\ returned[i] > 0
        /\ returned'[i] = returned[i] /\ events'[i] = events[i]
    BY <1>1, <1>2 DEF NotReturning
  <2>2. returned[i] = 1 /\ events[i].at < lastStopAt
    BY <2>1 DEF OnceInv
  <2> QED BY <2>1, <2>2, Ranges
<1>3. lastStopAt' \in Nat /\ now' \in Nat /\ lastStopAt \in Nat /\ now \in Nat /\ lastStopAt <= now
  BY Ranges DEF TypeInv, CallsOK, RingOK
<1>4. \A i \in DOMAIN returned' : returned'[i] > 0 =>
          returned'[i] = 1 /\ events'[i].at < lastStopAt'
  BY <1>2, <1>3
<1>5. ASSUME NEW c \in Callers, pc'[c] \in Awaiting, NEW i \in DOMAIN returned', returned'[i] > 0
      PROVE  events'[i].at < since'[c]
  <2>1. CASE since'[c] \in {lastStopAt, now'}
    BY <1>2, <1>3, <1>5, <2>1
  <2>2. CASE since'[c] >= since[c] /\ pc[c] \in Awaiting
    <3>1. events[i].at < since[c] /\ events[i].at \in Nat /\ events'[i] = events[i]
      BY <1>2, <1>5, <2>2 DEF OnceInv
    <3>2. since[c] \in Nat /\ since'[c] \in Nat
      BY DEF TypeInv, CallsOK
    <3> QED BY <2>2, <3>1, <3>2
  <2> QED BY <1>5, <2>1, <2>2
<1>6. ASSUME NEW c \in Callers, pc'[c] = "received", got'[c] # 0 PROVE returned'[got'[c]] = 0
  <2>1. got[c] \in DOMAIN returned /\ returned[got[c]] = 0 /\ got'[c] = got[c]
    BY <1>6 DEF OnceInv, TypeInv, CallsOK, RingOK
  <2> QED BY <1>1, <2>1
<1> QED BY <1>4, <1>5, <1>6 DEF OnceInv

\* A step that leaves the ring alone and moves the calls as OnceKept allows.
LEMMA OnceCalls ==
    ASSUME TypeInv, TypeInv', StartInv, OnceInv, NEW c \in Callers,
           \/ Continue(c) \/ Restart(c) \/ Step(c) \/ Wait(c) \/ Context(c)
           \/ DebugReady(c) \/ EntryPassed(c) \/ StepTimeout(c) \/ WaitTimeout(c)
           \/ PauseEnded(c) \/ PauseCancelled(c)
           \/ \E how \in Starting : DebugStart(c, how)
           \/ \E told \in BOOLEAN : WaitPause(c, told)
    PROVE  OnceInv'
<1> USE DEF Goes, calls, marks, shown, TakesTurn
<1>1. pc \in [Callers -> Places] /\ since \in [Callers -> Nat] /\ got \in [Callers -> Nat]
  BY DEF TypeInv, CallsOK
<1>2. /\ now \in Nat /\ lastStopAt \in Nat /\ lastStopAt <= now /\ lastStopAt >= lastStopAt
      /\ \A d \in Callers : since[d] >= since[d]
  BY Ranges
<1>3. CASE Continue(c) \/ Restart(c) \/ Context(c)
  <2>1. UNCHANGED <<now, lastStopAt, pc, since, got, ring>> /\ (orderly' => orderly)
    BY <1>3 DEF Continue, Restart, Context
  <2> QED BY <1>2, <2>1, OnceKept
<1>4. CASE Step(c) \/ Wait(c)
  <2>1. /\ UNCHANGED <<lastStopAt, got, ring>> /\ (orderly' => orderly) /\ now' \in {now, now + 1}
        /\ \E to \in {"stepping", "waiting"}, t \in {lastStopAt, now'} :
               pc' = [pc EXCEPT ![c] = to] /\ since' = [since EXCEPT ![c] = t]
    BY <1>4 DEF Step, Wait, WaitFrom, Tick
  <2>2. \A d \in Callers :
            \/ pc'[d] \in {"stepping", "waiting"} /\ since'[d] \in {lastStopAt, now'}
            \/ pc'[d] = pc[d] /\ since'[d] = since[d]
    BY <1>1, <2>1
  <2> QED BY <1>2, <2>1, <2>2, OnceKept
<1>5. CASE StepTimeout(c) \/ WaitTimeout(c) \/ PauseEnded(c) \/ PauseCancelled(c)
  <2>1. /\ UNCHANGED <<now, lastStopAt, got, since, ring, orderly>>
        /\ pc' = [pc EXCEPT ![c] = "idle"]
    BY <1>5 DEF StepTimeout, WaitTimeout, PauseEnded, PauseCancelled
  <2>2. \A d \in Callers : pc'[d] \in {pc[d], "idle"} /\ "idle" \notin Awaiting
    BY <1>1, <2>1 DEF Awaiting, Starting
  <2> QED BY <1>2, <2>1, <2>2, OnceKept
<1>6. CASE DebugReady(c)
  <2>1. /\ UNCHANGED <<got, since, ring, orderly>> /\ now' = now + 1 /\ lastStopAt' = now'
        /\ pc[c] \in Awaiting
    BY <1>6 DEF DebugReady, Consumed, Tick, Awaiting
  <2>2. PICK to \in {"stepping", "passing", "idle"} : pc' = [pc EXCEPT ![c] = to]
    BY <1>6, ReadyGoes
  <2>3. \A d \in Callers : pc'[d] = pc[d] \/ (pc'[d] = to /\ d = c)
    BY <1>1, <2>2
  <2> QED BY <1>2, <2>1, <2>2, <2>3, OnceKept
<1>7. CASE EntryPassed(c)
  <2>1. /\ UNCHANGED <<now, lastStopAt, got, ring, orderly>> /\ pc[c] \in Awaiting
        /\ pc' = [pc EXCEPT ![c] = "stepping"]
    BY <1>7 DEF EntryPassed, Awaiting
  <2>2. PICK i \in DOMAIN events :
            since' = [since EXCEPT ![c] = events[i].at + 1] /\ events[i].at >= since[c]
    BY <1>7, Yields DEF EntryPassed
  <2>3. events[i].at \in Nat /\ since[c] \in Nat /\ events[i].at + 1 >= since[c]
    BY <2>2, Ranges
  <2>4. \A d \in Callers :
            \/ pc'[d] = pc[d] /\ since'[d] = since[d]
            \/ d = c /\ pc'[d] = "stepping" /\ since'[d] >= since[d]
    BY <1>1, <2>1, <2>2, <2>3
  <2> QED BY <1>2, <2>1, <2>4, OnceKept
<1>8. ASSUME NEW how \in Starting \cup {"pausing"},
             pc' = [pc EXCEPT ![c] = how], since' = [since EXCEPT ![c] = now'],
             UNCHANGED <<lastStopAt, got, orderly, ring>>, now' = now + 1
      PROVE  OnceInv'
  <2>1. \A d \in Callers :
            \/ pc'[d] = how /\ since'[d] = now' /\ how # "received"
            \/ pc'[d] = pc[d] /\ since'[d] = since[d]
    BY <1>1, <1>8 DEF Starting
  <2> QED BY <1>2, <1>8, <2>1, OnceKept
<1>9. ASSUME NEW how \in Starting, DebugStart(c, how) PROVE OnceInv'
  BY <1>8, <1>9 DEF DebugStart, Tick
<1>10. ASSUME NEW told \in BOOLEAN, WaitPause(c, told) PROVE OnceInv'
  BY <1>8, <1>10 DEF WaitPause, Tick
<1> QED BY <1>3, <1>4, <1>5, <1>6, <1>7, <1>9, <1>10

LEMMA OnceWorld ==
    ASSUME TypeInv, TypeInv', AloneInv, OnceInv,
           \/ Hit \/ End \/ Arrives \/ Lost \/ Reconnected
           \/ \E c \in Callers, told \in BOOLEAN, acked \in BOOLEAN : Pause(c, told, acked)
    PROVE  OnceInv'
<1>1. CASE Hit \/ End \/ Arrives
  <2>1. /\ UNCHANGED <<lastStopAt, pc, since, got, orderly>>
        /\ UNCHANGED ring \/ Arrives
        /\ now' \in {now, now + 1}
    BY <1>1 DEF Hit, End, Arrives, Tick, marks, calls
  <2>2. /\ lastStopAt >= lastStopAt /\ now' >= now
        /\ \A d \in Callers : since[d] >= since[d]
    BY <2>1, Ranges
  <2> QED BY <2>1, <2>2, OnceKept
<1>2. CASE ~orderly'
  BY <1>2 DEF OnceInv
<1>3. CASE Lost \/ Reconnected
  BY <1>2, <1>3 DEF Lost, Reconnected, TakesTurn, AloneInv
<1>4. ASSUME NEW c \in Callers, NEW told \in BOOLEAN, NEW acked \in BOOLEAN, Pause(c, told, acked)
      PROVE  OnceInv'
  BY <1>2, <1>4 DEF Pause, TakesTurn
<1> QED BY <1>1, <1>3, <1>4

\* What a call receives was not returned before, ...
LEMMA OnceReceives ==
    ASSUME TypeInv, OnceInv, NEW c \in Callers, WaitReceive(c) \/ PauseReceive(c)
    PROVE  OnceInv'
<1> USE DEF Goes, debuggee, marks, shown, ring
<1>1. PICK i \in DOMAIN events \cup {0} :
          got' = [got EXCEPT ![c] = i] /\ (i # 0 => events[i].at >= since[c] /\ i \in DOMAIN events)
  BY Yields DEF WaitReceive, PauseReceive, Received
<1>2. /\ pc[c] \in {"waiting", "pausing"} /\ pc' = [pc EXCEPT ![c] = "received"]
      /\ UNCHANGED <<events, returned, lastStopAt, since, orderly>>
  BY DEF WaitReceive, PauseReceive
<1>3. orderly /\ i # 0 => returned[i] = 0
  <2>1. i # 0 => /\ i \in DOMAIN returned /\ returned[i] \in Nat
                 /\ events[i].at \in Nat /\ since[c] \in Nat
    BY <1>1, Ranges DEF TypeInv, RingOK
  <2> QED BY <1>1, <1>2, <2>1 DEF OnceInv, Awaiting
<1> QED BY <1>1, <1>2, <1>3 DEF OnceInv, TypeInv, CallsOK, Awaiting, Starting

\* ... and what it returns lies before lastStopAt from then on.
LEMMA OnceReturns ==
    ASSUME TypeInv, AloneInv, OnceInv, NEW c \in Callers, StepDone(c) \/ WaitReturn(c)
    PROVE  OnceInv'
<1> USE DEF Goes, debuggee, Consumed, Tick
<1> SUFFICES ASSUME orderly, orderly' PROVE OnceInv'
  BY DEF OnceInv, StepDone, Awaiting, WaitReturn
<1>1. /\ pc' = [pc EXCEPT ![c] = "idle"] /\ pc[c] # "idle"
      /\ now' = now + 1 /\ lastStopAt' = now + 1 /\ events' = events
  BY DEF StepDone, WaitReturn
<1>2. \A d \in Callers : pc'[d] = "idle"
  BY <1>1 DEF AloneInv, TypeInv, CallsOK
<1>3. PICK i \in DOMAIN events \cup {0} :
          returned' = Returned(i) /\ (i # 0 => returned[i] = 0)
  <2>1. CASE WaitReturn(c)
    BY <2>1 DEF WaitReturn, OnceInv, TypeInv, CallsOK
  <2>2. CASE StepDone(c)
    <3>1. PICK i \in DOMAIN events : returned' = Returned(i) /\ events[i].at >= since[c]
      BY <2>2, Yields DEF StepDone, Received
    <3>2. i \in DOMAIN returned /\ returned[i] \in Nat /\ events[i].at \in Nat /\ since[c] \in Nat
      BY Ranges DEF TypeInv, RingOK
    <3>3. returned[i] = 0
      BY <2>2, <3>1, <3>2 DEF OnceInv, StepDone, Awaiting
    <3> QED BY <3>1, <3>3
  <2> QED BY <2>1, <2>2
<1>4. ASSUME NEW j \in DOMAIN returned', returned'[j] > 0
      PROVE  returned'[j] = 1 /\ events'[j].at < lastStopAt'
  <2>1. j \in DOMAIN returned /\ j \in DOMAIN events
        /\ returned'[j] = IF j = i THEN returned[j] + 1 ELSE returned[j]
    BY <1>3, Counts DEF TypeInv, RingOK
  <2>2. returned'[j] = 1
    <3>1. returned[j] \in Nat
      BY <2>1, Ranges
    <3>3. returned[j] > 0 => returned[j] = 1
      BY <2>1 DEF OnceInv
    <3>2. j = i => returned[j] = 0
      BY <1>3, <2>1 DEF TypeInv, RingOK
    <3> QED BY <1>4, <2>1, <3>1, <3>2, <3>3
  <2> QED BY <1>1, <2>1, <2>2, Ranges
<1> QED BY <1>2, <1>4 DEF OnceInv, Awaiting, Starting

LEMMA OnceStep ==
    ASSUME TypeInv, StartInv, AloneInv, OnceInv, Next
    PROVE  OnceInv'
  BY TypeStep, OnceCalls, OnceReceives, OnceReturns, OnceWorld DEF Next

-----------------------------------------------------------------------------
(* lastStopAt and lastFrameID of a client in turns.                        *)

\* The present stop was resumed from, or another one begins, only if the
\* client was shown it, or it is stray.
Leaves ==
    \/ ~Stopped \/ seen = stops \/ stops \in stray'
    \/ UNCHANGED <<prog, stops, seen>>

\* Without a client in turns there is nothing to show.
LEMMA PastDisorder ==
    ASSUME ~orderly'
    PROVE  PastRing' /\ PastWay' /\ LooksAhead'
  BY DEF PastRing, PastWay, LooksAhead

LEMMA RingKept ==
    ASSUME TypeInv, PastRing, orderly' => orderly, UNCHANGED <<events, lastStopAt>>,
           stray \subseteq stray', orderly' => Leaves
    PROVE  PastRing'
  BY DEF PastRing, Leaves, Stopped

\* Who consumes moves lastStopAt past every event.
LEMMA RingConsumed ==
    ASSUME TypeInv, Consumed, UNCHANGED events
    PROVE  PastRing'
<1>1. now' = now + 1 /\ lastStopAt' = now + 1
  BY DEF Consumed, Tick
<1>2. \A i \in DOMAIN events' : events'[i].at < lastStopAt'
  BY <1>1, Ranges
<1> QED BY <1>2 DEF PastRing

\* What is on its way is of stops already known or resumed from, but for the
\* present one.
LEMMA WayKept ==
    ASSUME TypeInv, Moves, PastWay, orderly' => orderly,
           seen' \in {seen, stops}, stray \subseteq stray',
           \A e \in OnWay' : e \in OnWay \/ e.kind = "term" \/ (e.stop = stops' /\ Stopped'),
           orderly' => \/ ~Stopped \/ seen' = stops \/ stops \in stray' \/ UNCHANGED <<prog, stops>>
    PROVE  PastWay'
<1> SUFFICES ASSUME orderly, orderly', NEW e \in OnWay', e.kind # "term"
             PROVE  e.stop <= seen' \/ e.stop \in stray' \/ (Stopped' /\ e.stop = stops')
  BY DEF PastWay
<1>1. seen \in Nat /\ stops \in Nat /\ seen <= stops
  BY DEF TypeInv, CallsOK, SentOK
<1>2. CASE e.stop = stops' /\ Stopped'
  BY <1>2
<1>3. CASE e \in OnWay
  <2>1. e.stop \in Nat
    <3>1. PICK i \in DOMAIN sent : e = sent[i]
      BY <1>3 DEF OnWay
    <3>2. sent[i] \in Notes
      BY <3>1 DEF TypeInv, SentOK
    <3> QED BY <3>1, <3>2 DEF Notes
  <2>2. CASE e.stop <= seen
    BY <1>1, <2>1, <2>2
  <2>3. CASE e.stop \in stray
    BY <2>3
  <2>4. CASE Stopped /\ e.stop = stops
    BY <1>1, <2>1, <2>4 DEF Stopped
  <2> QED BY <1>3, <2>2, <2>3, <2>4 DEF PastWay
<1> QED BY <1>2, <1>3

\* The calls under way look no further back.
LEMMA LooksKept ==
    ASSUME TypeInv, Moves, LooksAhead, orderly' => orderly, UNCHANGED <<lastStopAt, got>>,
           \A c \in Callers :
               /\ pc'[c] \in {"waiting", "pausing"} =>
                      \/ since'[c] >= lastStopAt
                      \/ since'[c] = since[c] /\ pc[c] \in {"waiting", "pausing"}
               /\ pc'[c] = "received" => pc[c] = "received"
    PROVE  LooksAhead'
<1>1. \A i \in DOMAIN events : events'[i] = events[i]
  BY RingMoves
<1> QED BY <1>1 DEF LooksAhead, TypeInv, CallsOK

\* What becomes of what is on its way when a tool resumes or stops the
\* debuggee, or it ends.
LEMMA WayTurns ==
    ASSUME TypeInv,
           \/ UNCHANGED sent \/ Resumed \/ CoreLoaded \/ End
           \/ \E kind \in StopKinds, told \in BOOLEAN : Stops(kind, told)
    PROVE  \A e \in OnWay' : e \in OnWay \/ e.kind = "term" \/ (e.stop = stops' /\ Stopped')
<1>1. CASE UNCHANGED sent \/ Resumed
  BY <1>1 DEF Resumed, OnWay
<1>2. ASSUME NEW kind \in Kinds, Tells(kind), stops' \in {stops, stops + 1},
             kind = "term" \/ Stopped'
      PROVE  \A e \in OnWay' : e \in OnWay \/ e.kind = "term" \/ (e.stop = stops' /\ Stopped')
  BY <1>2, WayTells DEF TypeInv
<1>3. CASE CoreLoaded \/ End
  BY <1>2, <1>3 DEF CoreLoaded, End, Kinds, StopKinds, Stopped
<1>4. ASSUME NEW kind \in StopKinds, NEW told \in BOOLEAN, Stops(kind, told)
      PROVE  \A e \in OnWay' : e \in OnWay \/ e.kind = "term" \/ (e.stop = stops' /\ Stopped')
  BY <1>1, <1>2, <1>4 DEF Stops, Kinds, Stopped
<1> QED BY <1>1, <1>3, <1>4

\* The three together, for a step that consumes nothing and keeps the ring.
LEMMA PastKept ==
    ASSUME TypeInv, Moves, PastRing, PastWay, LooksAhead, orderly' => orderly,
           UNCHANGED <<events, lastStopAt, seen, got>>, stray \subseteq stray',
           \/ UNCHANGED sent \/ Resumed \/ CoreLoaded \/ End
           \/ \E kind \in StopKinds, told \in BOOLEAN : Stops(kind, told),
           orderly' => Leaves,
           \A c \in Callers :
               /\ pc'[c] \in {"waiting", "pausing"} =>
                      \/ since'[c] >= lastStopAt
                      \/ since'[c] = since[c] /\ pc[c] \in {"waiting", "pausing"}
               /\ pc'[c] = "received" => pc[c] = "received"
    PROVE  PastRing' /\ PastWay' /\ LooksAhead'
<1>1. PastRing'
  BY RingKept
<1>2. \A e \in OnWay' : e \in OnWay \/ e.kind = "term" \/ (e.stop = stops' /\ Stopped')
  BY WayTurns
<1>3. PastWay'
  BY <1>2, WayKept DEF Leaves
<1>4. LooksAhead'
  BY LooksKept
<1> QED BY <1>1, <1>3, <1>4

LEMMA PastArrives ==
    ASSUME TypeInv, Moves, PastRing, PastWay, LooksAhead, Arrives
    PROVE  PastRing' /\ PastWay' /\ LooksAhead'
<1>1. /\ UNCHANGED <<prog, stops, lastStopAt, pc, since, got, seen, orderly>>
      /\ stray \subseteq stray' /\ (Stopped <=> Stopped')
  BY DEF Arrives, marks, calls, Stopped
<1>2. OnWay = OnWay' \cup {Head(sent)}
  BY WayArrives DEF Arrives, TypeInv
<1>3. PastWay'
  BY <1>1, <1>2 DEF PastWay
<1>4. LooksAhead'
  <2>1. \A c \in Callers : since[c] >= lastStopAt \/ ~(since[c] >= lastStopAt)
    OBVIOUS
  <2> QED BY <1>1, <2>1, LooksKept
<1>5. PastRing'
  <2> SUFFICES ASSUME orderly, NEW i \in DOMAIN events', events'[i].kind # "term"
               PROVE  \/ events'[i].at < lastStopAt' \/ events'[i].stop \in stray'
                      \/ Stopped' /\ events'[i].stop = stops' /\ seen' # stops'
    BY <1>1 DEF PastRing
  <2>1. CASE i \in DOMAIN events
    BY <1>1, <2>1, RingGrows DEF PastRing
  <2>2. CASE i = Len(events) + 1
    <3>1. events'[i].kind = Head(sent).kind /\ events'[i].stop = Head(sent).stop
      BY <2>2, RingGrows
    <3>2. Head(sent).kind \in StopKinds
      <4>1. Head(sent).kind \in Kinds
        BY WayArrives DEF Arrives, TypeInv, Notes
      <4> QED BY <3>1, <4>1 DEF Kinds
    <3>3. CASE Head(sent).stop <= seen
      BY <3>1, <3>2, <3>3 DEF Arrives
    <3>4. CASE ~(Head(sent).stop <= seen)
      <4>1. Head(sent).stop \in stray \/ (Stopped /\ Head(sent).stop = stops)
        BY <1>2, <3>1, <3>4 DEF PastWay
      <4>2. CASE Stopped /\ Head(sent).stop = stops /\ seen = stops
        BY <3>4, <4>2 DEF TypeInv, SentOK
      <4> QED BY <1>1, <3>1, <4>1, <4>2
    <3> QED BY <3>3, <3>4
  <2> QED BY <2>1, <2>2, RingGrows
<1> QED BY <1>3, <1>4, <1>5

LEMMA PastConsumes ==
    ASSUME TypeInv, Moves, AloneInv, PastWay, NEW c \in Callers,
           DebugReady(c) \/ StepDone(c) \/ WaitReturn(c)
    PROVE  PastRing' /\ PastWay' /\ LooksAhead'
<1> USE DEF Goes, debuggee, ring
<1> SUFFICES ASSUME orderly, orderly' PROVE PastRing' /\ PastWay' /\ LooksAhead'
  BY PastDisorder DEF DebugReady, StepDone, WaitReturn
<1>1. /\ Consumed /\ UNCHANGED <<events, sent, prog, stops, stray>> /\ seen' \in {seen, stops}
      /\ pc[c] # "idle"
  BY DEF DebugReady, StepDone, WaitReturn, ShowsContext, Starting
<1>2. PastRing'
  BY <1>1, RingConsumed
<1>3. PastWay'
  <2>1. \A e \in OnWay' : e \in OnWay
    BY <1>1 DEF OnWay
  <2> QED BY <1>1, <2>1, WayKept
<1>4. \E to \in {"stepping", "passing", "idle"} : pc' = [pc EXCEPT ![c] = to]
  BY ReadyGoes DEF StepDone, WaitReturn
<1>5. \A d \in Callers : pc'[d] \in {"stepping", "passing", "idle"}
  BY <1>1, <1>4 DEF AloneInv, TypeInv, CallsOK
<1> QED BY <1>2, <1>3, <1>5 DEF LooksAhead

LEMMA PastReceives ==
    ASSUME TypeInv, Moves, PastRing, PastWay, LooksAhead, NEW c \in Callers,
           WaitReceive(c) \/ PauseReceive(c)
    PROVE  PastRing' /\ PastWay' /\ LooksAhead'
<1> USE DEF Goes, debuggee, ring, marks, shown
<1>1. PICK i \in DOMAIN events \cup {0} :
          got' = [got EXCEPT ![c] = i] /\ (i # 0 => events[i].at >= since[c] /\ i \in DOMAIN events)
  BY Yields DEF WaitReceive, PauseReceive, Received
<1>2. /\ pc[c] \in {"waiting", "pausing"} /\ pc' = [pc EXCEPT ![c] = "received"]
      /\ UNCHANGED <<events, sent, prog, stops, seen, stray, lastStopAt, since, orderly>>
  BY DEF WaitReceive, PauseReceive
<1>3. PastRing' /\ PastWay'
  BY <1>2 DEF PastRing, PastWay, Stopped, OnWay
<1>4. orderly /\ i # 0 => events[i].at >= lastStopAt
  <2>1. i # 0 => events[i].at \in Nat /\ since[c] \in Nat /\ lastStopAt \in Nat
    BY <1>1, Ranges
  <2>2. orderly => since[c] >= lastStopAt
    BY <1>2 DEF LooksAhead
  <2> QED BY <1>1, <2>1, <2>2
<1>5. LooksAhead'
  <2>1. \A d \in Callers : d # c => pc'[d] = pc[d] /\ got'[d] = got[d]
    BY <1>1, <1>2 DEF TypeInv, CallsOK
  <2>2. pc'[c] = "received" /\ got'[c] = i
    BY <1>1, <1>2 DEF TypeInv, CallsOK
  <2> QED BY <1>2, <1>4, <2>1, <2>2 DEF LooksAhead
<1> QED BY <1>3, <1>5

LEMMA PastContext ==
    ASSUME TypeInv, Moves, PastRing, PastWay, LooksAhead, NEW c \in Callers, Context(c)
    PROVE  PastRing' /\ PastWay' /\ LooksAhead'
<1> SUFFICES ASSUME orderly, orderly' PROVE PastRing' /\ PastWay' /\ LooksAhead'
  BY PastDisorder DEF Context, TakesTurn
<1>1. /\ UNCHANGED <<events, sent, prog, stops, stray, lastStopAt, pc, since, got>>
      /\ seen' = stops /\ (seen = stops \/ ~Findable(stops))
  BY DEF Context, TakesTurn, debuggee, ring, calls
<1>2. PastWay'
  <2>1. \A e \in OnWay' : e \in OnWay
    BY <1>1 DEF OnWay
  <2> QED BY <1>1, <2>1, WayKept
<1>3. LooksAhead'
  BY <1>1 DEF LooksAhead
<1>4. CASE seen = stops
  BY <1>1, <1>2, <1>3, <1>4, RingKept DEF Leaves
<1>5. CASE ~Findable(stops)
  <2>1. ASSUME NEW i \in DOMAIN events, events[i].kind # "term", events[i].stop = stops
        PROVE  events[i].at < lastStopAt
    <3>1. events[i].kind \in StopKinds /\ events[i].at \in Nat /\ lastStopAt \in Nat
      <4>1. events[i] \in Entries
        BY <2>1 DEF TypeInv, RingOK
      <4> QED BY <2>1, <4>1, Ranges DEF Entries, Kinds
    <3>2. ~(events[i].at >= lastStopAt)
      BY <1>5, <2>1, <3>1 DEF Findable, Told, WaitFrom
    <3> QED BY <3>1, <3>2
  <2>2. PastRing'
    BY <1>1, <2>1 DEF PastRing
  <2> QED BY <1>2, <1>3, <2>2
<1> QED BY <1>1, <1>4, <1>5

LEMMA PastMoves ==
    ASSUME TypeInv, Moves, StartInv, PastRing, PastWay, LooksAhead, NEW c \in Callers,
           \/ Continue(c) \/ Restart(c) \/ Step(c) \/ EntryPassed(c) \/ Wait(c)
           \/ StepTimeout(c) \/ WaitTimeout(c) \/ PauseEnded(c) \/ PauseCancelled(c)
           \/ \E how \in Starting : DebugStart(c, how)
           \/ \E told \in BOOLEAN : WaitPause(c, told)
    PROVE  PastRing' /\ PastWay' /\ LooksAhead'
<1> USE DEF Goes, calls, marks, shown, debuggee, ring, TakesTurn
<1>1. pc \in [Callers -> Places] /\ since \in [Callers -> Nat]
  BY DEF TypeInv, CallsOK
<1>2. lastStopAt \in Nat /\ now \in Nat /\ lastStopAt <= now
  BY Ranges
<1>3. CASE Continue(c) \/ Restart(c)
  <2>1. UNCHANGED <<events, lastStopAt, seen, got, stray, pc, since>>
    BY <1>3 DEF Continue, Restart
  <2>2. Resumed \/ Stops("stop", TRUE)
    BY <1>3 DEF Continue, Restart
  <2>3. orderly' => orderly /\ seen = stops
    BY <1>3 DEF Continue, Restart, ResumesShown
  <2> QED BY <2>1, <2>2, <2>3, PastKept DEF Leaves, StopKinds
<1>4. CASE Step(c)
  <2>1. /\ UNCHANGED <<events, lastStopAt, seen, got, stray>> /\ Resumed
        /\ pc' = [pc EXCEPT ![c] = "stepping"] /\ since' = [since EXCEPT ![c] = now']
    BY <1>4 DEF Step
  <2>2. orderly' => orderly /\ seen = stops
    BY <1>4 DEF Step, ResumesShown
  <2>3. \A d \in Callers : (pc'[d] = pc[d] /\ since'[d] = since[d]) \/ pc'[d] = "stepping"
    BY <1>1, <2>1
  <2> QED BY <2>1, <2>2, <2>3, PastKept DEF Leaves
<1>5. CASE EntryPassed(c)
  <2>1. /\ UNCHANGED <<events, lastStopAt, seen, got, orderly>>
        /\ Resumed \/ UNCHANGED sent
        /\ pc' = [pc EXCEPT ![c] = "stepping"] /\ stray' = stray \cup {stops}
        /\ \A d \in Callers : d # c => since'[d] = since[d]
    BY <1>1, <1>5 DEF EntryPassed
  <2>2. \A d \in Callers : (pc'[d] = pc[d] /\ since'[d] = since[d]) \/ pc'[d] = "stepping"
    BY <1>1, <2>1
  <2> QED BY <2>1, <2>2, PastKept DEF Leaves
<1>6. CASE Wait(c)
  <2>1. /\ UNCHANGED <<events, sent, prog, stops, lastStopAt, seen, got, stray>>
        /\ pc' = [pc EXCEPT ![c] = "waiting"] /\ since' = [since EXCEPT ![c] = lastStopAt]
        /\ orderly' => orderly
    BY <1>6 DEF Wait, WaitFrom
  <2>2. \A d \in Callers : \/ pc'[d] = pc[d] /\ since'[d] = since[d]
                           \/ pc'[d] = "waiting" /\ since'[d] = lastStopAt
    BY <1>1, <2>1
  <2>3. lastStopAt >= lastStopAt
    BY <1>2
  <2> QED BY <2>1, <2>2, <2>3, PastKept DEF Leaves
<1>7. CASE StepTimeout(c) \/ WaitTimeout(c) \/ PauseEnded(c) \/ PauseCancelled(c)
  <2>1. /\ UNCHANGED <<events, sent, prog, stops, lastStopAt, seen, got, stray, since, orderly>>
        /\ pc' = [pc EXCEPT ![c] = "idle"]
    BY <1>7 DEF StepTimeout, WaitTimeout, PauseEnded, PauseCancelled
  <2>2. \A d \in Callers : pc'[d] \in {pc[d], "idle"}
    BY <1>1, <2>1
  <2> QED BY <2>1, <2>2, PastKept DEF Leaves
<1>8. ASSUME NEW how \in Starting, DebugStart(c, how) PROVE PastRing' /\ PastWay' /\ LooksAhead'
  <2>1. /\ UNCHANGED <<events, lastStopAt, seen, got, stray, orderly>> /\ prog = "none"
        /\ pc' = [pc EXCEPT ![c] = how] /\ how \notin {"waiting", "pausing", "received"}
        /\ Resumed \/ CoreLoaded \/ Stops("entry", TRUE)
        /\ \A d \in Callers : d # c => since'[d] = since[d]
    BY <1>1, <1>8 DEF DebugStart, Starting
  <2>2. \A d \in Callers : (pc'[d] = pc[d] /\ since'[d] = since[d]) \/ pc'[d] = how
    BY <1>1, <2>1
  <2> QED BY <2>1, <2>2, PastKept DEF Leaves, Stopped, StopKinds
<1>9. ASSUME NEW told \in BOOLEAN, WaitPause(c, told) PROVE PastRing' /\ PastWay' /\ LooksAhead'
  <2>1. /\ UNCHANGED <<events, lastStopAt, seen, got, stray, orderly>> /\ now' = now + 1
        /\ pc' = [pc EXCEPT ![c] = "pausing"] /\ since' = [since EXCEPT ![c] = now']
        /\ IF prog = "running" THEN Stops("stop", told) ELSE UNCHANGED <<sent, prog, stops>>
    BY <1>9 DEF WaitPause, Tick
  <2>2. \A d \in Callers : \/ pc'[d] = pc[d] /\ since'[d] = since[d]
                           \/ pc'[d] = "pausing" /\ since'[d] >= lastStopAt
    BY <1>1, <1>2, <2>1
  <2>3. /\ Leaves
        /\ UNCHANGED sent \/ \E kind \in StopKinds : Stops(kind, told)
    BY <2>1 DEF Leaves, Stopped, StopKinds
  <2> QED BY <2>1, <2>2, <2>3, PastKept
<1> QED BY <1>3, <1>4, <1>5, <1>6, <1>7, <1>8, <1>9

LEMMA PastStep ==
    ASSUME TypeInv, StartInv, AloneInv, PastRing, PastWay, LooksAhead, Next
    PROVE  PastRing' /\ PastWay' /\ LooksAhead'
<1> USE DEF calls, marks, shown, ring, TakesTurn
<1>1. Moves
  BY TypeStep
<1>2. CASE Hit \/ End
  <2>1. UNCHANGED <<events, lastStopAt, seen, got, stray, orderly, pc, since>> /\ ~Stopped
    BY <1>2 DEF Hit, End, Stopped
  <2>2. End \/ Stops("stop", TRUE)
    BY <1>2 DEF Hit
  <2> QED BY <1>1, <2>1, <2>2, PastKept DEF Leaves, StopKinds
<1>3. CASE Lost \/ Reconnected
  <2>1. ~orderly'
    BY <1>3 DEF Lost, Reconnected, AloneInv
  <2> QED BY <2>1, PastDisorder
<1>4. ASSUME NEW c \in Callers, NEW told \in BOOLEAN, NEW acked \in BOOLEAN, Pause(c, told, acked)
      PROVE  PastRing' /\ PastWay' /\ LooksAhead'
  BY <1>4, PastDisorder DEF Pause
<1> QED BY <1>1, <1>2, <1>3, <1>4, PastArrives, PastConsumes, PastReceives, PastContext, PastMoves
        DEF Next

LEMMA FrameStep ==
    ASSUME TypeInv, StartInv, FrameIsShown, Next
    PROVE  FrameIsShown'
<1> USE DEF marks, shown, TakesTurn, FrameIsShown
<1>1. ASSUME UNCHANGED seen,
             \/ CoreLoaded
             \/ \E kind \in StopKinds, told \in BOOLEAN : Stops(kind, told)
      PROVE  FrameIsShown'
  BY <1>1 DEF Stops, CoreLoaded, TypeInv, CallsOK, SentOK
<1>2. ASSUME prog' \in {"running", "ended"} PROVE FrameIsShown'
  BY <1>2 DEF Stopped
<1>3. ASSUME UNCHANGED <<prog, stops, seen, frame>>, orderly' => orderly PROVE FrameIsShown'
  BY <1>3 DEF Stopped
<1>4. ASSUME ShowsContext \/ UNCHANGED <<seen, frame>>, UNCHANGED <<prog, stops, orderly>>
      PROVE  FrameIsShown'
  BY <1>4 DEF ShowsContext, FrameShown, Stopped
<1>5. CASE Hit \/ End \/ Arrives
  BY <1>1, <1>2, <1>3, <1>5 DEF Hit, End, Arrives, StopKinds
<1>6. CASE Lost
  BY <1>6 DEF Lost
<1>7. CASE Reconnected
  BY <1>7 DEF Reconnected, AfterReinit
<1>8. ASSUME NEW c \in Callers, NEW how \in Starting, DebugStart(c, how) PROVE FrameIsShown'
  BY <1>1, <1>2, <1>8 DEF DebugStart, Resumed, StopKinds
<1>9. ASSUME NEW c \in Callers, DebugReady(c) PROVE FrameIsShown'
  BY <1>9 DEF DebugReady, StartInv
<1>10. ASSUME NEW c \in Callers, EntryPassed(c) PROVE FrameIsShown'
  BY <1>2, <1>3, <1>10 DEF EntryPassed, Resumed, debuggee
<1>11. ASSUME NEW c \in Callers, Continue(c) \/ Restart(c) \/ Step(c) PROVE FrameIsShown'
  BY <1>1, <1>2, <1>11 DEF Continue, Restart, Step, Resumed, StopKinds
<1>12. ASSUME NEW c \in Callers, StepDone(c) \/ WaitReturn(c) PROVE FrameIsShown'
  BY <1>4, <1>12 DEF StepDone, WaitReturn, debuggee
<1>13. ASSUME NEW c \in Callers, Context(c) PROVE FrameIsShown'
  BY <1>13 DEF Context, FrameShown, debuggee
<1>14. ASSUME NEW c \in Callers,
              \/ StepTimeout(c) \/ WaitTimeout(c) \/ PauseEnded(c) \/ PauseCancelled(c)
              \/ Wait(c) \/ WaitReceive(c) \/ PauseReceive(c)
       PROVE  FrameIsShown'
  <2>1. UNCHANGED <<prog, stops, seen, frame>> /\ (orderly' => orderly)
    <3>1. CASE StepTimeout(c) \/ WaitTimeout(c) \/ PauseEnded(c) \/ PauseCancelled(c)
      BY <3>1 DEF StepTimeout, WaitTimeout, PauseEnded, PauseCancelled, debuggee
    <3>2. CASE WaitReceive(c) \/ PauseReceive(c)
      BY <3>2 DEF WaitReceive, PauseReceive, debuggee
    <3>3. CASE Wait(c)
      <4>1. UNCHANGED <<prog, stops, seen, frame>>
        BY <3>3 DEF Wait, debuggee
      <4> QED BY <3>3, <4>1 DEF Wait
    <3> QED BY <1>14, <3>1, <3>2, <3>3
  <2> QED BY <1>3, <2>1
<1>15. ASSUME NEW c \in Callers, NEW told \in BOOLEAN, WaitPause(c, told) PROVE FrameIsShown'
  BY <1>1, <1>3, <1>15 DEF WaitPause, debuggee, StopKinds
<1>16. ASSUME NEW c \in Callers, NEW told \in BOOLEAN, NEW acked \in BOOLEAN,
              Pause(c, told, acked)
       PROVE  FrameIsShown'
  BY <1>16 DEF Pause
<1> QED BY <1>5, <1>6, <1>7, <1>8, <1>9, <1>10, <1>11, <1>12, <1>13, <1>14, <1>15, <1>16 DEF Next

-----------------------------------------------------------------------------
(* The theorems.                                                           *)

LEMMA TypeInvOK == TypeInv => TypeOK
<1> SUFFICES ASSUME TypeInv PROVE TypeOK
  OBVIOUS
<1>1. \A i \in DOMAIN sent : sent[i].stop <= stops
  BY DEF TypeInv, SentOK, OnWay
<1> QED BY <1>1 DEF TypeInv, SentOK, RingOK, CallsOK, Places, Progs, TypeOK

LEMMA InitInv == Init => IInv
<1> SUFFICES ASSUME Init PROVE IInv
  OBVIOUS
<1>1. OnWay = {} /\ ~Stopped
  BY DEF Init, OnWay, Stopped
<1>2. TypeInv
  BY <1>1 DEF Init, TypeInv, SentOK, RingOK, CallsOK, Places, Progs
<1> QED BY <1>1, <1>2 DEF Init, IInv, StartInv, EndInv, MissInv, AloneInv, OnceInv, Awaiting,
        PastRing, PastWay, LooksAhead, FrameIsShown, Starting

LEMMA StepInv == IInv /\ [Next]_vars => IInv'
<1> SUFFICES ASSUME IInv, [Next]_vars PROVE IInv'
  OBVIOUS
<1>1. CASE Next
  BY <1>1, TypeStep, StartStep, EndStep, MissStep, AloneStep, OnceStep, PastStep, FrameStep
     DEF IInv
<1>2. CASE UNCHANGED vars
  <2> USE <1>2 DEF vars, debuggee, ring, calls, marks, shown, IInv, OnWay
  <2>1. TypeInv'
    BY DEF TypeInv, SentOK, RingOK, CallsOK
  <2>2. StartInv' /\ EndInv' /\ MissInv' /\ AloneInv'
    BY DEF StartInv, EndInv, MissInv, AloneInv, Told, Coming
  <2>3. OnceInv' /\ PastRing' /\ PastWay' /\ LooksAhead' /\ FrameIsShown'
    BY DEF OnceInv, PastRing, PastWay, LooksAhead, FrameIsShown, Stopped
  <2> QED BY <2>1, <2>2, <2>3
<1> QED BY <1>1, <1>2

LEMMA IInvAlways == Spec => []IInv
<1> QED BY InitInv, StepInv, PTL DEF Spec

\* The tracking state is well typed and lastStopAt never ahead of the clock,
\* for any number of callers and readings of the clock (tools.go:18-37).
THEOREM Typing == Spec => []TypeOK
<1>1. IInv => TypeOK
  BY TypeInvOK DEF IInv
<1> QED BY <1>1, IInvAlways, PTL

\* However calls overlap, fail, time out, pause and reconnect, and whenever
\* events come, a stop nobody was shown can be found by the next
\* wait-for-stop, but for the causes that NothingMissed lists (lastStopAt,
\* tools.go:32-37).
THEOREM NoStopIsMissed == Spec => []NothingMissed
<1>1. IInv => NothingMissed
  BY DEF IInv, MissInv, NothingMissed, Findable, WaitFrom
<1> QED BY <1>1, IInvAlways, PTL

\* The handlers advance lastStopAt past whatever they return, so a client in
\* turns gets no event twice.
THEOREM EventsAreReturnedOnce == Spec => []NotTwice
<1>1. IInv => NotTwice
  <2>1. ASSUME IInv, orderly, NEW i \in DOMAIN returned PROVE returned[i] <= 1
    <3>1. returned[i] \in Nat
      BY <2>1, Ranges DEF IInv
    <3>2. returned[i] > 0 => returned[i] = 1
      BY <2>1 DEF IInv, OnceInv
    <3> QED BY <3>1, <3>2
  <2> QED BY <2>1 DEF NotTwice
<1> QED BY <1>1, IInvAlways, PTL

\* wait-for-stop reports to a client in turns the stop at which the debuggee
\* is, however late events come; only of a stop the client knew before its
\* event, and of the entry debug went past, the event may be out of date.
THEOREM ReportedStopIsCurrent == Spec => StopIsCurrent
<1>1. IInv /\ [Next]_vars =>
          [\A c \in Callers :
               orderly /\ WaitReturn(c) /\ got[c] # 0 /\ events[got[c]].kind # "term" =>
                   \/ Stopped /\ events[got[c]].stop = stops
                   \/ events[got[c]].stop \in stray]_vars
  <2>1. ASSUME IInv, NEW c \in Callers, orderly, WaitReturn(c), got[c] # 0,
               events[got[c]].kind # "term"
        PROVE  \/ Stopped /\ events[got[c]].stop = stops
               \/ events[got[c]].stop \in stray
    <3>1. got[c] \in DOMAIN events /\ events[got[c]].at >= lastStopAt
      BY <2>1 DEF IInv, TypeInv, CallsOK, LooksAhead, WaitReturn
    <3>2. ~(events[got[c]].at < lastStopAt)
      BY <2>1, <3>1, Ranges DEF IInv
    <3> QED BY <2>1, <3>1, <3>2 DEF IInv, PastRing
  <2> QED BY <2>1
<1> QED BY <1>1, IInvAlways, PTL DEF Spec, StopIsCurrent

\* evaluate works in a frame of the stop that a client in turns was shown.
THEOREM FrameOfShownStop == Spec => []FrameIsShown
<1>1. IInv => FrameIsShown
  BY DEF IInv
<1> QED BY <1>1, IInvAlways, PTL
=============================================================================
