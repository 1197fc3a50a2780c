---------------------------- MODULE StopTracking ----------------------------
(***************************************************************************)
(* How the tool handlers of tools.go follow the debuggee: continue, step,  *)
(* pause, wait-for-stop, context, restart and debug, the StoppedEvents in  *)
(* the replay ring, ds.lastStopAt, the time from which wait-for-stop looks *)
(* for a stop, and ds.lastFrameID, the frame in which evaluate works.      *)
(* A stop and its event are two things: the event comes later, over the    *)
(* connection, and may be lost with it.  Time is a counter that every      *)
(* event received and every time.Now() advances.  The event bus is taken   *)
(* at its word here: a subscription yields the events of its type since    *)
(* its time, in order (EventBus says when it does not).                    *)
(***************************************************************************)
EXTENDS Naturals, Sequences

CONSTANTS
    Callers,        \* MCP clients' concurrent tool calls
    NoOne,          \* ds.mu is free
    MaxTurns,       \* bound: readings of the clock, of a client in turns
    MaxTime,        \* bound: readings of the clock when calls overlap
    MaxStops        \* bound: how often the debuggee stops

ASSUME TimeAssumption == {MaxTurns, MaxTime, MaxStops} \subseteq Nat
ASSUME CallerAssumption == NoOne \notin Callers

VARIABLES
    now,        \* the clock
    connected,  \* the connection to the adapter stands
    sent,       \* the adapter's events on their way: what, and of which stop
    events,     \* the replay ring: also when each came
    prog,       \* the debuggee: "none", "running", "stopped", "ended", "core"
    stops,      \* how often it has stopped
    lastStopAt, \* ds.lastStopAt
    frame,      \* the stop to which ds.lastFrameID belongs, or 0 for -1
    mu,         \* holder of ds.mu across a step of the debuggee
    pc, since,  \* per caller: where it is, the since of its subscription
    got,        \* per caller: the event it received, or 0
    \* history
    seen,       \* the last stop whose context a client was shown
    returned,   \* per event: how often a handler returned it
    missed,     \* per cause: the last stop that may go unnoticed for it
    stray,      \* stops left behind before lastStopAt was past their event
    orderly     \* so far one client took turns: see TakesTurn

debuggee == <<sent, prog, stops>>
ring == <<events, returned>>
calls == <<pc, since, got>>
marks == <<lastStopAt, frame>>
shown == <<seen, missed, stray>>
vars == <<now, connected, debuggee, ring, marks, mu, calls, shown, orderly>>

\* Why the client may not learn of a stop: its event came before debug set
\* lastStopAt, or was lost with the connection; its event was consumed and
\* then its context could not be read, which is an error; a pause ended
\* without a result.
Causes == {"early", "lost", "unread", "pause"}

Init ==
    /\ now = 0 /\ connected = TRUE /\ sent = <<>> /\ events = <<>>
    /\ prog = "none" /\ stops = 0
    /\ lastStopAt = 0 /\ frame = 0 /\ mu = NoOne
    /\ pc = [c \in Callers |-> "idle"]
    /\ since = [c \in Callers |-> 0] /\ got = [c \in Callers |-> 0]
    /\ seen = 0 /\ returned = <<>> /\ missed = [k \in Causes |-> 0] /\ stray = {}
    /\ orderly = TRUE

-----------------------------------------------------------------------------
\* time.Now(), and the arrival of an event, one tick later than all before.
Tick == now < (IF orderly THEN MaxTurns ELSE MaxTime) /\ now' = now + 1

Goes(c, where) == pc' = [pc EXCEPT ![c] = where]

\* Reasons of a stop.
StopKinds == {"entry", "stop"}

\* The adapter tells of the present stop, or that the debuggee ended, if the
\* connection stands.
Tells(kind) ==
    sent' = IF connected THEN Append(sent, [kind |-> kind, stop |-> stops']) ELSE sent

\* The debuggee stops; the adapter tells it, or not (dlv v1.25).
Stops(kind, told) ==
    /\ stops < MaxStops
    /\ prog' = "stopped" /\ stops' = stops + 1
    /\ IF told THEN Tells(kind) ELSE UNCHANGED sent

Stopped == prog \in {"stopped", "core"}

\* A core dump is at the crash and never runs; the adapter tells it as a stop.
CoreLoaded == prog' = "core" /\ stops' = stops + 1 /\ Tells("stop")

Resumed == prog' = "running" /\ UNCHANGED <<sent, stops>>

\* The event of stop n is on its way, or came since a time.
Coming(n) == \E i \in DOMAIN sent : sent[i].stop = n /\ sent[i].kind \in StopKinds
Told(n, from) ==
    \E i \in DOMAIN events :
        events[i].stop = n /\ events[i].kind \in StopKinds /\ events[i].at >= from

\* What a subscription of the kinds yields first.
Pending(kinds, t) == {i \in DOMAIN events : events[i].kind \in kinds /\ events[i].at >= t}
First(kinds, t) ==
    {i \in Pending(kinds, t) : \A j \in Pending(kinds, t) : i <= j}

\* awaitStopOrTerminate: one of the types that have something to receive.
Received(c) == First(StopKinds, since[c]) \cup First({"term"}, since[c])

\* MUTANT of Consumed: lastStopAt is not advanced.
ConsumedInPlace == Tick /\ UNCHANGED lastStopAt

\* MUTANT of Consumed: lastStopAt lies a tick ahead of the clock.
ConsumedAhead == Tick /\ lastStopAt' = now' + 1

\* Every handler that consumed a stop sets lastStopAt to the present, ...
Consumed == Tick /\ lastStopAt' = now'

\* MUTANT of FrameShown: only an unset lastFrameID is replaced.
FrameShownFirst == IF frame = 0 THEN stops ELSE frame

\* getFullContext sets ds.lastFrameID once the adapter has told the stack.
FrameShown == stops

\* ... and then shows the client where the debuggee is, unless the adapter
\* refuses the stack, as it does while the debuggee runs, the connection is
\* lost or the caller gives up: an error.
ShowsContext ==
    \/ /\ Stopped /\ connected
       /\ seen' = stops /\ frame' = FrameShown /\ UNCHANGED missed
    \/ /\ missed' = IF Stopped THEN [missed EXCEPT !["unread"] = stops] ELSE missed
       /\ UNCHANGED <<seen, frame>>

Returned(i) == IF i = 0 THEN returned ELSE [returned EXCEPT ![i] = @ + 1]

-----------------------------------------------------------------------------
(* The debuggee, its adapter and the connection.                           *)

\* How debug starts: attached; stopped at the entry, to stay or to go on to
\* an initial breakpoint; running there directly; at the end of a core dump.
Starting == {"attaching", "entry", "entryOn", "direct", "core"}

\* A breakpoint is hit.
Hit ==
    /\ prog = "running"
    /\ Stops("stop", TRUE)
    /\ missed' = IF connected THEN missed ELSE [missed EXCEPT !["lost"] = stops']
    /\ UNCHANGED <<now, connected, ring, marks, mu, calls, seen, stray, orderly>>

End ==
    /\ prog = "running"
    /\ prog' = "ended" /\ UNCHANGED stops
    /\ Tells("term")
    /\ UNCHANGED <<now, connected, ring, marks, mu, calls, shown, orderly>>

\* readLoop dispatches the next event, perhaps before debug has set lastStopAt
\* or when the client knows of the stop already.
Arrives ==
    /\ sent # <<>> /\ Tick
    /\ sent' = Tail(sent)
    /\ events' = Append(events, [at |-> now', kind |-> Head(sent).kind,
                                 stop |-> Head(sent).stop])
    /\ returned' = Append(returned, 0)
    /\ missed' = IF \E c \in Callers : pc[c] \in Starting
                 THEN [missed EXCEPT !["early"] = stops] ELSE missed
    /\ stray' = IF Head(sent).kind \in StopKinds /\ Head(sent).stop <= seen
                THEN stray \cup {Head(sent).stop} ELSE stray
    /\ UNCHANGED <<connected, prog, stops, marks, mu, calls, seen, orderly>>

-----------------------------------------------------------------------------
(* debug.                                                                  *)

\* In these it returns only when the debuggee has stopped.
Waits == {"entryOn", "direct", "core"}

\* Launch or attach, and configurationDone.
DebugStart(c, how) ==
    /\ prog = "none" /\ mu = NoOne /\ pc[c] = "idle"
    /\ Tick
    /\ mu' = c
    /\ since' = [since EXCEPT ![c] = now']
    /\ Goes(c, how)
    /\ \/ how \in {"attaching", "direct"} /\ Resumed
       \/ how \in {"entry", "entryOn"} /\ Stops("entry", TRUE)
       \/ how = "core" /\ CoreLoaded
    /\ UNCHANGED <<connected, ring, marks, got, shown, orderly>>

\* lastStopAt marks the start of the session, whether or not the event of the
\* entry has come; the tools are registered.  Then debug tells that the
\* debuggee runs, or is at its entry; or it waits.
DebugReady(c) ==
    /\ pc[c] \in Starting
    /\ Consumed
    /\ seen' = IF pc[c] = "entry" THEN stops ELSE seen
    /\ IF pc[c] \in Waits
       THEN Goes(c, IF pc[c] = "entryOn" THEN "passing" ELSE "stepping") /\ UNCHANGED mu
       ELSE Goes(c, "idle") /\ mu' = NoOne
    /\ UNCHANGED <<connected, debuggee, ring, frame, since, got, missed, stray, orderly>>

\* The waitLoop of debug continues past the entry, ignores the answer, and
\* reads on.
EntryPassed(c) ==
    /\ pc[c] = "passing"
    /\ \E i \in First(StopKinds, since[c]) : since' = [since EXCEPT ![c] = events[i].at + 1]
    /\ Goes(c, "stepping")
    /\ Resumed \/ UNCHANGED debuggee
    /\ stray' = stray \cup {stops}
    /\ UNCHANGED <<now, connected, ring, marks, mu, got, seen, missed, orderly>>

-----------------------------------------------------------------------------
(* The session tools.                                                      *)

\* MUTANT of WaitFrom: since=time.Now(), as before v0.2.3.
WaitFromNow == now + 1

\* wait-for-stop looks since the last consumed stop.
WaitFrom == lastStopAt

\* The next wait-for-stop finds stop n, now or when its event comes.
Findable(n) == Told(n, WaitFrom) \/ Coming(n)

\* An orderly client calls one tool at a time, does not use pause, and resumes
\* only a stop it was shown, which is not first by context while wait-for-stop
\* will report it; nor does it lose its connection.
TakesTurn(ok) ==
    /\ orderly' = (orderly /\ ok /\ \A c \in Callers : pc[c] = "idle")
    /\ orderly' \/ now < MaxTime

MayCall(c) == prog # "none" /\ mu = NoOne /\ pc[c] = "idle"
ResumesShown == prog = "stopped" /\ seen = stops

\* continue returns at once; it does not touch lastStopAt or lastFrameID.
Continue(c) ==
    /\ MayCall(c) /\ connected /\ TakesTurn(ResumesShown)
    /\ prog \in {"running", "stopped"}
    /\ Resumed
    /\ UNCHANGED <<now, connected, ring, marks, mu, calls, shown>>

\* Nor does restart: the debuggee runs from its start or stops there.  (An
\* adapter whose debuggee has ended is taken to refuse it.)
Restart(c) ==
    /\ MayCall(c) /\ connected /\ TakesTurn(ResumesShown)
    /\ prog \in {"running", "stopped"}
    /\ Resumed \/ Stops("stop", TRUE)
    /\ UNCHANGED <<now, connected, ring, marks, mu, calls, shown>>

\* step keeps ds.mu until an event comes, the connection is lost, or the time
\* is up.
Step(c) ==
    /\ MayCall(c) /\ connected /\ TakesTurn(ResumesShown)
    /\ prog = "stopped" /\ Tick
    /\ mu' = c
    /\ since' = [since EXCEPT ![c] = now']
    /\ Goes(c, "stepping") /\ Resumed
    /\ UNCHANGED <<connected, ring, marks, got, shown>>

StepDone(c) ==
    /\ pc[c] = "stepping"
    /\ \E i \in Received(c) : returned' = Returned(i)
    /\ Consumed
    /\ ShowsContext
    /\ mu' = NoOne /\ Goes(c, "idle")
    /\ UNCHANGED <<connected, debuggee, events, since, got, stray, orderly>>

\* The time of step is up, or the caller of debug gives up.
StepTimeout(c) ==
    /\ pc[c] \in {"passing", "stepping"}
    /\ mu' = NoOne /\ Goes(c, "idle")
    /\ UNCHANGED <<now, connected, debuggee, ring, marks, since, got, shown, orderly>>

\* pause acknowledges and consumes nothing; the caller may give up before
\* the acknowledgement.
Pause(c, told, acked) ==
    /\ MayCall(c) /\ connected /\ TakesTurn(FALSE)
    /\ prog = "running"
    /\ Stops("stop", told)
    /\ IF acked THEN seen' = stops' /\ UNCHANGED missed
                ELSE missed' = [missed EXCEPT !["pause"] = stops'] /\ UNCHANGED seen
    /\ UNCHANGED <<now, connected, ring, marks, mu, calls, stray>>

\* context shows the present stop and consumes nothing: a wait-for-stop called
\* next, perhaps after a continue, still reports it.
Context(c) ==
    /\ MayCall(c) /\ TakesTurn(seen = stops \/ ~Findable(stops))
    /\ Stopped /\ connected
    /\ seen' = stops /\ frame' = FrameShown
    /\ UNCHANGED <<now, connected, debuggee, ring, lastStopAt, mu, calls, missed, stray>>

\* wait-for-stop subscribes, be the connection lost or not, ...
Wait(c) ==
    /\ MayCall(c) /\ TakesTurn(TRUE)
    /\ since' = [since EXCEPT ![c] = WaitFrom]
    /\ Goes(c, "waiting")
    /\ UNCHANGED <<now, connected, debuggee, ring, marks, mu, got, shown>>

\* ... receives an event without holding ds.mu ...
WaitReceive(c) ==
    /\ pc[c] = "waiting"
    /\ \E i \in Received(c) : got' = [got EXCEPT ![c] = i]
    /\ Goes(c, "received")
    /\ UNCHANGED <<now, connected, debuggee, ring, marks, mu, since, shown, orderly>>

\* ... and takes ds.mu to consume it and then to read the context.
WaitReturn(c) ==
    /\ pc[c] = "received" /\ mu = NoOne
    /\ Consumed
    /\ returned' = Returned(got[c])
    /\ IF got[c] # 0 /\ events[got[c]].kind = "term"
       THEN UNCHANGED <<seen, frame, missed>>
       ELSE ShowsContext
    /\ got' = [got EXCEPT ![c] = 0]
    /\ Goes(c, "idle")
    /\ UNCHANGED <<connected, debuggee, events, mu, since, stray, orderly>>

WaitTimeout(c) ==
    /\ pc[c] = "waiting"
    /\ Goes(c, "idle")
    /\ UNCHANGED <<now, connected, debuggee, ring, marks, mu, since, got, shown, orderly>>

\* pauseIfTimeout: pauseAndCaptureContext pauses under ds.mu, waits two
\* seconds without it, and otherwise makes do without an event.
WaitPause(c, told) ==
    /\ pc[c] = "waiting" /\ mu = NoOne /\ connected /\ prog \in {"running", "stopped"}
    /\ Tick
    /\ since' = [since EXCEPT ![c] = now']
    /\ Goes(c, "pausing")
    /\ IF prog = "running" THEN Stops("stop", told) ELSE UNCHANGED debuggee
    /\ UNCHANGED <<connected, ring, marks, mu, got, shown, orderly>>

PauseReceive(c) ==
    /\ pc[c] = "pausing"
    /\ \E i \in First(StopKinds, since[c]) \cup {0} : got' = [got EXCEPT ![c] = i]
    /\ Goes(c, "received")
    /\ UNCHANGED <<now, connected, debuggee, ring, marks, mu, since, shown, orderly>>

\* The debuggee ended instead: a nil result, and nothing is consumed.
PauseEnded(c) ==
    /\ pc[c] = "pausing" /\ First({"term"}, since[c]) # {}
    /\ Goes(c, "idle")
    /\ UNCHANGED <<now, connected, debuggee, ring, marks, mu, since, got, shown, orderly>>

\* The caller's ctx ends: an error, and nothing is consumed.
PauseCancelled(c) ==
    /\ pc[c] = "pausing"
    /\ Goes(c, "idle")
    /\ missed' = [missed EXCEPT !["pause"] = stops]
    /\ UNCHANGED <<now, connected, debuggee, ring, marks, mu, since, got, seen, stray, orderly>>

-----------------------------------------------------------------------------
(* Losing the connection.  (One that debug loses before it is ready makes  *)
(* debug fail, which is Session's.)                                        *)

\* What was on its way is lost, and every call that awaits an event ends with
\* an error; one that has received it goes on.
Lost ==
    /\ connected /\ prog # "none" /\ \A c \in Callers : pc[c] \notin Starting
    /\ TakesTurn(FALSE)
    /\ connected' = FALSE
    /\ sent' = <<>>
    /\ pc' = [c \in Callers |-> IF pc[c] = "received" THEN "received" ELSE "idle"]
    /\ mu' = NoOne
    /\ missed' = [missed EXCEPT
           !["lost"] = IF Coming(stops) THEN stops ELSE @,
           !["pause"] = IF \E c \in Callers : pc[c] = "pausing" THEN stops ELSE @]
    /\ UNCHANGED <<now, prog, stops, ring, marks, since, got, seen, stray>>

\* reinitialize resets lastStopAt to the zero time, and lastFrameID.
AfterReinit == 0

\* reinitialize succeeds under ds.mu; attaching may let the debuggee run.  A
\* wait-for-stop begun meanwhile goes on.  The ring is the client's and keeps
\* its events.
Reconnected ==
    /\ ~connected /\ mu = NoOne
    /\ prog \in {"running", "stopped"} /\ Tick
    /\ connected' = TRUE
    /\ lastStopAt' = AfterReinit /\ frame' = 0
    /\ Resumed \/ UNCHANGED debuggee
    /\ UNCHANGED <<ring, mu, calls, shown, orderly>>

-----------------------------------------------------------------------------
Next ==
    \/ Hit \/ End \/ Arrives \/ Lost \/ Reconnected
    \/ \E c \in Callers :
           \/ \E how \in Starting : DebugStart(c, how)
           \/ DebugReady(c) \/ EntryPassed(c)
           \/ Continue(c) \/ Restart(c) \/ Context(c)
           \/ Step(c) \/ StepDone(c) \/ StepTimeout(c)
           \/ Wait(c) \/ WaitReceive(c) \/ WaitReturn(c) \/ WaitTimeout(c)
           \/ \E told \in BOOLEAN :
                  WaitPause(c, told) \/ \E acked \in BOOLEAN : Pause(c, told, acked)
           \/ PauseReceive(c) \/ PauseEnded(c) \/ PauseCancelled(c)

Spec == Init /\ [][Next]_vars

-----------------------------------------------------------------------------
(* Properties.                                                             *)

\* Types of the tracking state (tools.go:18-37), lastStopAt never ahead of
\* the clock, which would hide a stop to come.
TypeOK ==
    /\ now \in Nat /\ connected \in BOOLEAN
    /\ \A i \in DOMAIN events : events[i].at \in 1 .. now /\ events[i].stop <= stops
    /\ \A i \in DOMAIN sent : sent[i].stop <= stops
    /\ prog \in {"none", "running", "stopped", "ended", "core"}
    /\ lastStopAt \in 0 .. now
    /\ {frame, seen} \subseteq 0 .. stops
    /\ missed \in [Causes -> Nat] /\ stray \subseteq Nat
    /\ mu \in Callers \cup {NoOne}
    /\ \A c \in Callers :
           /\ pc[c] \in Starting \cup
                  {"idle", "passing", "stepping", "waiting", "received", "pausing"}
           /\ got[c] \in DOMAIN events \cup {0}
    /\ DOMAIN returned = DOMAIN events

\* No stop is missed: while the debuggee is stopped and no call is under way,
\* the client was shown this stop or the next wait-for-stop finds its event,
\* now or when it comes.  What leaves a stop nobody knows of is: its event
\* came before debug set lastStopAt, or was lost with the connection; a
\* handler advanced lastStopAt and then failed to read the context, of which
\* the client has an error; a pause ended without a result at an adapter that
\* told no stop.
NothingMissed ==
    prog = "stopped" /\ (\A c \in Callers : pc[c] = "idle") =>
        \/ seen = stops
        \/ Findable(stops)
        \/ \E k \in {"early", "lost", "unread"} : missed[k] = stops
        \/ missed["pause"] = stops /\ ~Told(stops, 0)

\* No event is reported twice to a client in turns: lastStopAt has moved past
\* what was returned.
NotTwice == orderly => \A i \in DOMAIN returned : returned[i] <= 1

\* wait-for-stop reports to a client in turns only the stop at which the
\* debuggee is: what it found was not resumed from already.  Two kinds of stop
\* are excepted: one whose event came only after the client knew of it, as the
\* entry may when debug has returned, or the stop of a pauseIfTimeout that
\* made do without an event; and the entry that debug itself continued past.
StopIsCurrent ==
    [][\A c \in Callers :
           orderly /\ WaitReturn(c) /\ got[c] # 0 /\ events[got[c]].kind # "term" =>
               \/ Stopped /\ events[got[c]].stop = stops
               \/ events[got[c]].stop \in stray]_vars

\* A client in turns that was shown a stop gets what it evaluates from that
\* stop: lastFrameID is of it, or unset.
FrameIsShown ==
    orderly /\ Stopped /\ seen = stops => frame \in {0, stops}

\* What debug says of lastStopAt (tools.go:1284-1285): wait-for-stop does not
\* report the stop at the entry.
EntryIsNotReplayed ==
    [][\A c \in Callers :
           orderly /\ WaitReturn(c) /\ got[c] # 0 => events[got[c]].kind # "entry"]_vars
=============================================================================
