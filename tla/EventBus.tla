------------------------------ MODULE EventBus ------------------------------
(***************************************************************************)
(* The event side of DAPClient: readLoop dispatches each event to the      *)
(* replay ring and to the subscriptions of its type; Subscribe replays the *)
(* ring and registers; a bridge goroutine per subscription carries events  *)
(* from the buffer ch that dispatchEvent fills to the channel out that the *)
(* caller reads; cancel unregisters and stops the bridge.                  *)
(*                                                                         *)
(* Events are numbered in the order of dispatch and the number serves as   *)
(* the time of the ring entry.                                             *)
(***************************************************************************)
EXTENDS EventRing, FiniteSets, SequencesExt

CONSTANTS
    Subs,       \* the subscriptions that may be made
    Kinds,      \* event types of the adapter
    Lost,       \* the internal type ConnectionLostEvent
    ChCap,      \* capacity of ch (eventBufSize)
    OutCap,     \* capacity of out (eventBufSize)
    MaxEvents   \* bound: events dispatched or broadcast

ASSUME BusAssumption ==
    /\ Lost \notin Kinds
    /\ {ChCap, OutCap} \subseteq Nat \ {0}
    /\ MaxEvents \in Nat

Nobody == "nobody"      \* a kind no event has
Event == [n : 1 .. MaxEvents, kind : Kinds \cup {Lost}]
ASSUME EntryAssumption == Entry = [n : 1 .. MaxEvents, kind : Kinds]

VARIABLES
    clock,          \* number of the last event
    \* readLoop
    pump,           \* "idle", "pushed", "sending"
    event,          \* the event being dispatched
    targets,        \* of the copy of c.subscribers[t], those not served yet
    \* c.subscribers and the subscriptions
    registered,     \* c.subscribers; in which order a list holds them is left out
    at,             \* per sub: "new", "snapped", "replay", "live"
    want,           \* per sub: its type and since
    entries,        \* per sub: the snapshot not replayed yet
    ch, out,        \* per sub: the two channels
    stop,           \* per sub: stop is closed
    bridge,         \* per sub: "none", "run", "done" (out closed)
    hand,           \* per sub: at most one event between ch and out
    \* history, for the properties
    got,            \* per sub: what the caller has received
    dropped,        \* per sub: events refused by a full channel or by the drain
    overlap,        \* per sub: a dispatch ran between snapshot and registration
    lostOwed        \* per sub: registered when a loss was broadcast

readLoop == <<clock, pump, event, targets>>
subscription == <<at, want, entries, stop>>
channels == <<ch, out, bridge, hand>>
history == <<got, dropped, overlap, lostOwed>>
vars == <<ring, readLoop, registered, subscription, channels, history>>

NoEvent == [n |-> 0, kind |-> Nobody]

Init ==
    /\ RingInit
    /\ clock = 0 /\ pump = "idle" /\ event = NoEvent /\ targets = {}
    /\ registered = {}
    /\ at = [k \in Subs |-> "new"]
    /\ want = [k \in Subs |-> [kind |-> Nobody, since |-> 0]]
    /\ entries = [k \in Subs |-> <<>>]
    /\ ch = [k \in Subs |-> <<>>] /\ out = [k \in Subs |-> <<>>]
    /\ stop = [k \in Subs |-> FALSE]
    /\ bridge = [k \in Subs |-> "none"] /\ hand = [k \in Subs |-> <<>>]
    /\ got = [k \in Subs |-> <<>>] /\ dropped = [k \in Subs |-> {}]
    /\ overlap = [k \in Subs |-> FALSE] /\ lostOwed = [k \in Subs |-> FALSE]

-----------------------------------------------------------------------------
\* An item of a channel: the event and the path it came by.
Item(e, via) == [n |-> e.n, kind |-> e.kind, via |-> via]

\* MUTANT of Offer: an unbounded buffer in place of the capacity.
OfferUnbounded(k, item) ==
    ch' = [ch EXCEPT ![k] = Append(@, item)] /\ UNCHANGED dropped

\* The non-blocking send on sub k's ch.
Offer(k, item) ==
    IF Len(ch[k]) < ChCap
    THEN ch' = [ch EXCEPT ![k] = Append(@, item)] /\ UNCHANGED dropped
    ELSE dropped' = [dropped EXCEPT ![k] = @ \cup {item}] /\ UNCHANGED ch

\* A dispatch step falls into the window of every Subscribe in progress.
Overlapping == overlap' = [k \in Subs |-> overlap[k] \/ at[k] = "snapped"]

-----------------------------------------------------------------------------
(* readLoop: dispatchEvent and broadcastEvent.                             *)

\* dispatchEvent puts the event into the ring first ...
DispatchPush(kind) ==
    /\ pump = "idle" /\ clock < MaxEvents
    /\ clock' = clock + 1
    /\ event' = [n |-> clock + 1, kind |-> kind]
    /\ Push(event')
    /\ pump' = "pushed"
    /\ Overlapping
    /\ UNCHANGED <<targets, registered, subscription, channels, got, dropped,
                   lostOwed>>

\* MUTANT of Matching: only the subscriptions whose Subscribe has returned.
MatchingLive(kind) == {k \in registered : want[k].kind = kind /\ at[k] = "live"}

\* The subscriptions of a type.
Matching(kind) == {k \in registered : want[k].kind = kind}

\* ... broadcastEvent does not; it is used for the loss of the connection.
BroadcastLost ==
    /\ pump = "idle" /\ clock < MaxEvents
    /\ clock' = clock + 1
    /\ event' = [n |-> clock + 1, kind |-> Lost]
    /\ pump' = "pushed"
    /\ lostOwed' = [k \in Subs |-> lostOwed[k] \/
            (want[k].kind = Lost /\ k \in registered)]
    /\ Overlapping
    /\ UNCHANGED <<ring, targets, registered, subscription, channels, got,
                   dropped>>

\* Both copy the subscriptions of the event's type under registryMu ...
CopyTargets ==
    /\ pump = "pushed"
    /\ targets' = Matching(event.kind)
    /\ pump' = "sending"
    /\ Overlapping
    /\ UNCHANGED <<ring, clock, event, registered, subscription, channels, got,
                   dropped, lostOwed>>

\* ... and serve them one by one, skipping those that were cancelled.
SendNext(k) ==
    /\ pump = "sending" /\ k \in targets
    /\ IF stop[k] THEN UNCHANGED <<ch, dropped>> ELSE Offer(k, Item(event, "live"))
    /\ targets' = targets \ {k}
    /\ Overlapping
    /\ UNCHANGED <<ring, clock, pump, event, registered, subscription, out,
                   bridge, hand, got, lostOwed>>

DispatchDone ==
    /\ pump = "sending" /\ targets = {}
    /\ pump' = "idle" /\ event' = NoEvent
    /\ UNCHANGED <<ring, clock, targets, registered, subscription, channels,
                   history>>

-----------------------------------------------------------------------------
(* Subscribe.                                                              *)

\* Called with a since that was captured now or earlier; snapshot the ring.
TakeSnapshot(k, kind, since) ==
    /\ at[k] = "new"
    /\ want' = [want EXCEPT ![k] = [kind |-> kind, since |-> since]]
    /\ entries' = [entries EXCEPT ![k] = Snapshot(ring)]
    /\ at' = [at EXCEPT ![k] = "snapped"]
    /\ overlap' = [overlap EXCEPT ![k] = pump # "idle"]
    /\ UNCHANGED <<ring, readLoop, registered, stop, channels, got, dropped,
                   lostOwed>>

RegisterSub(k) ==
    /\ at[k] = "snapped"
    /\ registered' = registered \cup {k}
    /\ at' = [at EXCEPT ![k] = "replay"]
    /\ UNCHANGED <<ring, readLoop, want, entries, stop, channels, history>>

\* MUTANT of Replayed: strictly after since.
ReplayedAfter(e, w) == e.n > w.since + 1 /\ e.kind = w.kind

\* Whether a ring entry is replayed: not before since, and of the type.
Replayed(e, w) == e.n > w.since /\ e.kind = w.kind

ReplayNext(k) ==
    /\ at[k] = "replay" /\ entries[k] # <<>>
    /\ IF Replayed(Head(entries[k]), want[k])
       THEN Offer(k, Item(Head(entries[k]), "replay"))
       ELSE UNCHANGED <<ch, dropped>>
    /\ entries' = [entries EXCEPT ![k] = Tail(@)]
    /\ UNCHANGED <<ring, readLoop, registered, at, want, stop, out, bridge, hand,
                   got, overlap, lostOwed>>

\* The bridge goroutine is started and Subscribe returns.
StartBridge(k) ==
    /\ at[k] = "replay" /\ entries[k] = <<>>
    /\ at' = [at EXCEPT ![k] = "live"]
    /\ bridge' = [bridge EXCEPT ![k] = "run"]
    /\ UNCHANGED <<ring, readLoop, registered, want, entries, stop, ch, out,
                   hand, history>>

-----------------------------------------------------------------------------
(* The bridge, the caller and cancel.                                      *)

\* MUTANT of BridgeTake: the newest item overtakes the others.
BridgeTakeNewest(k) ==
    /\ bridge[k] = "run" /\ hand[k] = <<>> /\ ch[k] # <<>>
    /\ hand' = [hand EXCEPT ![k] = <<Last(ch[k])>>]
    /\ ch' = [ch EXCEPT ![k] = Front(@)]
    /\ UNCHANGED <<ring, readLoop, registered, subscription, out, bridge, history>>

\* MUTANT of BridgeTake: the item stays in ch.
BridgeTakePeek(k) ==
    /\ bridge[k] = "run" /\ hand[k] = <<>> /\ ch[k] # <<>>
    /\ hand' = [hand EXCEPT ![k] = <<Head(ch[k])>>]
    /\ UNCHANGED <<ring, readLoop, registered, subscription, ch, out, bridge,
                   history>>

BridgeTake(k) ==
    /\ bridge[k] = "run" /\ hand[k] = <<>> /\ ch[k] # <<>>
    /\ hand' = [hand EXCEPT ![k] = <<Head(ch[k])>>]
    /\ ch' = [ch EXCEPT ![k] = Tail(@)]
    /\ UNCHANGED <<ring, readLoop, registered, subscription, out, bridge, history>>

\* out <- typed blocks while out is full.
BridgePut(k) ==
    /\ bridge[k] = "run" /\ hand[k] # <<>> /\ Len(out[k]) < OutCap
    /\ out' = [out EXCEPT ![k] = @ \o hand[k]]
    /\ hand' = [hand EXCEPT ![k] = <<>>]
    /\ UNCHANGED <<ring, readLoop, registered, subscription, ch, bridge, history>>

\* MUTANT of AfterStop: the goroutine goes round its loop again.
AfterStopLooping == "run"

\* It returns, closing out.
AfterStop == "done"

\* stop seen: what fits of ch goes to out, the rest is discarded, and out is
\* closed.
BridgeStop(k) ==
    /\ bridge[k] = "run" /\ hand[k] = <<>> /\ stop[k]
    /\ LET room == OutCap - Len(out[k])
       IN  /\ out' = [out EXCEPT ![k] = @ \o SubSeq(ch[k], 1, Min({room, Len(ch[k])}))]
           /\ dropped' = [dropped EXCEPT ![k] =
                            @ \cup ToSet(SubSeq(ch[k], room + 1, Len(ch[k])))]
    /\ ch' = [ch EXCEPT ![k] = <<>>]
    /\ bridge' = [bridge EXCEPT ![k] = AfterStop]
    /\ UNCHANGED <<ring, readLoop, registered, subscription, hand, got, overlap,
                   lostOwed>>

ReceiveEvent(k) ==
    /\ at[k] = "live" /\ out[k] # <<>>
    /\ got' = [got EXCEPT ![k] = Append(@, Head(out[k]))]
    /\ out' = [out EXCEPT ![k] = Tail(@)]
    /\ UNCHANGED <<ring, readLoop, registered, subscription, ch, bridge, hand,
                   dropped, overlap, lostOwed>>

\* cancel, under registryMu; then stop is closed.
CancelSub(k) ==
    /\ at[k] = "live" /\ k \in registered
    /\ registered' = registered \ {k}
    /\ UNCHANGED <<ring, readLoop, subscription, channels, history>>

CloseStop(k) ==
    /\ at[k] = "live" /\ ~stop[k] /\ k \notin registered
    /\ stop' = [stop EXCEPT ![k] = TRUE]
    /\ UNCHANGED <<ring, readLoop, registered, at, want, entries, channels,
                   history>>

-----------------------------------------------------------------------------
Pump ==
    \/ \E kind \in Kinds : DispatchPush(kind)
    \/ BroadcastLost \/ CopyTargets \/ DispatchDone
    \/ \E k \in Subs : SendNext(k)

Subscribe(k) ==
    \/ \E kind \in Kinds \cup {Lost}, since \in 0 .. clock :
            TakeSnapshot(k, kind, since)
    \/ RegisterSub(k) \/ ReplayNext(k) \/ StartBridge(k)

Bridge(k) == BridgeTake(k) \/ BridgePut(k) \/ BridgeStop(k)

Next ==
    \/ Pump
    \/ \E k \in Subs :
        Subscribe(k) \/ Bridge(k) \/ ReceiveEvent(k) \/ CancelSub(k) \/ CloseStop(k)

Spec == Init /\ [][Next]_vars

\* Goroutines run; a cancel that has begun ends.  Nothing obliges the caller
\* to go on receiving.
FairSpec == Spec /\ \A k \in Subs : WF_vars(Bridge(k)) /\ WF_vars(CloseStop(k))

-----------------------------------------------------------------------------
(* Properties.                                                             *)

\* What has been put into ch of sub k, in the order in which its caller gets it.
Line(k) == got[k] \o out[k] \o hand[k] \o ch[k]
Accepted(k) == ToSet(Line(k))
Accounted(k) == Accepted(k) \cup dropped[k]

\* How often event n has come to sub k.
Times(k, n) == Cardinality({i \in Accounted(k) : i.n = n})

\* An event that a subscription with this type and since should see.
Due(e, w) == w.since < e.n /\ w.kind = e.kind

\* Type correctness of the subscription registry and of the channels, whose
\* capacities bound what is buffered (eventBufSize).
TypeOK ==
    /\ RingTypeOK
    /\ clock \in 0 .. MaxEvents
    /\ pump \in {"idle", "pushed", "sending"}
    /\ event \in Event \cup {NoEvent}
    /\ registered \subseteq Subs /\ targets \subseteq Subs
    /\ at \in [Subs -> {"new", "snapped", "replay", "live"}]
    /\ stop \in [Subs -> BOOLEAN]
    /\ bridge \in [Subs -> {"none", "run", "done"}]
    /\ \A k \in Subs : Len(ch[k]) <= ChCap /\ Len(out[k]) <= OutCap

\* A Subscribe that no dispatch overlaps is exact: every event of its type in
\* the ring, not before since, comes to it once, by replay or live, less what
\* a full buffer or the ring dropped (the aim stated at dap.go:1187-1193).
ExactWhenQuiet ==
    \A k \in Subs : at[k] = "live" /\ ~overlap[k] /\ pump = "idle" =>
        \A e \in ToSet(Snapshot(ring)) :
            Due(e, want[k]) /\ k \in registered => Times(k, e.n) = 1

\* An overlapping dispatch duplicates an event at most once: one copy by
\* replay and one live, never two by the same path (dap.go:1190-1193).
AtMostTwice ==
    \A k \in Subs : \A n \in 1 .. MaxEvents, via \in {"replay", "live"} :
        Cardinality({i \in DOMAIN Line(k) : Line(k)[i].n = n /\ Line(k)[i].via = via}) <= 1

\* Live events reach the caller in the order of dispatch, through both
\* channels and the bridge, whatever replay does meanwhile.
LiveInOrder ==
    \A k \in Subs : \A i, j \in DOMAIN Line(k) :
        i < j /\ Line(k)[i].via = "live" /\ Line(k)[j].via = "live" =>
            Line(k)[i].n < Line(k)[j].n

\* A subscription made before the connection is lost is told (pump
\* 02-behavior.md: Subscribe before the drop gets ConnectionLostEvent).
LossIsTold ==
    \A k \in Subs : lostOwed[k] /\ pump = "idle" /\ k \in registered =>
        \E i \in Accepted(k) : i.kind = Lost

\* cancel ends the bridge goroutine and closes out (dap.go:1217-1218), except
\* while the goroutine is blocked on an out that its caller has left full.
Blocked(k) == hand[k] # <<>> /\ Len(out[k]) = OutCap
BridgeEnds == \A k \in Subs : stop[k] ~> [](bridge[k] = "done" \/ Blocked(k))
=============================================================================
