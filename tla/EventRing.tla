----------------------------- MODULE EventRing ------------------------------
(***************************************************************************)
(* The replay ring of dap.go (type eventRing): a fixed array `items`       *)
(* written at `idx`, which wraps, and a fill count `size`.  Both methods   *)
(* hold r.mu from end to end, so each is one step.                         *)
(***************************************************************************)
EXTENDS Integers, Sequences

CONSTANTS
    Entry,      \* what a slot can hold (an event with its time)
    NoEntry,    \* the zero ringEntry of a slot never written
    Cap         \* eventBufSize

ASSUME CapAssumption == Cap \in Nat \ {0}
ASSUME NoEntryAssumption == NoEntry \notin Entry

VARIABLE ring   \* [items, idx, size]; cap is the constant Cap

Slots == 0 .. Cap - 1

Ring == [items : [Slots -> Entry \cup {NoEntry}], idx : Slots, size : 0 .. Cap]

EmptyRing == [items |-> [s \in Slots |-> NoEntry], idx |-> 0, size |-> 0]

\* push: overwrite the slot at idx, advance it, and count until full.
Pushed(r, e) ==
    [items |-> [r.items EXCEPT ![r.idx] = e],
     idx   |-> (r.idx + 1) % Cap,
     size  |-> IF r.size < Cap THEN r.size + 1 ELSE r.size]

\* MUTANT of Snapshot: the array from its beginning.
SnapshotFromZero(r) == [i \in 1 .. r.size |-> r.items[i - 1]]

\* snapshot: the valid entries, from the oldest, unrolled across the wrap.
Snapshot(r) ==
    LET start == (r.idx - r.size + Cap) % Cap
    IN  [i \in 1 .. r.size |-> r.items[(start + (i - 1)) % Cap]]

-----------------------------------------------------------------------------
RingInit == ring = EmptyRing

Push(e) == ring' = Pushed(ring, e)

RingNext == \E e \in Entry : Push(e)

RingSpec == RingInit /\ [][RingNext]_ring

-----------------------------------------------------------------------------
\* Type correctness of the ring: the write index of push (dap.go:970) always
\* lies inside the array and the count never passes the capacity.
RingTypeOK == ring \in Ring

\* What Subscribe sees through snapshot is exactly the last Cap pushes in
\* order, whatever the position of idx when the array has wrapped.
Log == INSTANCE EventLog WITH log <- Snapshot(ring)

LogSpec == Log!Spec
=============================================================================
