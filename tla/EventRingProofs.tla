-------------------------- MODULE EventRingProofs ---------------------------
(***************************************************************************)
(* The ring implements the bounded log, for every capacity and every set   *)
(* of entries.                                                             *)
(***************************************************************************)
EXTENDS EventRing, SequenceTheorems, TLAPS

\* On the range of values the ring computes, `%` is at most one subtraction.
LEMMA WrapLemma ==
    ASSUME NEW n \in 0 .. 2 * Cap - 1
    PROVE  /\ n % Cap = IF n < Cap THEN n ELSE n - Cap
           /\ n % Cap \in Slots
  BY CapAssumption, SMT DEF Slots

\* Type correctness: push keeps idx inside the array and size at most Cap.
THEOREM RingTyping == RingSpec => []RingTypeOK
<1>1. RingInit => RingTypeOK
  BY CapAssumption DEF RingInit, RingTypeOK, Ring, EmptyRing, Slots
<1>2. RingTypeOK /\ [RingNext]_ring => RingTypeOK'
  <2> SUFFICES ASSUME RingTypeOK, NEW e \in Entry, Push(e)
               PROVE  RingTypeOK'
    BY DEF RingNext, RingTypeOK
  <2>1. (ring.idx + 1) % Cap \in Slots
    <3>1. ring.idx + 1 \in 0 .. 2 * Cap - 1
      BY CapAssumption DEF RingTypeOK, Ring, Slots
    <3> QED BY <3>1, WrapLemma
  <2> QED BY <2>1, CapAssumption DEF RingTypeOK, Ring, Push, Pushed
<1> QED BY <1>1, <1>2, PTL DEF RingSpec

Value == Entry \cup {NoEntry}

\* The slot that snapshot reads for its i-th entry.
SlotOf(r, i) == (((r.idx - r.size + Cap) % Cap) + (i - 1)) % Cap

\* The same slot, with the two reductions modulo Cap carried out.
Wrapped(k) == IF k < 0 THEN k + Cap ELSE k

LEMMA RingFields ==
    ASSUME NEW r \in Ring
    PROVE  /\ Cap \in Nat /\ Cap > 0
           /\ r.items \in [Slots -> Value]
           /\ r.idx \in Nat /\ r.idx < Cap /\ r.idx \in Slots
           /\ r.size \in Nat /\ r.size <= Cap
  BY CapAssumption DEF Ring, Slots, Value

LEMMA SlotLemma ==
    ASSUME NEW r \in Ring, NEW i \in 1 .. r.size
    PROVE  /\ SlotOf(r, i) \in Slots
           /\ SlotOf(r, i) = Wrapped(r.idx - r.size + (i - 1))
<1> DEFINE n == r.idx - r.size + Cap
<1> DEFINE start == n % Cap
<1> DEFINE m == start + (i - 1)
<1>0. /\ Cap \in Nat /\ Cap > 0
      /\ r.idx \in Nat /\ r.idx < Cap
      /\ r.size \in Nat /\ r.size <= Cap
      /\ i \in Nat /\ 1 <= i /\ i <= r.size
  BY RingFields
<1>1. n \in 0 .. 2 * Cap - 1
  BY <1>0
<1>2. /\ start = IF n < Cap THEN n ELSE n - Cap
      /\ start \in 0 .. Cap - 1
  BY <1>1, WrapLemma DEF Slots
<1>3. m \in 0 .. 2 * Cap - 1
  <2> HIDE DEF start
  <2> QED BY <1>0, <1>2
<1>4. /\ m % Cap = IF m < Cap THEN m ELSE m - Cap
      /\ m % Cap \in Slots
  BY <1>3, WrapLemma
<1>5. (IF m < Cap THEN m ELSE m - Cap) = Wrapped(r.idx - r.size + (i - 1))
  <2> HIDE DEF start
  <2> QED BY <1>0, <1>2 DEF Wrapped
<1> QED BY <1>4, <1>5 DEF SlotOf

LEMMA SnapshotLemma ==
    ASSUME NEW r \in Ring
    PROVE  /\ Snapshot(r) \in Seq(Value)
           /\ Len(Snapshot(r)) = r.size
           /\ \A i \in 1 .. r.size : Snapshot(r)[i] = r.items[SlotOf(r, i)]
<1>1. Snapshot(r) = [i \in 1 .. r.size |-> r.items[SlotOf(r, i)]]
  BY DEF Snapshot, SlotOf
<1>2. \A i \in 1 .. r.size : r.items[SlotOf(r, i)] \in Value
  BY SlotLemma, RingFields
<1>3. r.size \in Nat
  BY RingFields
<1> QED BY <1>1, <1>2, <1>3

LEMMA PushedLemma ==
    ASSUME NEW r \in Ring, NEW e \in Entry
    PROVE  /\ Pushed(r, e) \in Ring
           /\ Pushed(r, e).idx = IF r.idx + 1 < Cap THEN r.idx + 1 ELSE 0
           /\ Pushed(r, e).size = IF r.size < Cap THEN r.size + 1 ELSE Cap
           /\ Pushed(r, e).items[r.idx] = e
           /\ \A s \in Slots : s # r.idx => Pushed(r, e).items[s] = r.items[s]
<1> DEFINE next == (r.idx + 1) % Cap
<1>0. /\ Cap \in Nat /\ Cap > 0
      /\ r.idx \in Nat /\ r.idx < Cap /\ r.idx \in Slots
      /\ r.size \in Nat /\ r.size <= Cap
      /\ r.items \in [Slots -> Value]
  BY RingFields
<1>1. r.idx + 1 \in 0 .. 2 * Cap - 1
  BY <1>0
<1>2. /\ next = IF r.idx + 1 < Cap THEN r.idx + 1 ELSE (r.idx + 1) - Cap
      /\ next \in Slots
  BY <1>1, WrapLemma
<1>3. next = IF r.idx + 1 < Cap THEN r.idx + 1 ELSE 0
  <2> HIDE DEF next
  <2> QED BY <1>0, <1>2
<1>4. Pushed(r, e) = [items |-> [r.items EXCEPT ![r.idx] = e], idx |-> next,
                      size |-> IF r.size < Cap THEN r.size + 1 ELSE r.size]
  BY DEF Pushed
<1> HIDE DEF next
<1> QED BY <1>0, <1>2, <1>3, <1>4 DEF Ring, Value

\* One push appends to the snapshot and, on a full ring, drops its head.
LEMMA PushSnapshot ==
    ASSUME NEW r \in Ring, NEW e \in Entry
    PROVE  Snapshot(Pushed(r, e)) =
             IF r.size < Cap THEN Append(Snapshot(r), e)
                             ELSE Append(Tail(Snapshot(r)), e)
<1> DEFINE p == Pushed(r, e)
<1> DEFINE old == Snapshot(r)
<1> DEFINE new == Snapshot(p)
<1>1. /\ p \in Ring
      /\ p.idx = IF r.idx + 1 < Cap THEN r.idx + 1 ELSE 0
      /\ p.size = IF r.size < Cap THEN r.size + 1 ELSE Cap
      /\ p.items[r.idx] = e
      /\ \A s \in Slots : s # r.idx => p.items[s] = r.items[s]
  BY PushedLemma
<1>2. /\ Cap \in Nat /\ Cap > 0
      /\ r.idx \in Nat /\ r.idx < Cap
      /\ r.size \in Nat /\ r.size <= Cap
  BY RingFields
<1> HIDE DEF p
<1>3. /\ new \in Seq(Value) /\ Len(new) = p.size
      /\ \A i \in 1 .. p.size : new[i] = p.items[SlotOf(p, i)]
  BY <1>1, SnapshotLemma
<1>4. /\ old \in Seq(Value) /\ Len(old) = r.size
      /\ \A i \in 1 .. r.size : old[i] = r.items[SlotOf(r, i)]
  BY SnapshotLemma
<1>5. e \in Value
  BY DEF Value
<1> HIDE DEF old, new
<1>6. new[p.size] = e
  <2>1. p.size \in 1 .. p.size
    BY <1>1, <1>2
  <2>2. SlotOf(p, p.size) = Wrapped(p.idx - p.size + (p.size - 1))
    BY <1>1, <2>1, SlotLemma
  <2>3. Wrapped(p.idx - p.size + (p.size - 1)) = r.idx
    BY <1>1, <1>2 DEF Wrapped
  <2> QED BY <1>1, <1>3, <2>1, <2>2, <2>3
<1>7. CASE r.size < Cap
  <2> DEFINE app == Append(old, e)
  <2>1. /\ app \in Seq(Value) /\ Len(app) = r.size + 1
        /\ \A i \in 1 .. r.size : app[i] = old[i]
        /\ app[r.size + 1] = e
    BY <1>4, <1>5, AppendProperties
  <2> HIDE DEF app
  <2>2. ASSUME NEW i \in 1 .. r.size
        PROVE  new[i] = old[i]
    <3>1. i \in 1 .. p.size /\ p.size = r.size + 1
      BY <1>1, <1>2, <1>7
    <3>2. SlotOf(p, i) = Wrapped(p.idx - p.size + (i - 1))
      BY <1>1, <3>1, SlotLemma
    <3>3. /\ SlotOf(r, i) = Wrapped(r.idx - r.size + (i - 1))
          /\ SlotOf(r, i) \in Slots
      BY SlotLemma
    <3>4. /\ Wrapped(p.idx - p.size + (i - 1)) = Wrapped(r.idx - r.size + (i - 1))
          /\ Wrapped(r.idx - r.size + (i - 1)) # r.idx
      BY <1>1, <1>2, <1>7, <3>1 DEF Wrapped
    <3> QED BY <1>1, <1>3, <1>4, <3>1, <3>2, <3>3, <3>4
  <2>3. p.size = r.size + 1
    BY <1>1, <1>7
  <2>4. \A i \in 1 .. Len(new) : new[i] = app[i]
    BY <1>2, <1>3, <1>6, <2>1, <2>2, <2>3
  <2>5. new = app
    BY <1>3, <2>1, <2>3, <2>4, SeqEqual
  <2> QED BY <1>7, <2>5 DEF app, new, old, p
<1>8. CASE r.size = Cap
  <2> DEFINE tail == Tail(old)
  <2> DEFINE app == Append(tail, e)
  <2>1. /\ tail \in Seq(Value) /\ Len(tail) = Cap - 1
        /\ \A i \in 1 .. Cap - 1 : tail[i] = old[i + 1]
    <3>1. old # << >>
      BY <1>2, <1>4, <1>8, EmptySeq
    <3> QED BY <1>4, <1>8, <3>1, HeadTailProperties
  <2> HIDE DEF tail
  <2>2. /\ app \in Seq(Value) /\ Len(app) = (Cap - 1) + 1
        /\ \A i \in 1 .. Cap - 1 : app[i] = tail[i]
        /\ app[(Cap - 1) + 1] = e
    BY <2>1, <1>5, AppendProperties
  <2> HIDE DEF app
  <2>3. (Cap - 1) + 1 = Cap /\ p.size = Cap
    BY <1>1, <1>2, <1>8
  <2>4. ASSUME NEW i \in 1 .. Cap - 1
        PROVE  new[i] = old[i + 1]
    <3>1. i \in 1 .. p.size /\ i + 1 \in 1 .. r.size /\ (i + 1) - 1 = i
      BY <1>2, <1>8, <2>3
    <3>2. SlotOf(p, i) = Wrapped(p.idx - p.size + (i - 1))
      BY <1>1, <3>1, SlotLemma
    <3>3. /\ SlotOf(r, i + 1) = Wrapped(r.idx - r.size + ((i + 1) - 1))
          /\ SlotOf(r, i + 1) \in Slots
      BY <3>1, SlotLemma
    <3>4. /\ Wrapped(p.idx - p.size + (i - 1)) = Wrapped(r.idx - r.size + i)
          /\ Wrapped(r.idx - r.size + i) # r.idx
      BY <1>1, <1>2, <1>8, <2>3, <3>1 DEF Wrapped
    <3> QED BY <1>1, <1>3, <1>4, <3>1, <3>2, <3>3, <3>4
  <2>5. \A i \in 1 .. Len(new) : new[i] = app[i]
    BY <1>2, <1>3, <1>6, <2>1, <2>2, <2>3, <2>4
  <2>6. new = app
    BY <1>3, <2>2, <2>3, <2>5, SeqEqual
  <2> QED BY <1>2, <1>8, <2>6 DEF app, tail, new, old, p
<1> QED BY <1>2, <1>7, <1>8

\* Refinement: the circular array implements the bounded log of EventLog.
THEOREM RingImplementsLog == RingSpec => LogSpec
<1>1. RingInit => Log!Init
  BY CapAssumption DEF RingInit, Log!Init, Snapshot, EmptyRing
<1>2. RingTypeOK /\ [RingNext]_ring => [Log!Next]_(Snapshot(ring))
  <2> SUFFICES ASSUME RingTypeOK, [RingNext]_ring
               PROVE  [Log!Next]_(Snapshot(ring))
    OBVIOUS
  <2>1. CASE UNCHANGED ring
    BY <2>1 DEF Snapshot
  <2>2. ASSUME NEW e \in Entry, Push(e)
        PROVE  Log!Add(e)
    BY <2>2, PushSnapshot, SnapshotLemma DEF RingTypeOK, Push, Log!Add
  <2> QED BY <2>1, <2>2 DEF RingNext, Log!Next
<1> QED BY <1>1, <1>2, RingTyping, PTL DEF RingSpec, LogSpec, Log!Spec
=============================================================================
