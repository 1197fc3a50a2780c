--------------------------- MODULE EventBusProofs ---------------------------
(***************************************************************************)
(* What the event bus promises, for every number of subscriptions and      *)
(* events and for every capacity.                                          *)
(*                                                                         *)
(* The argument looks at one subscription k.  First, every action either   *)
(* leaves its line of channels as it is, appends one item, or cuts items   *)
(* off its end (Same, Added, Cut).  Then a step is reduced to what k sees  *)
(* of it (Views), and each part of SubInv(k) is shown to survive each      *)
(* view.                                                                   *)
(***************************************************************************)
EXTENDS EventBus, EventRingProofs, FiniteSetTheorems

Items == [n : Nat, kind : Kinds \cup {Lost}, via : {"replay", "live"}]

-----------------------------------------------------------------------------
(* Sequences.                                                              *)

\* The elements of a sequence.
LEMMA SetOfAppend ==
    ASSUME NEW S, NEW s \in Seq(S), NEW x \in S
    PROVE  ToSet(Append(s, x)) = ToSet(s) \cup {x}
<1>1. /\ Len(s) \in Nat /\ Len(Append(s, x)) = Len(s) + 1
      /\ \A i \in 1 .. Len(s) : Append(s, x)[i] = s[i]
      /\ Append(s, x)[Len(s) + 1] = x
  BY AppendProperties, LenProperties
<1>2. DOMAIN s = 1 .. Len(s) /\ DOMAIN Append(s, x) = 1 .. Len(s) + 1
  BY <1>1, LenProperties, AppendProperties
<1> QED BY <1>1, <1>2 DEF ToSet

LEMMA SetOfConcat ==
    ASSUME NEW S, NEW s \in Seq(S), NEW t \in Seq(S)
    PROVE  ToSet(s \o t) = ToSet(s) \cup ToSet(t)
<1>1. /\ Len(s) \in Nat /\ Len(t) \in Nat
      /\ DOMAIN s = 1 .. Len(s) /\ DOMAIN t = 1 .. Len(t)
  BY LenProperties
<1>2. /\ DOMAIN (s \o t) = 1 .. Len(s) + Len(t)
      /\ \A i \in 1 .. Len(s) : (s \o t)[i] = s[i]
      /\ \A i \in 1 .. Len(t) : (s \o t)[Len(s) + i] = t[i]
  <2>1. /\ s \o t \in Seq(S) /\ Len(s \o t) = Len(s) + Len(t)
        /\ \A i \in 1 .. Len(s) + Len(t) :
              (s \o t)[i] = IF i <= Len(s) THEN s[i] ELSE t[i - Len(s)]
    BY ConcatProperties
  <2> HIDE DEF ToSet
  <2> QED BY <1>1, <2>1, LenProperties
<1>3. ToSet(s \o t) \subseteq ToSet(s) \cup ToSet(t)
  <2> SUFFICES ASSUME NEW i \in 1 .. Len(s) + Len(t)
               PROVE  (s \o t)[i] \in ToSet(s) \cup ToSet(t)
    BY <1>2 DEF ToSet
  <2>1. CASE i \in 1 .. Len(s)
    BY <1>1, <1>2, <2>1 DEF ToSet
  <2>2. CASE i \notin 1 .. Len(s)
    <3>1. i - Len(s) \in 1 .. Len(t) /\ Len(s) + (i - Len(s)) = i
      BY <1>1, <2>2
    <3> QED BY <1>1, <1>2, <3>1 DEF ToSet
  <2> QED BY <2>1, <2>2
<1>4. ToSet(s) \cup ToSet(t) \subseteq ToSet(s \o t)
  <2>1. \A i \in 1 .. Len(s) : i \in 1 .. Len(s) + Len(t)
    BY <1>1
  <2>2. \A i \in 1 .. Len(t) : Len(s) + i \in 1 .. Len(s) + Len(t)
    BY <1>1
  <2> QED BY <1>1, <1>2, <2>1, <2>2 DEF ToSet
<1> QED BY <1>3, <1>4

LEMMA SetOfParts ==
    ASSUME NEW S, NEW s \in Seq(S), s # <<>>
    PROVE  /\ Head(s) \in S /\ Tail(s) \in Seq(S)
           /\ ToSet(s) = {Head(s)} \cup ToSet(Tail(s))
<1>1. /\ Head(s) = s[1] /\ Head(s) \in S /\ Tail(s) \in Seq(S)
      /\ Len(s) \in Nat /\ Len(s) > 0 /\ Len(Tail(s)) = Len(s) - 1
      /\ \A i \in 1 .. Len(Tail(s)) : Tail(s)[i] = s[i + 1]
  BY EmptySeq, HeadTailProperties, LenProperties
<1>2. DOMAIN s = 1 .. Len(s) /\ DOMAIN Tail(s) = 1 .. Len(s) - 1
  BY <1>1, LenProperties
<1>3. \A i \in 1 .. Len(s) : i = 1 \/ (i - 1 \in 1 .. Len(s) - 1 /\ (i - 1) + 1 = i)
  BY <1>1
<1>4. 1 \in 1 .. Len(s) /\ \A i \in 1 .. Len(s) - 1 : i + 1 \in 1 .. Len(s)
  BY <1>1
<1>5. ToSet(s) = {Head(s)} \cup ToSet(Tail(s))
  <2>1. ToSet(s) \subseteq {Head(s)} \cup ToSet(Tail(s))
    <3> SUFFICES ASSUME NEW i \in 1 .. Len(s)
                 PROVE  s[i] = Head(s) \/ s[i] \in ToSet(Tail(s))
      BY <1>2 DEF ToSet
    <3>1. CASE i = 1
      BY <1>1, <3>1
    <3>2. CASE i # 1
      <4>1. i - 1 \in DOMAIN Tail(s) /\ Tail(s)[i - 1] = s[i]
        BY <1>1, <1>2, <1>3, <3>2
      <4> QED BY <4>1 DEF ToSet
    <3> QED BY <3>1, <3>2
  <2>2. Head(s) \in ToSet(s)
    BY <1>1, <1>2, <1>4 DEF ToSet
  <2>3. ToSet(Tail(s)) \subseteq ToSet(s)
    <3> SUFFICES ASSUME NEW i \in 1 .. Len(s) - 1
                 PROVE  Tail(s)[i] \in ToSet(s)
      BY <1>2 DEF ToSet
    <3>1. i + 1 \in DOMAIN s /\ Tail(s)[i] = s[i + 1]
      BY <1>1, <1>2, <1>4
    <3> QED BY <3>1 DEF ToSet
  <2> QED BY <2>1, <2>2, <2>3
<1> QED BY <1>1, <1>5

LEMMA SetOfNone == ToSet(<<>>) = {}
  BY DEF ToSet

LEMMA SetOfTyped ==
    ASSUME NEW S, NEW s \in Seq(S)
    PROVE  ToSet(s) \subseteq S
  BY DEF ToSet

\* The smaller of two numbers.
LEMMA MinOfTwo ==
    ASSUME NEW a \in Nat, NEW b \in Nat
    PROVE  Min({a, b}) = IF a <= b THEN a ELSE b
<1>1. PICK m \in {a, b} : \A y \in {a, b} : m <= y
  OBVIOUS
<1>2. Min({a, b}) \in {a, b} /\ \A y \in {a, b} : Min({a, b}) <= y
  BY <1>1 DEF Min
<1> QED BY <1>2

\* What the channel operations make of a line of channels.
LEMMA HeadFirst ==
    ASSUME NEW S, NEW s \in Seq(S), s # <<>>
    PROVE  /\ <<Head(s)>> \in Seq(S) /\ Tail(s) \in Seq(S)
           /\ s = <<Head(s)>> \o Tail(s)
<1>1. Head(s) = s[1] /\ Len(s) \in Nat /\ Len(s) > 0
  BY EmptySeq
<1>2. s = SubSeq(s, 1, Len(s)) /\ Tail(s) = SubSeq(s, 2, Len(s))
  BY SubSeqFull, TailIsSubSeq
<1>3. 1 \in 1 .. Len(s) /\ Len(s) \in 1 .. Len(s)
  BY <1>1
<1>4. SubSeq(s, 1, Len(s)) = <<s[1]>> \o SubSeq(s, 1 + 1, Len(s))
  BY <1>3, SubSeqRecursiveFirst
<1>5. Head(s) \in S /\ Tail(s) \in Seq(S)
  BY HeadTailProperties
<1> QED BY <1>1, <1>2, <1>4, <1>5

Chain(g, o, h, c) == g \o o \o h \o c

LEMMA LineTake ==
    ASSUME NEW S, NEW g \in Seq(S), NEW o \in Seq(S), NEW c \in Seq(S), c # <<>>
    PROVE  Chain(g, o, <<Head(c)>>, Tail(c)) = Chain(g, o, <<>>, c)
<1>1. <<Head(c)>> \in Seq(S) /\ Tail(c) \in Seq(S) /\ c = <<Head(c)>> \o Tail(c)
  BY HeadFirst
<1>2. g \o o \in Seq(S) /\ (g \o o) \o <<>> = g \o o
  BY ConcatProperties, ConcatEmptySeq
<1>3. ((g \o o) \o <<Head(c)>>) \o Tail(c) = (g \o o) \o (<<Head(c)>> \o Tail(c))
  BY <1>1, <1>2, ConcatAssociative
<1> QED BY <1>1, <1>2, <1>3 DEF Chain

LEMMA LinePut ==
    ASSUME NEW S, NEW g \in Seq(S), NEW o \in Seq(S), NEW h \in Seq(S), NEW c \in Seq(S)
    PROVE  Chain(g, o \o h, <<>>, c) = Chain(g, o, h, c)
<1>1. g \o (o \o h) = (g \o o) \o h
  BY ConcatAssociative
<1>2. (g \o o) \in Seq(S) /\ (g \o o) \o h \in Seq(S)
  BY ConcatProperties
<1>3. ((g \o o) \o h) \o <<>> = (g \o o) \o h
  BY <1>2, ConcatEmptySeq
<1> QED BY <1>1, <1>3 DEF Chain

LEMMA LineReceive ==
    ASSUME NEW S, NEW g \in Seq(S), NEW o \in Seq(S), o # <<>>
    PROVE  Append(g, Head(o)) \o Tail(o) = g \o o
<1>1. <<Head(o)>> \in Seq(S) /\ Tail(o) \in Seq(S) /\ o = <<Head(o)>> \o Tail(o)
  BY HeadFirst
<1>2. Append(g, Head(o)) = g \o <<Head(o)>>
  BY AppendIsConcat, HeadTailProperties
<1>3. (g \o <<Head(o)>>) \o Tail(o) = g \o (<<Head(o)>> \o Tail(o))
  BY <1>1, ConcatAssociative
<1> QED BY <1>1, <1>2, <1>3

LEMMA LineOffer ==
    ASSUME NEW S, NEW x \in Seq(S), NEW c \in Seq(S), NEW i \in S
    PROVE  x \o Append(c, i) = Append(x \o c, i)
<1>1. <<i>> \in Seq(S) /\ x \o c \in Seq(S)
  BY ConcatProperties
<1>2. Append(c, i) = c \o <<i>> /\ Append(x \o c, i) = (x \o c) \o <<i>>
  BY <1>1, AppendIsConcat
<1> QED BY <1>1, <1>2, ConcatAssociative

LEMMA FourConcat ==
    ASSUME NEW S, NEW g \in Seq(S), NEW o \in Seq(S), NEW f \in Seq(S), NEW r \in Seq(S)
    PROVE  (g \o o) \o (f \o r) = (g \o (o \o f)) \o r
<1>1. g \o o \in Seq(S)
  BY ConcatProperties
<1> DEFINE Grouped(a, b, c) == (a \o b) \o c = a \o (b \o c)
<1>2. \A T : \A a, b, c \in Seq(T) : Grouped(a, b, c)
  BY ConcatAssociative, Zenon
<1> HIDE DEF Grouped
<1>3. Grouped(g, o, f) /\ Grouped(g \o o, f, r)
  BY <1>1, <1>2
<1> QED BY <1>3 DEF Grouped

\* The bridge's last look at ch: what fits goes out, the rest is dropped.
LEMMA Split ==
    ASSUME NEW S, NEW c \in Seq(S), NEW m \in 0 .. Len(c)
    PROVE  /\ SubSeq(c, 1, m) \in Seq(S) /\ SubSeq(c, m + 1, Len(c)) \in Seq(S)
           /\ Len(SubSeq(c, 1, m)) = m
           /\ c = SubSeq(c, 1, m) \o SubSeq(c, m + 1, Len(c))
<1>1. 1 \in 1 .. Len(c) + 1 /\ m \in 1 - 1 .. Len(c) /\ Len(c) \in m .. Len(c)
  BY LenProperties
<1>2. SubSeq(c, 1, m) \o SubSeq(c, m + 1, Len(c)) = SubSeq(c, 1, Len(c))
  BY <1>1, ConcatAdjacentSubSeq
<1>3. SubSeq(c, 1, Len(c)) = c
  BY SubSeqFull
<1>4. SubSeq(c, 1, m) \in Seq(S) /\ SubSeq(c, m + 1, Len(c)) \in Seq(S)
      /\ Len(SubSeq(c, 1, m)) = m
  BY SubSeqProperties, LenProperties
<1> QED BY <1>2, <1>3, <1>4

LEMMA LineStop ==
    ASSUME NEW S, NEW g \in Seq(S), NEW o \in Seq(S), NEW f \in Seq(S), NEW r \in Seq(S)
    PROVE  Chain(g, o, <<>>, f \o r) = Chain(g, o \o f, <<>>, <<>>) \o r
<1>1. (g \o o) \o <<>> = g \o o
  BY ConcatProperties, ConcatEmptySeq
<1>2. g \o (o \o f) \in Seq(S)
  BY ConcatProperties
<1>3. (g \o (o \o f)) \o <<>> \o <<>> = g \o (o \o f)
  BY <1>2, ConcatEmptySeq
<1> DEFINE Regrouped(a, b, c, d) == (a \o b) \o (c \o d) = (a \o (b \o c)) \o d
<1>4. \A T : \A a, b, c, d \in Seq(T) : Regrouped(a, b, c, d)
  BY FourConcat, Zenon
<1>5. Regrouped(g, o, f, r)
  <2> HIDE DEF Regrouped
  <2> QED BY <1>4
<1>6. (g \o o) \o (f \o r) = (g \o (o \o f)) \o r
  BY <1>5
<1> QED BY <1>1, <1>3, <1>6 DEF Chain

-----------------------------------------------------------------------------
(* Types.                                                                  *)

Wants == [kind : Kinds \cup {Lost, Nobody}, since : Nat]

CoreOK ==
    /\ RingTypeOK
    /\ clock \in Nat /\ clock <= MaxEvents
    /\ pump \in {"idle", "pushed", "sending"}
    /\ event \in Event \cup {NoEvent}
    /\ registered \subseteq Subs /\ targets \subseteq Subs

SubsOK ==
    /\ at \in [Subs -> {"new", "snapped", "replay", "live"}]
    /\ want \in [Subs -> Wants]
    /\ entries \in [Subs -> Seq(Entry)]
    /\ stop \in [Subs -> BOOLEAN]

ChanOK ==
    /\ ch \in [Subs -> Seq(Items)] /\ out \in [Subs -> Seq(Items)]
    /\ hand \in [Subs -> Seq(Items)] /\ got \in [Subs -> Seq(Items)]
    /\ bridge \in [Subs -> {"none", "run", "done"}]
    /\ dropped \in [Subs -> SUBSET Items]

FlagsOK == overlap \in [Subs -> BOOLEAN] /\ lostOwed \in [Subs -> BOOLEAN]

\* Capacities bound what is buffered; the bridge holds one item at most.
CapOK ==
    \A k \in Subs :
        Len(ch[k]) <= ChCap /\ Len(out[k]) <= OutCap /\ Len(hand[k]) <= 1

\* What the ring holds is the recent past, oldest first.
Increasing(s) == \A i, j \in DOMAIN s : i < j => s[i].n < s[j].n

LogInv ==
    /\ Snapshot(ring) \in Seq(Entry)
    /\ Increasing(Snapshot(ring))
    /\ \A e \in ToSet(Snapshot(ring)) : e.n <= clock

PumpInv == pump # "idle" => event.n = clock /\ event \in Event

LEMMA Bounds ==
    /\ Lost \notin Kinds
    /\ ChCap \in Nat /\ ChCap > 0 /\ OutCap \in Nat /\ OutCap > 0
    /\ MaxEvents \in Nat
  BY BusAssumption

\* Both kinds of items are typed.
LEMMA ItemTyped ==
    /\ \A e \in Event : \A via \in {"replay", "live"} : Item(e, via) \in Items
    /\ \A e \in Entry : \A via \in {"replay", "live"} : Item(e, via) \in Items
    /\ \A e \in Entry : e \in Event
  BY EntryAssumption, Bounds DEF Item, Items, Event

\* The two outcomes of a send.
LEMMA OfferTyped ==
    ASSUME ChanOK, CapOK, NEW k \in Subs, NEW item \in Items, Offer(k, item),
           UNCHANGED <<out, hand, got, bridge>>
    PROVE  ChanOK' /\ CapOK'
<1>1. CASE Len(ch[k]) < ChCap
  <2>1. /\ ch' = [ch EXCEPT ![k] = Append(@, item)] /\ UNCHANGED dropped
    BY <1>1 DEF Offer
  <2>2. Append(ch[k], item) \in Seq(Items) /\ Len(Append(ch[k], item)) = Len(ch[k]) + 1
    BY AppendProperties DEF ChanOK
  <2>3. Len(ch[k]) + 1 <= ChCap
    BY <1>1, Bounds, LenProperties DEF ChanOK
  <2>4. ChanOK'
    BY <2>1, <2>2 DEF ChanOK
  <2>5. CapOK'
    BY <2>1, <2>2, <2>3 DEF CapOK, ChanOK
  <2> QED BY <2>4, <2>5
<1>2. CASE ~(Len(ch[k]) < ChCap)
  <2>1. dropped' = [dropped EXCEPT ![k] = @ \cup {item}] /\ UNCHANGED ch
    BY <1>2 DEF Offer
  <2> QED BY <2>1 DEF ChanOK, CapOK
<1> QED BY <1>1, <1>2

LEMMA TakeTyped ==
    ASSUME ChanOK, CapOK, NEW k \in Subs, BridgeTake(k)
    PROVE  ChanOK' /\ CapOK'
<1>1. ch[k] \in Seq(Items) /\ ch[k] # <<>> /\ Len(ch[k]) \in Nat
  BY LenProperties DEF ChanOK, BridgeTake
<1>2. <<Head(ch[k])>> \in Seq(Items) /\ Tail(ch[k]) \in Seq(Items)
  BY <1>1, HeadFirst
<1>3. Len(Tail(ch[k])) <= Len(ch[k]) /\ Len(<<Head(ch[k])>>) <= 1
  BY <1>1, HeadTailProperties
<1>4. ChanOK'
  BY <1>2 DEF ChanOK, BridgeTake, history
<1>5. CapOK'
  BY <1>1, <1>2, <1>3, Bounds DEF CapOK, ChanOK, BridgeTake
<1> QED BY <1>4, <1>5

LEMMA PutTyped ==
    ASSUME ChanOK, CapOK, NEW k \in Subs, BridgePut(k)
    PROVE  ChanOK' /\ CapOK'
<1>1. out[k] \in Seq(Items) /\ hand[k] \in Seq(Items)
      /\ Len(out[k]) \in Nat /\ Len(hand[k]) \in Nat
  BY LenProperties DEF ChanOK
<1>2. out[k] \o hand[k] \in Seq(Items)
      /\ Len(out[k] \o hand[k]) = Len(out[k]) + Len(hand[k])
  BY <1>1, ConcatProperties
<1>3. Len(out[k] \o hand[k]) <= OutCap
  <2>1. Len(out[k]) < OutCap /\ Len(hand[k]) <= 1
    BY DEF CapOK, BridgePut
  <2>2. \A a, b \in Nat : a < OutCap /\ b <= 1 => a + b <= OutCap
    BY Bounds
  <2>3. Len(out[k]) + Len(hand[k]) <= OutCap
    BY <1>1, <2>1, <2>2
  <2> QED BY <1>2, <2>3
<1>4. ChanOK'
  BY <1>2, EmptySeq DEF ChanOK, BridgePut, history
<1>5. CapOK'
  BY <1>3, EmptySeq DEF CapOK, ChanOK, BridgePut
<1> QED BY <1>4, <1>5

LEMMA ReceiveTyped ==
    ASSUME ChanOK, CapOK, NEW k \in Subs, ReceiveEvent(k)
    PROVE  ChanOK' /\ CapOK'
<1>1. out[k] \in Seq(Items) /\ out[k] # <<>> /\ Len(out[k]) \in Nat /\ got[k] \in Seq(Items)
  BY LenProperties DEF ChanOK, ReceiveEvent
<1>2. Head(out[k]) \in Items /\ Tail(out[k]) \in Seq(Items)
      /\ Len(Tail(out[k])) <= Len(out[k])
  BY <1>1, HeadTailProperties
<1>3. Append(got[k], Head(out[k])) \in Seq(Items)
  BY <1>1, <1>2, AppendProperties
<1>4. ChanOK'
  BY <1>2, <1>3 DEF ChanOK, ReceiveEvent
<1>5. CapOK'
  <2>1. Len(Tail(out[k])) <= OutCap
    BY <1>1, <1>2, Bounds, LenProperties DEF CapOK
  <2> QED BY <2>1 DEF CapOK, ChanOK, ReceiveEvent
<1> QED BY <1>4, <1>5

\* What the end of a bridge does to its channels.
LEMMA StopParts ==
    ASSUME ChanOK, CapOK, NEW k \in Subs, BridgeStop(k)
    PROVE  \E f, r \in Seq(Items) :
             /\ ch[k] = f \o r
             /\ Len(out[k] \o f) <= OutCap
             /\ out' = [out EXCEPT ![k] = @ \o f]
             /\ dropped' = [dropped EXCEPT ![k] = @ \cup ToSet(r)]
<1> DEFINE c == ch[k]
<1> DEFINE room == OutCap - Len(out[k])
<1> DEFINE m == Min({room, Len(c)})
<1> DEFINE f == SubSeq(c, 1, m)
<1> DEFINE r == SubSeq(c, m + 1, Len(c))
<1>1. c \in Seq(Items) /\ out[k] \in Seq(Items) /\ Len(c) \in Nat /\ Len(out[k]) \in Nat
  BY LenProperties DEF ChanOK
<1>2. room \in Nat
  BY <1>1, Bounds DEF CapOK
<1>3. m = IF room <= Len(c) THEN room ELSE Len(c)
  <2> HIDE DEF room, c
  <2> QED BY <1>1, <1>2, MinOfTwo
<1>4. m \in 0 .. Len(c) /\ m <= room
  <2> HIDE DEF room, c, m
  <2> QED BY <1>1, <1>2, <1>3
<1>5. f \in Seq(Items) /\ r \in Seq(Items) /\ Len(f) = m /\ c = f \o r
  <2> HIDE DEF m, c
  <2> QED BY <1>1, <1>4, Split
<1>6. r = SubSeq(c, room + 1, Len(c))
  <2>1. CASE room <= Len(c)
    <3> HIDE DEF room, c, m
    <3>1. m = room
      BY <1>3, <2>1
    <3> QED BY <3>1
  <2>2. CASE Len(c) < room
    <3> HIDE DEF room, c, m
    <3>1. m = Len(c)
      BY <1>1, <1>2, <1>3, <2>2
    <3>2. Len(c) < Len(c) + 1 /\ Len(c) < room + 1 /\ Len(c) + 1 \in Int /\ room + 1 \in Int
      BY <1>1, <1>2, <2>2
    <3>3. SubSeq(c, Len(c) + 1, Len(c)) = <<>> /\ SubSeq(c, room + 1, Len(c)) = <<>>
      BY <1>1, <3>2, SubSeqEmpty
    <3> QED BY <3>1, <3>3
  <2>3. room <= Len(c) \/ Len(c) < room
    <3> HIDE DEF room, c
    <3> QED BY <1>1, <1>2
  <2> QED BY <2>1, <2>2, <2>3
<1>7. Len(out[k] \o f) <= OutCap
  <2>1. Len(out[k] \o f) = Len(out[k]) + Len(f)
    <3> HIDE DEF f
    <3> QED BY <1>1, <1>5, ConcatProperties
  <2>2. Len(out[k]) + m <= OutCap
    <3> HIDE DEF m, c
    <3> QED BY <1>1, <1>4, Bounds
  <2> QED BY <1>5, <2>1, <2>2
<1>8. /\ out' = [out EXCEPT ![k] = @ \o f]
      /\ dropped' = [dropped EXCEPT ![k] = @ \cup ToSet(r)]
  <2>1. /\ out' = [out EXCEPT ![k] = @ \o SubSeq(c, 1, m)]
        /\ dropped' = [dropped EXCEPT ![k] = @ \cup ToSet(SubSeq(c, room + 1, Len(c)))]
    BY DEF BridgeStop
  <2> QED BY <1>6, <2>1
<1> HIDE DEF f, r
<1> QED BY <1>5, <1>7, <1>8

LEMMA StopTyped ==
    ASSUME ChanOK, CapOK, NEW k \in Subs, BridgeStop(k)
    PROVE  ChanOK' /\ CapOK'
<1>1. PICK f, r \in Seq(Items) :
        /\ ch[k] = f \o r
        /\ Len(out[k] \o f) <= OutCap
        /\ out' = [out EXCEPT ![k] = @ \o f]
        /\ dropped' = [dropped EXCEPT ![k] = @ \cup ToSet(r)]
  BY StopParts
<1>2. out[k] \o f \in Seq(Items) /\ ToSet(r) \subseteq Items
  BY ConcatProperties, SetOfTyped DEF ChanOK
<1>3. /\ ch' = [ch EXCEPT ![k] = <<>>] /\ UNCHANGED <<hand, got>>
      /\ bridge' = [bridge EXCEPT ![k] = "done"]
  BY DEF BridgeStop, AfterStop
<1>4. ChanOK'
  BY <1>1, <1>2, <1>3, EmptySeq DEF ChanOK
<1>5. CapOK'
  BY <1>1, <1>3, EmptySeq, Bounds DEF CapOK, ChanOK
<1> QED BY <1>4, <1>5

TypeInv == CoreOK /\ SubsOK /\ ChanOK /\ FlagsOK /\ CapOK

LEMMA EntryFields ==
    ASSUME NEW s \in Seq(Entry), NEW e \in ToSet(s)
    PROVE  e \in Entry /\ e.n \in Nat /\ e.kind \in Kinds
<1>1. ToSet(s) \subseteq Entry
  BY SetOfTyped
<1>2. e \in Entry
  BY <1>1
<1> QED BY <1>2, EntryAssumption, Bounds

\* Increasing sequences.
LEMMA IncreasingTail ==
    ASSUME NEW s \in Seq(Entry), s # <<>>, Increasing(s)
    PROVE  /\ Increasing(Tail(s))
           /\ \A e \in ToSet(Tail(s)) : Head(s).n < e.n
<1>1. /\ Head(s) = s[1] /\ Len(s) \in Nat /\ Len(Tail(s)) = Len(s) - 1
      /\ \A i \in 1 .. Len(Tail(s)) : Tail(s)[i] = s[i + 1]
      /\ Tail(s) \in Seq(Entry)
  BY HeadTailProperties, LenProperties
<1>2. DOMAIN s = 1 .. Len(s) /\ DOMAIN Tail(s) = 1 .. Len(s) - 1
  BY <1>1, LenProperties
<1>3. ASSUME NEW i \in 1 .. Len(s) - 1
      PROVE  i + 1 \in DOMAIN s /\ 1 \in DOMAIN s /\ 1 < i + 1 /\ Tail(s)[i] = s[i + 1]
  BY <1>1, <1>2
<1>4. ASSUME NEW i \in 1 .. Len(s) - 1, NEW j \in 1 .. Len(s) - 1, i < j
      PROVE  Tail(s)[i].n < Tail(s)[j].n
  BY <1>3, <1>4 DEF Increasing
<1>5. \A i \in 1 .. Len(s) - 1 : Head(s).n < Tail(s)[i].n
  BY <1>1, <1>3 DEF Increasing
<1>6. Increasing(Tail(s))
  BY <1>2, <1>4 DEF Increasing
<1>7. \A e \in ToSet(Tail(s)) : Head(s).n < e.n
  BY <1>2, <1>5 DEF ToSet
<1> QED BY <1>6, <1>7

LEMMA IncreasingAppend ==
    ASSUME NEW s \in Seq(Entry), NEW x \in Entry, Increasing(s),
           \A e \in ToSet(s) : e.n < x.n
    PROVE  Increasing(Append(s, x))
<1>1. /\ Len(s) \in Nat /\ Len(Append(s, x)) = Len(s) + 1
      /\ \A i \in 1 .. Len(s) : Append(s, x)[i] = s[i]
      /\ Append(s, x)[Len(s) + 1] = x
      /\ Append(s, x) \in Seq(Entry)
  BY AppendProperties, LenProperties
<1>2. DOMAIN s = 1 .. Len(s) /\ DOMAIN Append(s, x) = 1 .. Len(s) + 1
  BY <1>1, LenProperties
<1>3. \A i \in 1 .. Len(s) : s[i].n < x.n
  BY <1>2 DEF ToSet
<1>4. ASSUME NEW i \in 1 .. Len(s) + 1, NEW j \in 1 .. Len(s) + 1, i < j
      PROVE  Append(s, x)[i].n < Append(s, x)[j].n
  <2>1. i \in 1 .. Len(s) /\ (j \in 1 .. Len(s) \/ j = Len(s) + 1)
    BY <1>1, <1>4
  <2>2. CASE j \in 1 .. Len(s)
    BY <1>1, <1>2, <1>4, <2>1, <2>2 DEF Increasing
  <2>3. CASE j = Len(s) + 1
    BY <1>1, <1>3, <2>1, <2>3
  <2> QED BY <2>1, <2>2, <2>3
<1> QED BY <1>2, <1>4 DEF Increasing

\* A dispatch puts the newest event at the end of the ring.
LEMMA DispatchLog ==
    ASSUME CoreOK, LogInv, NEW kind \in Kinds, DispatchPush(kind)
    PROVE  /\ RingTypeOK' /\ LogInv'
           /\ event' \in Entry /\ event'.n = clock + 1
           /\ clock' = clock + 1 /\ clock' <= MaxEvents
           /\ ToSet(Snapshot(ring)') \subseteq ToSet(Snapshot(ring)) \cup {event'}
<1>1. event' \in Entry /\ event'.n = clock + 1 /\ clock' = clock + 1 /\ clock' <= MaxEvents
  BY EntryAssumption, Bounds DEF CoreOK, DispatchPush
<1>2. ring' = Pushed(ring, event') /\ ring \in Ring
  BY DEF DispatchPush, Push, CoreOK, RingTypeOK
<1>3. RingTypeOK'
  BY <1>1, <1>2, PushedLemma DEF RingTypeOK
<1> DEFINE old == Snapshot(ring)
<1> DEFINE kept == IF ring.size < Cap THEN old ELSE Tail(old)
<1>4. Snapshot(ring)' = Append(kept, event')
  BY <1>1, <1>2, PushSnapshot
<1>5. old \in Seq(Entry) /\ Increasing(old) /\ \A e \in ToSet(old) : e.n <= clock
  BY DEF LogInv
<1>6. kept \in Seq(Entry) /\ Increasing(kept) /\ ToSet(kept) \subseteq ToSet(old)
  <2>1. CASE ring.size < Cap
    BY <1>5, <2>1
  <2>2. CASE ~(ring.size < Cap)
    <3>1. old # <<>>
      <4>1. Len(old) = ring.size /\ ring.size > 0
        BY <1>2, <2>2, RingFields, SnapshotLemma
      <4> QED BY <4>1
    <3> HIDE DEF old
    <3>2. Tail(old) \in Seq(Entry) /\ Increasing(Tail(old)) /\ ToSet(Tail(old)) \subseteq ToSet(old)
      BY <1>5, <3>1, SetOfParts, IncreasingTail
    <3> QED BY <2>2, <3>2
  <2> QED BY <2>1, <2>2
<1> HIDE DEF old, kept
<1>7. \A e \in ToSet(kept) : e.n \in Nat /\ e.n <= clock
  BY <1>5, <1>6, EntryFields
<1>8. \A e \in ToSet(kept) : e.n < event'.n
  BY <1>1, <1>7 DEF CoreOK
<1>9. Append(kept, event') \in Seq(Entry) /\ Increasing(Append(kept, event'))
  BY <1>1, <1>6, <1>8, IncreasingAppend, AppendProperties
<1>10. ToSet(Append(kept, event')) = ToSet(kept) \cup {event'}
  BY <1>1, <1>6, SetOfAppend
<1>11. \A e \in ToSet(kept) \cup {event'} : e.n <= clock'
  BY <1>1, <1>7 DEF CoreOK
<1>12. LogInv'
  BY <1>4, <1>9, <1>10, <1>11 DEF LogInv
<1> QED BY <1>1, <1>3, <1>4, <1>6, <1>10, <1>12 DEF old

LEMMA LogKept ==
    ASSUME CoreOK, LogInv, UNCHANGED ring, clock' \in Nat, clock <= clock'
    PROVE  LogInv'
<1>1. Snapshot(ring)' = Snapshot(ring)
  BY DEF Snapshot
<1>2. \A e \in ToSet(Snapshot(ring)) : e.n \in Nat /\ e.n <= clock
  BY EntryFields DEF LogInv
<1>3. \A e \in ToSet(Snapshot(ring)) : e.n <= clock'
  BY <1>2 DEF CoreOK
<1> QED BY <1>1, <1>3 DEF LogInv

-----------------------------------------------------------------------------
(* A step keeps the types.                                                 *)

LEMMA PumpTyping ==
    ASSUME TypeInv, LogInv, PumpInv, Pump
    PROVE  TypeInv' /\ LogInv'
<1> USE DEF TypeInv
<1>1. ASSUME NEW kind \in Kinds, DispatchPush(kind)
      PROVE  TypeInv' /\ LogInv'
  <2>1. /\ RingTypeOK' /\ LogInv' /\ event' \in Entry
        /\ clock' = clock + 1 /\ clock' <= MaxEvents
    BY <1>1, DispatchLog
  <2>2. CoreOK'
    BY <1>1, <2>1, ItemTyped DEF CoreOK, DispatchPush
  <2>3. SubsOK' /\ ChanOK' /\ CapOK'
    BY <1>1 DEF SubsOK, ChanOK, CapOK, DispatchPush, subscription, channels
  <2>4. FlagsOK'
    BY <1>1 DEF FlagsOK, DispatchPush, Overlapping, SubsOK
  <2> QED BY <2>1, <2>2, <2>3, <2>4
<1>2. CASE BroadcastLost
  <2>1. CoreOK'
    BY <1>2, Bounds DEF CoreOK, BroadcastLost, Event, RingTypeOK
  <2>2. SubsOK' /\ ChanOK' /\ CapOK'
    BY <1>2 DEF SubsOK, ChanOK, CapOK, BroadcastLost, subscription, channels
  <2>3. FlagsOK'
    BY <1>2 DEF FlagsOK, BroadcastLost, Overlapping
  <2>4. LogInv'
    BY <1>2, LogKept DEF BroadcastLost, CoreOK
  <2> QED BY <2>1, <2>2, <2>3, <2>4
<1>3. CASE CopyTargets
  <2>1. CoreOK'
    BY <1>3 DEF CoreOK, CopyTargets, Matching, RingTypeOK
  <2>2. SubsOK' /\ ChanOK' /\ CapOK'
    BY <1>3 DEF SubsOK, ChanOK, CapOK, CopyTargets, subscription, channels
  <2>3. FlagsOK'
    BY <1>3 DEF FlagsOK, CopyTargets, Overlapping
  <2>4. LogInv'
    BY <1>3, LogKept DEF CopyTargets, CoreOK
  <2> QED BY <2>1, <2>2, <2>3, <2>4
<1>4. ASSUME NEW k \in Subs, SendNext(k)
      PROVE  TypeInv' /\ LogInv'
  <2>1. CoreOK'
    BY <1>4 DEF CoreOK, SendNext, RingTypeOK
  <2>2. SubsOK'
    BY <1>4 DEF SubsOK, SendNext, subscription
  <2>3. ChanOK' /\ CapOK'
    <3>1. UNCHANGED <<out, hand, got, bridge>>
      BY <1>4 DEF SendNext
    <3>2. CASE stop[k]
      BY <1>4, <3>1, <3>2 DEF SendNext, ChanOK, CapOK
    <3>3. CASE ~stop[k]
      <4>1. Offer(k, Item(event, "live")) /\ Item(event, "live") \in Items
        BY <1>4, <3>3, ItemTyped DEF SendNext, PumpInv
      <4> QED BY <3>1, <4>1, OfferTyped
    <3> QED BY <3>2, <3>3
  <2>4. FlagsOK'
    BY <1>4 DEF FlagsOK, SendNext, Overlapping
  <2>5. LogInv'
    BY <1>4, LogKept DEF SendNext, CoreOK
  <2> QED BY <2>1, <2>2, <2>3, <2>4, <2>5
<1>5. CASE DispatchDone
  <2>1. CoreOK'
    BY <1>5 DEF CoreOK, DispatchDone, RingTypeOK
  <2>2. SubsOK' /\ ChanOK' /\ CapOK' /\ FlagsOK'
    BY <1>5 DEF SubsOK, ChanOK, CapOK, FlagsOK, DispatchDone, subscription, channels, history
  <2>4. LogInv'
    BY <1>5, LogKept DEF DispatchDone, CoreOK
  <2> QED BY <2>1, <2>2, <2>4
<1>6. /\ (\E kind \in Kinds : DispatchPush(kind)) => TypeInv' /\ LogInv'
      /\ (\E k \in Subs : SendNext(k)) => TypeInv' /\ LogInv'
  BY <1>1, <1>4
<1> QED BY <1>2, <1>3, <1>5, <1>6 DEF Pump

LEMMA SubscribeTyping ==
    ASSUME TypeInv, LogInv, NEW k \in Subs, Subscribe(k)
    PROVE  TypeInv' /\ LogInv'
<1> USE DEF TypeInv
<1>1. ASSUME NEW kind \in Kinds \cup {Lost}, NEW since \in 0 .. clock,
             TakeSnapshot(k, kind, since)
      PROVE  TypeInv' /\ LogInv'
  <2>1. CoreOK' /\ ChanOK' /\ CapOK'
    BY <1>1 DEF CoreOK, ChanOK, CapOK, TakeSnapshot, readLoop, channels, RingTypeOK
  <2>2. SubsOK'
    <3>1. [kind |-> kind, since |-> since] \in Wants
      BY DEF Wants, CoreOK
    <3> QED BY <1>1, <3>1 DEF SubsOK, TakeSnapshot, LogInv
  <2>3. FlagsOK'
    BY <1>1 DEF FlagsOK, TakeSnapshot
  <2>4. LogInv'
    BY <1>1, LogKept DEF TakeSnapshot, readLoop, CoreOK
  <2> QED BY <2>1, <2>2, <2>3, <2>4
<1>2. CASE RegisterSub(k)
  <2>1. CoreOK' /\ ChanOK' /\ CapOK' /\ SubsOK' /\ FlagsOK'
    BY <1>2 DEF CoreOK, ChanOK, CapOK, SubsOK, FlagsOK, RegisterSub, readLoop, channels,
                history, RingTypeOK
  <2>2. LogInv'
    BY <1>2, LogKept DEF RegisterSub, readLoop, CoreOK
  <2> QED BY <2>1, <2>2
<1>3. CASE ReplayNext(k)
  <2>1. CoreOK' /\ FlagsOK'
    BY <1>3 DEF CoreOK, FlagsOK, ReplayNext, readLoop, RingTypeOK
  <2>2. entries[k] \in Seq(Entry) /\ entries[k] # <<>>
    BY <1>3 DEF SubsOK, ReplayNext
  <2>3. Head(entries[k]) \in Entry /\ Tail(entries[k]) \in Seq(Entry)
    BY <2>2, SetOfParts
  <2>4. SubsOK'
    BY <1>3, <2>3 DEF SubsOK, ReplayNext
  <2>5. ChanOK' /\ CapOK'
    <3>1. UNCHANGED <<out, hand, got, bridge>>
      BY <1>3 DEF ReplayNext
    <3>2. CASE Replayed(Head(entries[k]), want[k])
      <4>1. Offer(k, Item(Head(entries[k]), "replay"))
        BY <1>3, <3>2 DEF ReplayNext
      <4>2. Item(Head(entries[k]), "replay") \in Items
        BY <2>3, ItemTyped
      <4> QED BY <3>1, <4>1, <4>2, OfferTyped
    <3>3. CASE ~Replayed(Head(entries[k]), want[k])
      BY <1>3, <3>1, <3>3 DEF ReplayNext, ChanOK, CapOK
    <3> QED BY <3>2, <3>3
  <2>6. LogInv'
    BY <1>3, LogKept DEF ReplayNext, readLoop, CoreOK
  <2> QED BY <2>1, <2>4, <2>5, <2>6
<1>4. CASE StartBridge(k)
  <2>1. CoreOK' /\ ChanOK' /\ CapOK' /\ SubsOK' /\ FlagsOK'
    BY <1>4 DEF CoreOK, ChanOK, CapOK, SubsOK, FlagsOK, StartBridge, readLoop,
                history, RingTypeOK
  <2>2. LogInv'
    BY <1>4, LogKept DEF StartBridge, readLoop, CoreOK
  <2> QED BY <2>1, <2>2
<1>5. (\E kind \in Kinds \cup {Lost}, since \in 0 .. clock : TakeSnapshot(k, kind, since))
         => TypeInv' /\ LogInv'
  BY <1>1
<1> QED BY <1>2, <1>3, <1>4, <1>5 DEF Subscribe

\* What a bridge and a caller leave alone.
Control == <<ring, readLoop, registered, subscription, overlap, lostOwed>>

LEMMA ChannelTyping ==
    ASSUME TypeInv, LogInv, NEW k \in Subs, Bridge(k) \/ ReceiveEvent(k)
    PROVE  TypeInv' /\ LogInv' /\ UNCHANGED Control
<1>1. UNCHANGED Control
  BY DEF Control, Bridge, BridgeTake, BridgePut, BridgeStop, ReceiveEvent, history
<1>2. CoreOK' /\ SubsOK' /\ FlagsOK'
  BY <1>1 DEF TypeInv, CoreOK, SubsOK, FlagsOK, Control, readLoop, subscription, RingTypeOK
<1>3. ChanOK' /\ CapOK'
  BY TakeTyped, PutTyped, StopTyped, ReceiveTyped DEF TypeInv, Bridge
<1>4. LogInv'
  BY <1>1, LogKept DEF Control, readLoop, TypeInv, CoreOK
<1> QED BY <1>1, <1>2, <1>3, <1>4 DEF TypeInv

LEMMA CancelTyping ==
    ASSUME TypeInv, LogInv, NEW k \in Subs, CancelSub(k) \/ CloseStop(k)
    PROVE  TypeInv' /\ LogInv'
<1>1. CoreOK' /\ SubsOK'
  BY DEF TypeInv, CoreOK, SubsOK, CancelSub, CloseStop, readLoop, subscription, RingTypeOK
<1>2. ChanOK' /\ CapOK' /\ FlagsOK'
  BY DEF TypeInv, ChanOK, CapOK, FlagsOK, CancelSub, CloseStop, channels, history
<1>3. LogInv'
  BY LogKept DEF CancelSub, CloseStop, readLoop, TypeInv, CoreOK
<1> QED BY <1>1, <1>2, <1>3 DEF TypeInv

LEMMA TypingStep ==
    ASSUME TypeInv, LogInv, PumpInv, [Next]_vars
    PROVE  TypeInv' /\ LogInv'
<1>1. CASE UNCHANGED vars
  <2>1. CoreOK' /\ SubsOK'
    BY <1>1 DEF TypeInv, CoreOK, SubsOK, vars, readLoop, subscription, RingTypeOK
  <2>2. ChanOK' /\ CapOK' /\ FlagsOK'
    BY <1>1 DEF TypeInv, ChanOK, CapOK, FlagsOK, vars, channels, history
  <2>3. LogInv'
    BY <1>1, LogKept DEF vars, readLoop, TypeInv, CoreOK
  <2> QED BY <2>1, <2>2, <2>3 DEF TypeInv
<1>2. CASE Pump
  BY <1>2, PumpTyping
<1>3. ASSUME NEW k \in Subs,
             Subscribe(k) \/ Bridge(k) \/ ReceiveEvent(k) \/ CancelSub(k) \/ CloseStop(k)
      PROVE  TypeInv' /\ LogInv'
  BY <1>3, SubscribeTyping, ChannelTyping, CancelTyping
<1> QED BY <1>1, <1>2, <1>3 DEF Next

-----------------------------------------------------------------------------
(* What a step does to the line of channels of a subscription.             *)

Same(k) == Line(k)' = Line(k) /\ dropped'[k] = dropped[k]

Added(k, item) ==
    \/ Line(k)' = Append(Line(k), item) /\ dropped'[k] = dropped[k]
    \/ /\ Line(k)' = Line(k) /\ dropped'[k] = dropped[k] \cup {item}
       /\ ~(Len(ch[k]) < ChCap)

Cut(k) ==
    \E r \in Seq(Items) :
        /\ Line(k)' \in Seq(Items) /\ Line(k) = Line(k)' \o r
        /\ dropped'[k] = dropped[k] \cup ToSet(r)

LEMMA LineTyped ==
    ASSUME ChanOK, NEW k \in Subs
    PROVE  /\ Line(k) \in Seq(Items) /\ dropped[k] \subseteq Items
           /\ got[k] \in Seq(Items) /\ out[k] \in Seq(Items)
           /\ hand[k] \in Seq(Items) /\ ch[k] \in Seq(Items)
           /\ got[k] \o out[k] \in Seq(Items)
           /\ got[k] \o out[k] \o hand[k] \in Seq(Items)
<1>1. /\ got[k] \in Seq(Items) /\ out[k] \in Seq(Items)
      /\ hand[k] \in Seq(Items) /\ ch[k] \in Seq(Items) /\ dropped[k] \subseteq Items
  BY DEF ChanOK
<1>2. got[k] \o out[k] \in Seq(Items)
  BY <1>1, ConcatProperties
<1>3. got[k] \o out[k] \o hand[k] \in Seq(Items)
  BY <1>1, <1>2, ConcatProperties
<1>4. got[k] \o out[k] \o hand[k] \o ch[k] \in Seq(Items)
  BY <1>1, <1>3, ConcatProperties
<1> QED BY <1>1, <1>2, <1>3, <1>4 DEF Line

LEMMA ChannelsSame ==
    ASSUME UNCHANGED <<ch, out, hand, got, dropped>>
    PROVE  \A k \in Subs : Same(k)
  BY DEF Same, Line

LEMMA OfferEffect ==
    ASSUME ChanOK, NEW k \in Subs, NEW item \in Items, Offer(k, item),
           UNCHANGED <<out, hand, got>>
    PROVE  Added(k, item) /\ \A j \in Subs \ {k} : Same(j)
<1>1. CASE Len(ch[k]) < ChCap
  <2>1. ch' = [ch EXCEPT ![k] = Append(@, item)] /\ UNCHANGED dropped
    BY <1>1 DEF Offer
  <2>2. ch'[k] = Append(ch[k], item) /\ \A j \in Subs \ {k} : ch'[j] = ch[j]
    BY <2>1 DEF ChanOK
  <2>3. Line(k)' = Append(Line(k), item)
    <3> DEFINE x == got[k] \o out[k] \o hand[k]
    <3>1. x \in Seq(Items) /\ ch[k] \in Seq(Items)
      BY LineTyped
    <3>2. Line(k)' = x \o Append(ch[k], item) /\ Line(k) = x \o ch[k]
      BY <2>2 DEF Line
    <3> HIDE DEF x
    <3> QED BY <3>1, <3>2, LineOffer
  <2> QED BY <2>1, <2>2, <2>3 DEF Added, Same, Line
<1>2. CASE ~(Len(ch[k]) < ChCap)
  <2>1. dropped' = [dropped EXCEPT ![k] = @ \cup {item}] /\ UNCHANGED ch
    BY <1>2 DEF Offer
  <2> QED BY <1>2, <2>1 DEF Added, Same, Line, ChanOK
<1> QED BY <1>1, <1>2

LEMMA CarryEffect ==
    ASSUME ChanOK, NEW k \in Subs, BridgeTake(k) \/ BridgePut(k) \/ ReceiveEvent(k)
    PROVE  \A j \in Subs : Same(j)
<1>0. /\ got[k] \in Seq(Items) /\ out[k] \in Seq(Items)
      /\ hand[k] \in Seq(Items) /\ ch[k] \in Seq(Items)
  BY LineTyped
<1>1. CASE BridgeTake(k)
  <2>1. /\ ch[k] # <<>> /\ hand[k] = <<>> /\ hand'[k] = <<Head(ch[k])>>
        /\ ch'[k] = Tail(ch[k]) /\ UNCHANGED <<out, got, dropped>>
        /\ \A j \in Subs \ {k} : ch'[j] = ch[j] /\ hand'[j] = hand[j]
    BY <1>1 DEF BridgeTake, ChanOK, history
  <2>2. Line(k)' = Line(k)
    <3>1. Line(k)' = Chain(got[k], out'[k], hand'[k], ch'[k])
          /\ Line(k) = Chain(got[k], out[k], hand[k], ch[k])
      BY <2>1 DEF Line, Chain
    <3> QED BY <1>0, <2>1, <3>1, LineTake
  <2> QED BY <2>1, <2>2 DEF Same, Line
<1>2. CASE BridgePut(k)
  <2>1. /\ out'[k] = out[k] \o hand[k] /\ hand'[k] = <<>> /\ UNCHANGED <<ch, got, dropped>>
        /\ \A j \in Subs \ {k} : out'[j] = out[j] /\ hand'[j] = hand[j]
    BY <1>2 DEF BridgePut, ChanOK, history
  <2>2. Line(k)' = Line(k)
    <3>1. Line(k)' = Chain(got[k], out'[k], hand'[k], ch'[k])
          /\ Line(k) = Chain(got[k], out[k], hand[k], ch[k])
      BY <2>1 DEF Line, Chain
    <3> QED BY <1>0, <2>1, <3>1, LinePut
  <2> QED BY <2>1, <2>2 DEF Same, Line
<1>3. CASE ReceiveEvent(k)
  <2>1. /\ out[k] # <<>> /\ got'[k] = Append(got[k], Head(out[k]))
        /\ out'[k] = Tail(out[k]) /\ UNCHANGED <<ch, hand, dropped>>
        /\ \A j \in Subs \ {k} : out'[j] = out[j] /\ got'[j] = got[j]
    BY <1>3 DEF ReceiveEvent, ChanOK
  <2>2. got'[k] \o out'[k] = got[k] \o out[k]
    BY <1>0, <2>1, LineReceive
  <2>3. Line(k)' = Line(k)
    BY <2>1, <2>2 DEF Line
  <2> QED BY <2>1, <2>3 DEF Same, Line
<1> QED BY <1>1, <1>2, <1>3

LEMMA CutEffect ==
    ASSUME ChanOK, CapOK, NEW k \in Subs, BridgeStop(k)
    PROVE  Cut(k) /\ \A j \in Subs \ {k} : Same(j)
<1>1. PICK f, r \in Seq(Items) :
        /\ ch[k] = f \o r
        /\ out' = [out EXCEPT ![k] = @ \o f]
        /\ dropped' = [dropped EXCEPT ![k] = @ \cup ToSet(r)]
  BY StopParts
<1>2. /\ hand[k] = <<>> /\ ch' = [ch EXCEPT ![k] = <<>>] /\ UNCHANGED <<hand, got>>
  BY DEF BridgeStop
<1>3. /\ out'[k] = out[k] \o f /\ dropped'[k] = dropped[k] \cup ToSet(r) /\ ch'[k] = <<>>
      /\ \A j \in Subs \ {k} : out'[j] = out[j] /\ dropped'[j] = dropped[j] /\ ch'[j] = ch[j]
  BY <1>1, <1>2 DEF ChanOK
<1>4. got[k] \in Seq(Items) /\ out[k] \in Seq(Items)
  BY LineTyped
<1>5. Line(k) = Line(k)' \o r
  <2>1. /\ Line(k) = Chain(got[k], out[k], <<>>, f \o r)
        /\ Line(k)' = Chain(got[k], out[k] \o f, <<>>, <<>>)
    BY <1>1, <1>2, <1>3 DEF Line, Chain
  <2> DEFINE Stopped(g, o, p, q) == Chain(g, o, <<>>, p \o q) = Chain(g, o \o p, <<>>, <<>>) \o q
  <2>2. \A S : \A g, o, p, q \in Seq(S) : Stopped(g, o, p, q)
    BY LineStop, Zenon
  <2>3. Stopped(got[k], out[k], f, r)
    <3> HIDE DEF Stopped
    <3> QED BY <1>4, <2>2
  <2> QED BY <2>1, <2>3
<1>6. Line(k)' \in Seq(Items)
  <2>1. ChanOK'
    BY StopTyped
  <2>2. /\ got'[k] \in Seq(Items) /\ out'[k] \in Seq(Items)
        /\ hand'[k] \in Seq(Items) /\ ch'[k] \in Seq(Items)
    BY <2>1 DEF ChanOK
  <2>3. got'[k] \o out'[k] \in Seq(Items)
    BY <2>2, ConcatProperties
  <2>4. got'[k] \o out'[k] \o hand'[k] \in Seq(Items)
    BY <2>2, <2>3, ConcatProperties
  <2>5. got'[k] \o out'[k] \o hand'[k] \o ch'[k] \in Seq(Items)
    BY <2>2, <2>4, ConcatProperties
  <2> QED BY <2>5 DEF Line
<1> QED BY <1>2, <1>3, <1>5, <1>6 DEF Cut, Same, Line

-----------------------------------------------------------------------------
(* A step as subscription k sees it.                                       *)

Snap == ToSet(Snapshot(ring))

Registry(k) ==
    UNCHANGED <<at[k], want[k], entries[k], stop[k], bridge[k]>>
    /\ (k \in registered' <=> k \in registered)

ReadLoop(k) ==
    UNCHANGED <<clock, pump, event>> /\ Snap' = Snap
    /\ (k \in targets' <=> k \in targets)

Overlaps(k) == overlap'[k] = (overlap[k] \/ at[k] = "snapped")

\* Dispatch and broadcast of an event.
SeesNew(k) ==
    /\ pump = "idle" /\ pump' = "pushed" /\ UNCHANGED targets
    /\ clock' = clock + 1 /\ event' \in Event /\ event'.n = clock + 1
    /\ Snap' \subseteq Snap \cup {event'}
    /\ lostOwed'[k] = (lostOwed[k] \/ (/\ event'.kind = Lost /\ want[k].kind = Lost
                                       /\ k \in registered))
    /\ Registry(k) /\ Same(k) /\ Overlaps(k)

SeesCopy(k) ==
    /\ pump = "pushed" /\ pump' = "sending" /\ UNCHANGED <<clock, event>> /\ Snap' = Snap
    /\ (k \in targets' <=> k \in registered /\ want[k].kind = event.kind)
    /\ Registry(k) /\ Same(k) /\ Overlaps(k) /\ lostOwed'[k] = lostOwed[k]

SeesSend(k) ==
    /\ pump = "sending" /\ UNCHANGED <<clock, pump, event>> /\ Snap' = Snap
    /\ k \in targets /\ k \notin targets'
    /\ (stop[k] /\ Same(k)) \/ (~stop[k] /\ Added(k, Item(event, "live")))
    /\ Registry(k) /\ Overlaps(k) /\ lostOwed'[k] = lostOwed[k]

SeesOther(k) ==
    /\ pump = "sending" /\ ReadLoop(k)
    /\ Registry(k) /\ Same(k) /\ Overlaps(k) /\ lostOwed'[k] = lostOwed[k]

SeesDone(k) ==
    /\ pump = "sending" /\ targets = {} /\ pump' = "idle" /\ targets' = targets
    /\ UNCHANGED clock /\ Snap' = Snap
    /\ Registry(k) /\ Same(k) /\ UNCHANGED <<overlap[k], lostOwed[k]>>

SeesSnapshot(k) ==
    /\ at[k] = "new" /\ at'[k] = "snapped"
    /\ entries'[k] = Snapshot(ring) /\ overlap'[k] = (pump # "idle")
    /\ ReadLoop(k) /\ UNCHANGED ring /\ Same(k)
    /\ UNCHANGED <<stop[k], bridge[k], lostOwed[k]>> /\ (k \in registered' <=> k \in registered)

SeesRegister(k) ==
    /\ at[k] = "snapped" /\ at'[k] = "replay" /\ k \in registered'
    /\ ReadLoop(k) /\ Same(k)
    /\ UNCHANGED <<want[k], entries[k], stop[k], bridge[k], overlap[k], lostOwed[k]>>

SeesReplay(k) ==
    /\ at[k] = "replay" /\ entries[k] # <<>> /\ entries'[k] = Tail(entries[k])
    /\ IF Replayed(Head(entries[k]), want[k])
       THEN Added(k, Item(Head(entries[k]), "replay"))
       ELSE Same(k)
    /\ ReadLoop(k) /\ (k \in registered' <=> k \in registered)
    /\ UNCHANGED <<at[k], want[k], stop[k], bridge[k], overlap[k], lostOwed[k]>>

SeesStart(k) ==
    /\ at[k] = "replay" /\ entries[k] = <<>> /\ at'[k] = "live"
    /\ ReadLoop(k) /\ Same(k) /\ (k \in registered' <=> k \in registered)
    /\ UNCHANGED <<want[k], entries[k], stop[k], overlap[k], lostOwed[k]>>

SeesCancel(k) ==
    /\ at[k] = "live" /\ k \notin registered'
    /\ ReadLoop(k) /\ Same(k)
    /\ UNCHANGED <<at[k], want[k], entries[k], overlap[k], lostOwed[k]>>

\* The end of the bridge.
SeesEnd(k) ==
    /\ stop[k] /\ Cut(k) /\ ReadLoop(k) /\ (k \in registered' <=> k \in registered)
    /\ UNCHANGED <<at[k], want[k], entries[k], stop[k], overlap[k], lostOwed[k]>>

SeesNothing(k) ==
    ReadLoop(k) /\ Registry(k) /\ Same(k) /\ UNCHANGED <<overlap[k], lostOwed[k]>>

LEMMA PumpView ==
    ASSUME TypeInv, LogInv, PumpInv, Pump, NEW k \in Subs
    PROVE  SeesNew(k) \/ SeesCopy(k) \/ SeesSend(k) \/ SeesOther(k) \/ SeesDone(k)
<1> USE DEF TypeInv
<1>1. ASSUME NEW kind \in Kinds, DispatchPush(kind)
      PROVE  SeesNew(k)
  <2>1. /\ event' \in Entry /\ event'.n = clock + 1
        /\ ToSet(Snapshot(ring)') \subseteq ToSet(Snapshot(ring)) \cup {event'}
    BY <1>1, DispatchLog
  <2>2. Registry(k) /\ Same(k)
    BY <1>1, ChannelsSame DEF DispatchPush, Registry, subscription, channels
  <2>3. Overlaps(k)
    BY <1>1 DEF DispatchPush, Overlapping, Overlaps
  <2>4. lostOwed'[k] = lostOwed[k] /\ event'.kind # Lost
    BY <1>1, Bounds DEF DispatchPush
  <2>5. Snap' \subseteq Snap \cup {event'}
    BY <2>1 DEF Snap
  <2>6. /\ pump = "idle" /\ pump' = "pushed" /\ UNCHANGED targets
        /\ clock' = clock + 1 /\ event' \in Event
    BY <1>1, <2>1, ItemTyped DEF DispatchPush
  <2>7. lostOwed[k] \in BOOLEAN
    BY DEF FlagsOK
  <2>8. lostOwed'[k] = (lostOwed[k] \/ (/\ event'.kind = Lost /\ want[k].kind = Lost
                                        /\ k \in registered))
    BY <2>4, <2>7
  <2> QED BY <2>1, <2>2, <2>3, <2>5, <2>6, <2>8 DEF SeesNew
<1>2. CASE BroadcastLost
  <2>1. Registry(k) /\ Same(k)
    BY <1>2, ChannelsSame DEF BroadcastLost, Registry, subscription, channels
  <2>2. Overlaps(k)
    BY <1>2 DEF BroadcastLost, Overlapping, Overlaps
  <2>3. /\ pump = "idle" /\ pump' = "pushed" /\ UNCHANGED targets
        /\ clock' = clock + 1 /\ event' \in Event /\ event'.n = clock + 1 /\ event'.kind = Lost
    BY <1>2, Bounds DEF BroadcastLost, Event, CoreOK
  <2>4. Snap' = Snap
    BY <1>2 DEF BroadcastLost, Snap, Snapshot
  <2>5. lostOwed'[k] = (lostOwed[k] \/ (want[k].kind = Lost /\ k \in registered))
    BY <1>2 DEF BroadcastLost
  <2>6. lostOwed'[k] = (lostOwed[k] \/ (/\ event'.kind = Lost /\ want[k].kind = Lost
                                        /\ k \in registered))
    BY <2>3, <2>5
  <2> QED BY <2>1, <2>2, <2>3, <2>4, <2>6 DEF SeesNew
<1>3. CASE CopyTargets
  <2>1. Registry(k) /\ Same(k)
    BY <1>3, ChannelsSame DEF CopyTargets, Registry, subscription, channels
  <2>2. Overlaps(k)
    BY <1>3 DEF CopyTargets, Overlapping, Overlaps
  <2>3. /\ pump = "pushed" /\ pump' = "sending" /\ UNCHANGED <<clock, event, lostOwed>>
        /\ (k \in targets' <=> k \in registered /\ want[k].kind = event.kind)
    BY <1>3 DEF CopyTargets, Matching
  <2>4. Snap' = Snap
    BY <1>3 DEF CopyTargets, Snap, Snapshot
  <2> QED BY <2>1, <2>2, <2>3, <2>4 DEF SeesCopy
<1>4. ASSUME NEW j \in Subs, SendNext(j)
      PROVE  SeesSend(k) \/ SeesOther(k)
  <2>1. Registry(k) /\ UNCHANGED <<clock, pump, event, lostOwed>> /\ pump = "sending"
        /\ UNCHANGED <<out, hand, got>> /\ targets' = targets \ {j} /\ j \in targets
    BY <1>4 DEF SendNext, Registry, subscription
  <2>2. Overlaps(k)
    BY <1>4 DEF SendNext, Overlapping, Overlaps
  <2>3. Snap' = Snap
    BY <1>4 DEF SendNext, Snap, Snapshot
  <2>4. CASE stop[j]
    <3>1. Same(k)
      BY <1>4, <2>1, <2>4, ChannelsSame DEF SendNext
    <3> QED BY <2>1, <2>2, <2>3, <2>4, <3>1 DEF SeesSend, SeesOther, ReadLoop
  <2>5. CASE ~stop[j]
    <3>1. Offer(j, Item(event, "live")) /\ Item(event, "live") \in Items
      BY <1>4, <2>5, ItemTyped DEF SendNext, PumpInv
    <3>2. Added(j, Item(event, "live")) /\ \A i \in Subs \ {j} : Same(i)
      BY <2>1, <3>1, OfferEffect
    <3> QED BY <2>1, <2>2, <2>3, <2>5, <3>2 DEF SeesSend, SeesOther, ReadLoop
  <2> QED BY <2>4, <2>5
<1>5. CASE DispatchDone
  <2>1. Registry(k) /\ Same(k)
    BY <1>5, ChannelsSame DEF DispatchDone, Registry, subscription, channels, history
  <2>2. Snap' = Snap
    BY <1>5 DEF DispatchDone, Snap, Snapshot
  <2> QED BY <1>5, <2>1, <2>2 DEF DispatchDone, SeesDone, history
<1>6. /\ (\E kind \in Kinds : DispatchPush(kind)) => SeesNew(k)
      /\ (\E j \in Subs : SendNext(j)) => SeesSend(k) \/ SeesOther(k)
  BY <1>1, <1>4
<1> QED BY <1>2, <1>3, <1>5, <1>6 DEF Pump

LEMMA SubscribeView ==
    ASSUME TypeInv, NEW j \in Subs, Subscribe(j), NEW k \in Subs
    PROVE  \/ SeesNothing(k)
           \/ SeesSnapshot(k) \/ SeesRegister(k) \/ SeesReplay(k) \/ SeesStart(k)
<1> USE DEF TypeInv
<1>0. ReadLoop(k)
  <2>1. UNCHANGED ring /\ UNCHANGED readLoop
    BY DEF Subscribe, TakeSnapshot, RegisterSub, ReplayNext, StartBridge
  <2> QED BY <2>1 DEF ReadLoop, readLoop, Snap, Snapshot
<1>1. ASSUME NEW kind \in Kinds \cup {Lost}, NEW since \in 0 .. clock,
             TakeSnapshot(j, kind, since)
      PROVE  SeesNothing(k) \/ SeesSnapshot(k)
  <2>1. Same(k)
    BY <1>1, ChannelsSame DEF TakeSnapshot, channels
  <2>2. CASE j = k
    BY <1>0, <1>1, <2>1, <2>2 DEF TakeSnapshot, SeesSnapshot, SubsOK, FlagsOK, channels
  <2>3. CASE j # k
    BY <1>0, <1>1, <2>1, <2>3 DEF TakeSnapshot, SeesNothing, Registry, SubsOK, FlagsOK, channels
  <2> QED BY <2>2, <2>3
<1>2. CASE RegisterSub(j)
  <2>1. Same(k)
    BY <1>2, ChannelsSame DEF RegisterSub, channels, history
  <2>2. CASE j = k
    BY <1>0, <1>2, <2>1, <2>2 DEF RegisterSub, SeesRegister, SubsOK, channels, history
  <2>3. CASE j # k
    BY <1>0, <1>2, <2>1, <2>3 DEF RegisterSub, SeesNothing, Registry, SubsOK, channels, history
  <2> QED BY <2>2, <2>3
<1>3. CASE ReplayNext(j)
  <2> DEFINE e == Head(entries[j])
  <2>1. UNCHANGED <<out, hand, got>> /\ e \in Entry
    BY <1>3, SetOfParts DEF ReplayNext, SubsOK
  <2>2. /\ Replayed(e, want[j]) => /\ Added(j, Item(e, "replay"))
                                   /\ \A i \in Subs \ {j} : Same(i)
        /\ ~Replayed(e, want[j]) => \A i \in Subs : Same(i)
    <3>1. CASE Replayed(e, want[j])
      <4>1. Offer(j, Item(e, "replay")) /\ Item(e, "replay") \in Items
        BY <1>3, <2>1, <3>1, ItemTyped DEF ReplayNext
      <4> HIDE DEF e
      <4> QED BY <2>1, <3>1, <4>1, OfferEffect
    <3>2. CASE ~Replayed(e, want[j])
      <4>1. UNCHANGED <<ch, out, hand, got, dropped>>
        BY <1>3, <2>1, <3>2 DEF ReplayNext
      <4> HIDE DEF e
      <4> QED BY <3>2, <4>1, ChannelsSame
    <3> QED BY <3>1, <3>2
  <2>3. CASE j = k
    BY <1>0, <1>3, <2>2, <2>3 DEF ReplayNext, SeesReplay, SubsOK
  <2>4. CASE j # k
    <3>1. Same(k)
      BY <2>2, <2>4
    <3> QED BY <1>0, <1>3, <2>4, <3>1 DEF ReplayNext, SeesNothing, Registry, SubsOK
  <2> QED BY <2>3, <2>4
<1>4. CASE StartBridge(j)
  <2>1. Same(k)
    BY <1>4, ChannelsSame DEF StartBridge, history
  <2>2. CASE j = k
    BY <1>0, <1>4, <2>1, <2>2 DEF StartBridge, SeesStart, SubsOK, history
  <2>3. CASE j # k
    BY <1>0, <1>4, <2>1, <2>3 DEF StartBridge, SeesNothing, Registry, SubsOK, ChanOK, history
  <2> QED BY <2>2, <2>3
<1>5. (\E kind \in Kinds \cup {Lost}, since \in 0 .. clock : TakeSnapshot(j, kind, since))
         => SeesNothing(k) \/ SeesSnapshot(k)
  BY <1>1
<1> QED BY <1>2, <1>3, <1>4, <1>5 DEF Subscribe

LEMMA ChannelView ==
    ASSUME TypeInv, LogInv, NEW j \in Subs, Bridge(j) \/ ReceiveEvent(j), NEW k \in Subs
    PROVE  SeesNothing(k) \/ SeesEnd(k)
<1> USE DEF TypeInv
<1>0. UNCHANGED Control
  BY ChannelTyping
<1>1. /\ ReadLoop(k) /\ (k \in registered' <=> k \in registered)
      /\ UNCHANGED <<at[k], want[k], entries[k], stop[k], overlap[k], lostOwed[k]>>
  BY <1>0 DEF Control, ReadLoop, readLoop, subscription, Snap, Snapshot
<1>2. CASE BridgeTake(j) \/ BridgePut(j) \/ ReceiveEvent(j)
  <2>1. Same(k)
    BY <1>2, CarryEffect
  <2>2. UNCHANGED bridge
    BY <1>2 DEF BridgeTake, BridgePut, ReceiveEvent
  <2> QED BY <1>1, <2>1, <2>2 DEF SeesNothing, Registry
<1>3. CASE BridgeStop(j)
  <2>1. Cut(j) /\ \A i \in Subs \ {j} : Same(i)
    BY <1>3, CutEffect
  <2>2. CASE j = k
    BY <1>1, <1>3, <2>1, <2>2 DEF SeesEnd, BridgeStop
  <2>3. CASE j # k
    <3>1. Same(k) /\ bridge'[k] = bridge[k]
      BY <1>3, <2>1, <2>3 DEF BridgeStop, ChanOK
    <3> QED BY <1>1, <3>1 DEF SeesNothing, Registry
  <2> QED BY <2>2, <2>3
<1> QED BY <1>2, <1>3 DEF Bridge

LEMMA CancelView ==
    ASSUME TypeInv, NEW j \in Subs, CancelSub(j) \/ CloseStop(j), NEW k \in Subs
    PROVE  SeesNothing(k) \/ SeesCancel(k)
<1> USE DEF TypeInv
<1>1. ReadLoop(k) /\ Same(k)
  <2>1. UNCHANGED <<ring, readLoop, channels, history>>
    BY DEF CancelSub, CloseStop
  <2>2. Same(k)
    BY <2>1, ChannelsSame DEF channels, history
  <2> QED BY <2>1, <2>2 DEF ReadLoop, readLoop, Snap, Snapshot
<1>2. CASE CancelSub(j)
  BY <1>1, <1>2 DEF CancelSub, SeesNothing, SeesCancel, Registry, subscription, channels, history
<1>3. CASE CloseStop(j)
  BY <1>1, <1>3 DEF CloseStop, SeesNothing, SeesCancel, Registry, SubsOK, channels, history
<1> QED BY <1>2, <1>3

LEMMA StutterView ==
    ASSUME UNCHANGED vars, NEW k \in Subs
    PROVE  SeesNothing(k)
<1>1. Same(k)
  BY ChannelsSame DEF vars, channels, history
<1> QED BY <1>1 DEF vars, SeesNothing, ReadLoop, Registry, readLoop, subscription, channels,
                    history, Snap, Snapshot

Views(k) ==
    \/ SeesNew(k) \/ SeesCopy(k) \/ SeesSend(k) \/ SeesOther(k) \/ SeesDone(k)
    \/ SeesSnapshot(k) \/ SeesRegister(k) \/ SeesReplay(k) \/ SeesStart(k)
    \/ SeesCancel(k) \/ SeesEnd(k) \/ SeesNothing(k)

LEMMA StepView ==
    ASSUME TypeInv, LogInv, PumpInv, [Next]_vars, NEW k \in Subs
    PROVE  Views(k)
<1>1. CASE UNCHANGED vars
  BY <1>1, StutterView DEF Views
<1>2. CASE Pump
  BY <1>2, PumpView DEF Views
<1>3. ASSUME NEW j \in Subs,
             Subscribe(j) \/ Bridge(j) \/ ReceiveEvent(j) \/ CancelSub(j) \/ CloseStop(j)
      PROVE  Views(k)
  BY <1>3, SubscribeView, ChannelView, CancelView DEF Views
<1> QED BY <1>1, <1>2, <1>3 DEF Next

-----------------------------------------------------------------------------
(* The invariant of a subscription.                                        *)

Before(k) == at[k] \in {"new", "snapped"}

\* The event in progress is still on its way to k.
Coming(k) == pump = "pushed" \/ (pump = "sending" /\ k \in targets)

TargetInv(k) ==
    k \in targets => pump = "sending" /\ want[k].kind = event.kind /\ ~Before(k)

PhaseInv(k) ==
    /\ Before(k) => /\ Line(k) = <<>> /\ dropped[k] = {} /\ k \notin registered
                    /\ ~lostOwed[k]
    /\ at[k] = "live" => entries[k] = <<>>
    /\ stop[k] => at[k] = "live" /\ k \notin registered

KindInv(k) == \A x \in Accounted(k) : x.kind = want[k].kind

EntriesInv(k) ==
    Increasing(entries[k]) /\ \A e \in ToSet(entries[k]) : e.n <= clock

\* Replay is behind the entries still to be replayed, live delivery is behind
\* the event still to be delivered.
BoundInv(k) ==
    \A x \in Accounted(k) :
        /\ x.n <= clock
        /\ x.via = "live" /\ Coming(k) => x.n < event.n
        /\ x.via = "replay" => \A e \in ToSet(entries[k]) : x.n < e.n

\* Each path keeps the order of dispatch.
Ordered(s) == \A i, j \in DOMAIN s : i < j /\ s[i].via = s[j].via => s[i].n < s[j].n
OrderInv(k) == Ordered(Line(k))

\* A loss that was broadcast to k has come or is coming.
LostInv(k) ==
    lostOwed[k] /\ k \in registered =>
        /\ want[k].kind = Lost
        /\ \/ \E x \in Accepted(k) : x.kind = Lost
           \/ event.kind = Lost /\ Coming(k)

\* Without a dispatch between snapshot and registration, replay and live
\* delivery meet without overlap ...
QuietInv(k) ==
    at[k] = "snapped" /\ ~overlap[k] => pump = "idle" /\ ToSet(entries[k]) = Snap

SplitInv(k) ==
    ~Before(k) /\ ~overlap[k] =>
        /\ \A e \in ToSet(entries[k]) :
              /\ pump # "idle" => e.n < event.n
              /\ \A y \in Accounted(k) : y.via = "live" => e.n < y.n
        /\ \A x \in Accounted(k) : x.via = "replay" =>
              /\ pump # "idle" => x.n < event.n
              /\ \A y \in Accounted(k) : y.via = "live" => x.n < y.n

\* ... and without a gap.
CoverInv(k) ==
    ~Before(k) /\ ~overlap[k] /\ k \in registered =>
        \A e \in Snap : Due(e, want[k]) =>
            \/ e \in ToSet(entries[k])
            \/ \E x \in Accounted(k) : x.n = e.n
            \/ e = event /\ Coming(k)

SubInv(k) ==
    /\ TargetInv(k) /\ PhaseInv(k) /\ KindInv(k) /\ EntriesInv(k) /\ BoundInv(k)
    /\ OrderInv(k) /\ LostInv(k) /\ QuietInv(k) /\ SplitInv(k) /\ CoverInv(k)

-----------------------------------------------------------------------------
(* What the moves of the line mean for what is accounted for.              *)

LEMMA SameSets ==
    ASSUME NEW k \in Subs, Same(k)
    PROVE  Line(k)' = Line(k) /\ Accepted(k)' = Accepted(k) /\ Accounted(k)' = Accounted(k)
  BY DEF Same, Accepted, Accounted

LEMMA AddedSets ==
    ASSUME ChanOK, NEW k \in Subs, NEW item \in Items, Added(k, item)
    PROVE  Accounted(k)' = Accounted(k) \cup {item} /\ Accepted(k) \subseteq Accepted(k)'
<1>1. Line(k) \in Seq(Items)
  BY LineTyped
<1>2. CASE Line(k)' = Append(Line(k), item) /\ dropped'[k] = dropped[k]
  <2>1. ToSet(Append(Line(k), item)) = ToSet(Line(k)) \cup {item}
    BY <1>1, SetOfAppend
  <2>2. Accepted(k)' = Accepted(k) \cup {item}
    BY <1>2, <2>1 DEF Accepted
  <2> QED BY <1>2, <2>2 DEF Accounted
<1>3. CASE Line(k)' = Line(k) /\ dropped'[k] = dropped[k] \cup {item}
  BY <1>3 DEF Accounted, Accepted
<1> QED BY <1>2, <1>3 DEF Added

LEMMA CutSets ==
    ASSUME NEW k \in Subs, Cut(k)
    PROVE  Accounted(k)' = Accounted(k)
<1>1. PICK r \in Seq(Items) :
        /\ Line(k)' \in Seq(Items) /\ Line(k) = Line(k)' \o r
        /\ dropped'[k] = dropped[k] \cup ToSet(r)
  BY DEF Cut
<1> DEFINE l == Line(k)'
<1>2. l \in Seq(Items) /\ Line(k) = l \o r
  BY <1>1
<1> HIDE DEF l
<1>3. ToSet(Line(k)) = ToSet(l) \cup ToSet(r)
  BY <1>1, <1>2, SetOfConcat
<1>4. Accepted(k) = Accepted(k)' \cup ToSet(r)
  BY <1>3 DEF Accepted, l
<1> QED BY <1>1, <1>4 DEF Accounted

\* Every number compared below is a number.
LEMMA Numbers ==
    ASSUME TypeInv, NEW k \in Subs
    PROVE  /\ \A x \in Accounted(k) : x \in Items /\ x.n \in Nat /\ x.via \in {"replay", "live"}
           /\ \A e \in ToSet(entries[k]) : e \in Entry /\ e.n \in Nat /\ e.kind \in Kinds
           /\ clock \in Nat /\ Accepted(k) \subseteq Accounted(k)
<1>1. ToSet(Line(k)) \subseteq Items /\ dropped[k] \subseteq Items
  BY LineTyped, SetOfTyped DEF TypeInv
<1>2. \A x \in Accounted(k) : x \in Items
  BY <1>1 DEF Accounted, Accepted
<1>3. \A x \in Items : x.n \in Nat /\ x.via \in {"replay", "live"}
  BY DEF Items
<1>4. entries[k] \in Seq(Entry)
  BY DEF TypeInv, SubsOK
<1>5. \A e \in ToSet(entries[k]) : e \in Entry /\ e.n \in Nat /\ e.kind \in Kinds
  BY <1>4, EntryFields
<1> QED BY <1>2, <1>3, <1>5 DEF TypeInv, CoreOK, Accounted

LEMMA ItemFields ==
    ASSUME NEW e, NEW via
    PROVE  Item(e, via).n = e.n /\ Item(e, via).kind = e.kind /\ Item(e, via).via = via
  BY DEF Item

LEMMA OrderedAppend ==
    ASSUME NEW s \in Seq(Items), NEW x \in Items, Ordered(s),
           \A y \in ToSet(s) : y.via = x.via => y.n < x.n
    PROVE  Ordered(Append(s, x))
<1>1. /\ Len(s) \in Nat /\ Len(Append(s, x)) = Len(s) + 1
      /\ \A i \in 1 .. Len(s) : Append(s, x)[i] = s[i]
      /\ Append(s, x)[Len(s) + 1] = x
      /\ Append(s, x) \in Seq(Items)
  BY AppendProperties, LenProperties
<1>2. DOMAIN s = 1 .. Len(s) /\ DOMAIN Append(s, x) = 1 .. Len(s) + 1
  BY <1>1, LenProperties
<1>3. \A i \in 1 .. Len(s) : s[i].via = x.via => s[i].n < x.n
  BY <1>2 DEF ToSet
<1>4. ASSUME NEW i \in 1 .. Len(s) + 1, NEW j \in 1 .. Len(s) + 1, i < j,
             Append(s, x)[i].via = Append(s, x)[j].via
      PROVE  Append(s, x)[i].n < Append(s, x)[j].n
  <2>1. i \in 1 .. Len(s) /\ (j \in 1 .. Len(s) \/ j = Len(s) + 1)
    BY <1>1, <1>4
  <2>2. CASE j \in 1 .. Len(s)
    BY <1>1, <1>2, <1>4, <2>1, <2>2 DEF Ordered
  <2>3. CASE j = Len(s) + 1
    BY <1>1, <1>3, <1>4, <2>1, <2>3
  <2> QED BY <2>1, <2>2, <2>3
<1> QED BY <1>2, <1>4 DEF Ordered

LEMMA OrderedPrefix ==
    ASSUME NEW s \in Seq(Items), NEW r \in Seq(Items), NEW t, t = s \o r, Ordered(t)
    PROVE  Ordered(s)
<1>1. /\ Len(s) \in Nat /\ Len(r) \in Nat /\ t \in Seq(Items) /\ Len(t) = Len(s) + Len(r)
      /\ \A i \in 1 .. Len(s) + Len(r) : t[i] = IF i <= Len(s) THEN s[i] ELSE r[i - Len(s)]
  BY ConcatProperties, LenProperties
<1>2. DOMAIN s = 1 .. Len(s) /\ DOMAIN t = 1 .. Len(s) + Len(r)
  BY <1>1, LenProperties
<1>3. \A i \in 1 .. Len(s) : i \in 1 .. Len(s) + Len(r) /\ i <= Len(s) /\ t[i] = s[i]
  BY <1>1
<1> QED BY <1>2, <1>3 DEF Ordered

-----------------------------------------------------------------------------
(* Each part of the invariant, kept by every view.                         *)

LEMMA TargetStep ==
    ASSUME NEW k \in Subs, TargetInv(k), PhaseInv(k), Views(k)
    PROVE  TargetInv(k)'
<1>1. CASE SeesNew(k) \/ SeesCopy(k) \/ SeesSend(k) \/ SeesOther(k) \/ SeesDone(k)
  BY <1>1 DEF SeesNew, SeesCopy, SeesSend, SeesOther, SeesDone, Registry, ReadLoop,
              TargetInv, PhaseInv, Before
<1>2. CASE SeesSnapshot(k) \/ SeesRegister(k) \/ SeesReplay(k) \/ SeesStart(k)
  BY <1>2 DEF SeesSnapshot, SeesRegister, SeesReplay, SeesStart, ReadLoop, TargetInv, Before
<1>3. CASE SeesCancel(k) \/ SeesEnd(k) \/ SeesNothing(k)
  BY <1>3 DEF SeesCancel, SeesEnd, SeesNothing, Registry, ReadLoop, TargetInv, Before
<1> QED BY <1>1, <1>2, <1>3 DEF Views

LEMMA PhaseStep ==
    ASSUME NEW k \in Subs, TargetInv(k), PhaseInv(k), Views(k)
    PROVE  PhaseInv(k)'
<1>1. CASE SeesNew(k) \/ SeesCopy(k) \/ SeesOther(k) \/ SeesDone(k)
  BY <1>1 DEF SeesNew, SeesCopy, SeesOther, SeesDone, Registry, Same, PhaseInv, Before
<1>2. CASE SeesSend(k)
  BY <1>2 DEF SeesSend, Registry, PhaseInv, TargetInv, Before
<1>3. CASE SeesSnapshot(k) \/ SeesRegister(k) \/ SeesStart(k)
  BY <1>3 DEF SeesSnapshot, SeesRegister, SeesStart, Same, PhaseInv, Before
<1>4. CASE SeesReplay(k)
  BY <1>4 DEF SeesReplay, PhaseInv, Before
<1>5. CASE SeesCancel(k) \/ SeesNothing(k)
  BY <1>5 DEF SeesCancel, SeesNothing, Registry, Same, PhaseInv, Before
<1>6. CASE SeesEnd(k)
  BY <1>6 DEF SeesEnd, PhaseInv, Before
<1> QED BY <1>1, <1>2, <1>3, <1>4, <1>5, <1>6 DEF Views

\* The moves of the line, as the parts below need them.
LEMMA Moves ==
    ASSUME TypeInv, PumpInv, NEW k \in Subs, Views(k)
    PROVE  \/ Accounted(k)' = Accounted(k)
           \/ /\ SeesSend(k)
              /\ Accounted(k)' = Accounted(k) \cup {Item(event, "live")}
           \/ /\ SeesReplay(k) /\ Replayed(Head(entries[k]), want[k])
              /\ Accounted(k)' = Accounted(k) \cup {Item(Head(entries[k]), "replay")}
<1>1. CASE SeesSend(k)
  <2>1. CASE stop[k] /\ Same(k)
    BY <2>1, SameSets
  <2>2. CASE Added(k, Item(event, "live"))
    <3>1. Item(event, "live") \in Items
      BY <1>1, ItemTyped DEF PumpInv, SeesSend
    <3> QED BY <1>1, <2>2, <3>1, AddedSets DEF TypeInv
  <2> QED BY <1>1, <2>1, <2>2 DEF SeesSend
<1>2. CASE SeesReplay(k)
  <2>1. CASE Same(k)
    BY <2>1, SameSets
  <2>2. CASE Replayed(Head(entries[k]), want[k]) /\ Added(k, Item(Head(entries[k]), "replay"))
    <3>1. entries[k] \in Seq(Entry) /\ entries[k] # <<>>
      BY <1>2 DEF SeesReplay, TypeInv, SubsOK
    <3>2. Item(Head(entries[k]), "replay") \in Items
      BY <3>1, SetOfParts, ItemTyped
    <3> QED BY <1>2, <2>2, <3>2, AddedSets DEF TypeInv
  <2> QED BY <1>2, <2>1, <2>2 DEF SeesReplay
<1>3. CASE SeesEnd(k)
  BY <1>3, CutSets DEF SeesEnd
<1>4. CASE Same(k)
  BY <1>4, SameSets
<1>5. Views(k) => SeesSend(k) \/ SeesReplay(k) \/ SeesEnd(k) \/ Same(k)
  BY DEF Views, SeesNew, SeesCopy, SeesOther, SeesDone, SeesSnapshot, SeesRegister,
         SeesStart, SeesCancel, SeesNothing
<1> QED BY <1>1, <1>2, <1>3, <1>4, <1>5

LEMMA KindStep ==
    ASSUME TypeInv, PumpInv, NEW k \in Subs, TargetInv(k), PhaseInv(k), KindInv(k), Views(k)
    PROVE  KindInv(k)'
<1>1. CASE SeesSnapshot(k)
  <2>1. Accounted(k)' = Accounted(k)
    BY <1>1, SameSets DEF SeesSnapshot
  <2>2. Accounted(k) = {}
    BY <1>1, SetOfNone DEF SeesSnapshot, PhaseInv, Before, Accounted, Accepted
  <2> QED BY <2>1, <2>2 DEF KindInv
<1>2. CASE ~SeesSnapshot(k)
  <2>1. want'[k] = want[k]
    BY <1>2 DEF Views, SeesNew, SeesCopy, SeesSend, SeesOther, SeesDone, SeesRegister,
                SeesReplay, SeesStart, SeesCancel, SeesEnd, SeesNothing, Registry
  <2>2. CASE Accounted(k)' = Accounted(k)
    BY <2>1, <2>2 DEF KindInv
  <2>3. CASE SeesSend(k) /\ Accounted(k)' = Accounted(k) \cup {Item(event, "live")}
    <3>1. Item(event, "live").kind = want[k].kind
      BY <2>3, ItemFields DEF SeesSend, TargetInv
    <3> QED BY <2>1, <2>3, <3>1 DEF KindInv
  <2>4. CASE /\ SeesReplay(k) /\ Replayed(Head(entries[k]), want[k])
             /\ Accounted(k)' = Accounted(k) \cup {Item(Head(entries[k]), "replay")}
    <3>1. Item(Head(entries[k]), "replay").kind = want[k].kind
      BY <2>4, ItemFields DEF Replayed
    <3> QED BY <2>1, <2>4, <3>1 DEF KindInv
  <2> QED BY <2>2, <2>3, <2>4, Moves
<1> QED BY <1>1, <1>2

LEMMA EntriesStep ==
    ASSUME TypeInv, LogInv, NEW k \in Subs, EntriesInv(k), Views(k)
    PROVE  EntriesInv(k)'
<1>1. CASE SeesSnapshot(k)
  BY <1>1 DEF SeesSnapshot, ReadLoop, EntriesInv, LogInv
<1>2. CASE SeesReplay(k)
  <2>1. entries[k] \in Seq(Entry) /\ entries[k] # <<>> /\ entries'[k] = Tail(entries[k])
        /\ clock' = clock
    BY <1>2 DEF SeesReplay, ReadLoop, TypeInv, SubsOK
  <2>2. Increasing(Tail(entries[k])) /\ ToSet(Tail(entries[k])) \subseteq ToSet(entries[k])
    BY <2>1, IncreasingTail, SetOfParts DEF EntriesInv
  <2> QED BY <2>1, <2>2 DEF EntriesInv
<1>3. CASE SeesNew(k)
  <2>1. \A e \in ToSet(entries[k]) : e.n <= clock + 1
    BY Numbers DEF EntriesInv
  <2>2. entries'[k] = entries[k] /\ clock' = clock + 1
    BY <1>3 DEF SeesNew, Registry
  <2> QED BY <2>1, <2>2 DEF EntriesInv
<1>4. CASE ~SeesSnapshot(k) /\ ~SeesReplay(k) /\ ~SeesNew(k)
  <2>1. entries'[k] = entries[k] /\ clock' = clock
    BY <1>4 DEF Views, SeesCopy, SeesSend, SeesOther, SeesDone, SeesRegister,
                SeesStart, SeesCancel, SeesEnd, SeesNothing, Registry, ReadLoop
  <2> QED BY <2>1 DEF EntriesInv
<1> QED BY <1>1, <1>2, <1>3, <1>4

\* The views in which neither entries nor the line move, and no event comes up.
Steady(k) ==
    /\ entries'[k] = entries[k] /\ clock' = clock /\ Snap' = Snap
    /\ Accounted(k)' = Accounted(k)
    /\ Coming(k)' => Coming(k) /\ event' = event
    /\ pump' # "idle" => pump # "idle" /\ event' = event

LEMMA SteadyView ==
    ASSUME NEW k \in Subs, Views(k)
    PROVE  SeesNew(k) \/ SeesSend(k) \/ SeesSnapshot(k) \/ SeesReplay(k) \/ Steady(k)
<1>1. CASE SeesCopy(k) \/ SeesOther(k) \/ SeesDone(k) \/ SeesRegister(k) \/ SeesStart(k)
           \/ SeesCancel(k) \/ SeesNothing(k)
  <2>1. Same(k)
    BY <1>1 DEF SeesCopy, SeesOther, SeesDone, SeesRegister, SeesStart, SeesCancel, SeesNothing
  <2>2. Accounted(k)' = Accounted(k)
    BY <2>1, SameSets
  <2> QED BY <1>1, <2>2 DEF SeesCopy, SeesOther, SeesDone, SeesRegister, SeesStart, SeesCancel,
                            SeesNothing, Registry, ReadLoop, Steady, Coming
<1>2. CASE SeesEnd(k)
  <2>1. Accounted(k)' = Accounted(k)
    BY <1>2, CutSets DEF SeesEnd
  <2> QED BY <1>2, <2>1 DEF SeesEnd, ReadLoop, Steady, Coming
<1> QED BY <1>1, <1>2 DEF Views

\* What replaying the first entry does.
LEMMA ReplayFacts ==
    ASSUME TypeInv, NEW k \in Subs, SeesReplay(k), EntriesInv(k)
    PROVE  LET h == Head(entries[k])
           IN  /\ h \in Entry /\ h.n \in Nat /\ h.n <= clock
               /\ ToSet(entries[k]) = {h} \cup ToSet(entries'[k])
               /\ \A e \in ToSet(entries'[k]) : h.n < e.n
               /\ UNCHANGED <<clock, pump, event>> /\ Snap' = Snap
               /\ Coming(k)' = Coming(k)
<1>1. entries[k] \in Seq(Entry) /\ entries[k] # <<>> /\ entries'[k] = Tail(entries[k])
  BY DEF SeesReplay, TypeInv, SubsOK
<1>2. /\ Head(entries[k]) \in Entry
      /\ ToSet(entries[k]) = {Head(entries[k])} \cup ToSet(Tail(entries[k]))
      /\ \A e \in ToSet(Tail(entries[k])) : Head(entries[k]).n < e.n
  BY <1>1, SetOfParts, IncreasingTail DEF EntriesInv
<1>3. Head(entries[k]).n \in Nat /\ Head(entries[k]).n <= clock
  BY <1>2, Numbers DEF EntriesInv
<1>4. UNCHANGED <<clock, pump, event>> /\ Snap' = Snap /\ Coming(k)' = Coming(k)
  BY DEF SeesReplay, ReadLoop, Coming
<1> QED BY <1>1, <1>2, <1>3, <1>4

LEMMA Nothing ==
    ASSUME NEW k \in Subs, Before(k), PhaseInv(k)
    PROVE  Accounted(k) = {}
  BY SetOfNone DEF PhaseInv, Accounted, Accepted

LEMMA BoundStep ==
    ASSUME TypeInv, PumpInv, NEW k \in Subs, PhaseInv(k), EntriesInv(k), BoundInv(k), Views(k)
    PROVE  BoundInv(k)'
<1>0. \A x \in Accounted(k) : x.n \in Nat /\ x.n <= clock /\ clock \in Nat
  BY Numbers DEF BoundInv
<1>1. CASE SeesNew(k)
  <2>1. Accounted(k)' = Accounted(k) /\ entries'[k] = entries[k]
    BY <1>1, SameSets DEF SeesNew, Registry
  <2>2. clock' = clock + 1 /\ event'.n = clock + 1
    BY <1>1 DEF SeesNew
  <2> QED BY <1>0, <2>1, <2>2 DEF BoundInv
<1>2. CASE SeesSend(k)
  <2>1. entries'[k] = entries[k] /\ clock' = clock /\ ~Coming(k)'
    BY <1>2 DEF SeesSend, Registry, Coming
  <2>2. event.n = clock
    BY <1>2 DEF SeesSend, PumpInv
  <2>3. Item(event, "live").n <= clock /\ Item(event, "live").via = "live"
    BY <1>0, <2>2, ItemFields, Numbers
  <2>4. \A x \in Accounted(k)' : x \in Accounted(k) \/ x = Item(event, "live")
    BY <1>2, Moves DEF SeesSend, SeesReplay, ReadLoop
  <2> QED BY <2>1, <2>3, <2>4 DEF BoundInv
<1>3. CASE SeesSnapshot(k)
  <2>1. Accounted(k)' = {}
    BY <1>3, SameSets, Nothing DEF SeesSnapshot, Before
  <2> QED BY <2>1 DEF BoundInv
<1>4. CASE SeesReplay(k)
  <2> DEFINE h == Head(entries[k])
  <2>1. /\ h.n \in Nat /\ h.n <= clock /\ ToSet(entries'[k]) \subseteq ToSet(entries[k])
        /\ \A e \in ToSet(entries'[k]) : h.n < e.n
        /\ UNCHANGED <<clock, event>> /\ Coming(k)' = Coming(k)
    BY <1>4, ReplayFacts
  <2>2. \A x \in Accounted(k)' : x \in Accounted(k) \/ x = Item(h, "replay")
    BY <1>4, Moves DEF SeesSend, SeesReplay, ReadLoop
  <2>3. Item(h, "replay").n = h.n /\ Item(h, "replay").via = "replay"
    BY ItemFields
  <2> HIDE DEF h
  <2> QED BY <2>1, <2>2, <2>3 DEF BoundInv
<1>5. CASE Steady(k)
  BY <1>5 DEF Steady, BoundInv
<1> QED BY <1>1, <1>2, <1>3, <1>4, <1>5, SteadyView

LEMMA OrderStep ==
    ASSUME TypeInv, PumpInv, NEW k \in Subs, BoundInv(k), OrderInv(k), Views(k)
    PROVE  OrderInv(k)'
<1>0. Line(k) \in Seq(Items) /\ Accepted(k) \subseteq Accounted(k)
  BY LineTyped, Numbers DEF TypeInv
<1>1. CASE Same(k)
  BY <1>1 DEF Same, OrderInv
<1>2. CASE SeesEnd(k)
  <2>1. PICK r \in Seq(Items) : Line(k)' \in Seq(Items) /\ Line(k) = Line(k)' \o r
    BY <1>2 DEF SeesEnd, Cut
  <2> DEFINE l == Line(k)'
  <2>2. l \in Seq(Items) /\ Line(k) = l \o r
    BY <2>1
  <2> HIDE DEF l
  <2>3. Ordered(l)
    BY <2>2, OrderedPrefix DEF OrderInv
  <2> QED BY <2>3 DEF OrderInv, l
<1>3. ASSUME NEW item \in Items, Added(k, item),
             \A y \in Accepted(k) : y.via = item.via => y.n < item.n
      PROVE  OrderInv(k)'
  <2>1. CASE Line(k)' = Append(Line(k), item)
    <3>1. Ordered(Append(Line(k), item))
      BY <1>0, <1>3, OrderedAppend DEF OrderInv, Accepted
    <3> QED BY <2>1, <3>1 DEF OrderInv
  <2>2. CASE Line(k)' = Line(k)
    BY <2>2 DEF OrderInv
  <2> QED BY <1>3, <2>1, <2>2 DEF Added
<1>4. CASE SeesSend(k) /\ ~Same(k)
  <2>1. Added(k, Item(event, "live")) /\ Item(event, "live") \in Items /\ Coming(k)
    BY <1>4, ItemTyped DEF SeesSend, PumpInv, Coming
  <2>2. \A y \in Accepted(k) : y.via = Item(event, "live").via => y.n < Item(event, "live").n
    BY <1>0, <2>1, ItemFields DEF BoundInv
  <2> QED BY <1>3, <2>1, <2>2
<1>5. CASE SeesReplay(k) /\ ~Same(k)
  <2> DEFINE h == Head(entries[k])
  <2>1. entries[k] \in Seq(Entry) /\ entries[k] # <<>>
    BY <1>5 DEF SeesReplay, TypeInv, SubsOK
  <2>2. h \in Entry /\ h \in ToSet(entries[k])
    BY <2>1, SetOfParts
  <2>3. Added(k, Item(h, "replay")) /\ Item(h, "replay") \in Items
    BY <1>5, <2>2, ItemTyped DEF SeesReplay
  <2> HIDE DEF h
  <2>4. \A y \in Accepted(k) : y.via = Item(h, "replay").via => y.n < Item(h, "replay").n
    BY <1>0, <2>2, ItemFields DEF BoundInv
  <2> QED BY <1>3, <2>3, <2>4
<1>6. Views(k) => SeesSend(k) \/ SeesReplay(k) \/ SeesEnd(k) \/ Same(k)
  BY DEF Views, SeesNew, SeesCopy, SeesOther, SeesDone, SeesSnapshot, SeesRegister,
         SeesStart, SeesCancel, SeesNothing
<1> QED BY <1>1, <1>2, <1>4, <1>5, <1>6

\* A channel that is full holds an item already accepted.
LEMMA FullChannel ==
    ASSUME TypeInv, NEW k \in Subs, ~(Len(ch[k]) < ChCap)
    PROVE  \E x \in Accepted(k) : TRUE
<1> DEFINE x == got[k] \o out[k] \o hand[k]
<1>1. x \in Seq(Items) /\ ch[k] \in Seq(Items) /\ Line(k) = x \o ch[k]
  BY LineTyped DEF TypeInv, Line
<1> HIDE DEF x
<1>2. ToSet(Line(k)) = ToSet(x) \cup ToSet(ch[k])
  BY <1>1, SetOfConcat
<1>3. ch[k] # <<>>
  BY Bounds
<1>4. Head(ch[k]) \in ToSet(ch[k])
  BY <1>1, <1>3, SetOfParts
<1> QED BY <1>2, <1>4 DEF Accepted

LEMMA LostStep ==
    ASSUME TypeInv, PumpInv, NEW k \in Subs, TargetInv(k), PhaseInv(k), KindInv(k), LostInv(k),
           Views(k)
    PROVE  LostInv(k)'
<1>1. CASE SeesNew(k)
  <2>1. Accepted(k)' = Accepted(k)
    BY <1>1, SameSets DEF SeesNew
  <2> QED BY <1>1, <2>1 DEF SeesNew, Registry, LostInv, Coming
<1>2. CASE SeesCopy(k)
  <2>1. Accepted(k)' = Accepted(k)
    BY <1>2, SameSets DEF SeesCopy
  <2> QED BY <1>2, <2>1 DEF SeesCopy, Registry, LostInv, Coming
<1>3. CASE SeesSend(k)
  <2> SUFFICES ASSUME lostOwed[k], k \in registered
               PROVE  LostInv(k)'
    BY <1>3 DEF SeesSend, Registry, LostInv
  <2>1. want'[k].kind = Lost /\ want[k].kind = Lost /\ event.kind = Lost
    BY <1>3 DEF SeesSend, Registry, LostInv, TargetInv
  <2> DEFINE item == Item(event, "live")
  <2>2. Added(k, item) /\ item \in Items /\ item.kind = Lost
    BY <1>3, <2>1, ItemTyped, ItemFields DEF SeesSend, PhaseInv, PumpInv
  <2> HIDE DEF item
  <2>3. CASE Line(k)' = Append(Line(k), item)
    <3>1. Line(k) \in Seq(Items)
      BY LineTyped DEF TypeInv
    <3>2. ToSet(Append(Line(k), item)) = ToSet(Line(k)) \cup {item}
      BY <2>2, <3>1, SetOfAppend
    <3>3. item \in Accepted(k)'
      BY <2>3, <3>2 DEF Accepted
    <3> QED BY <2>1, <2>2, <3>3 DEF LostInv
  <2>4. CASE ~(Len(ch[k]) < ChCap)
    <3>1. PICK x \in Accepted(k) : TRUE
      BY <2>4, FullChannel
    <3>2. x.kind = Lost
      BY <2>1, <3>1 DEF KindInv, Accounted
    <3>3. x \in Accepted(k)'
      BY <2>2, <3>1, AddedSets DEF TypeInv
    <3> QED BY <2>1, <3>2, <3>3 DEF LostInv
  <2> QED BY <2>2, <2>3, <2>4 DEF Added
<1>4. CASE SeesOther(k) \/ SeesDone(k) \/ SeesStart(k) \/ SeesNothing(k)
  <2>1. Accepted(k)' = Accepted(k)
    BY <1>4, SameSets DEF SeesOther, SeesDone, SeesStart, SeesNothing
  <2> QED BY <1>4, <2>1 DEF SeesOther, SeesDone, SeesStart, SeesNothing, ReadLoop, Registry,
                            LostInv, Coming
<1>5. CASE SeesSnapshot(k) \/ SeesRegister(k)
  BY <1>5 DEF SeesSnapshot, SeesRegister, PhaseInv, Before, LostInv
<1>6. CASE SeesReplay(k)
  <2>1. Accepted(k) \subseteq Accepted(k)'
    <3>1. CASE Same(k)
      BY <3>1, SameSets
    <3>2. CASE Added(k, Item(Head(entries[k]), "replay"))
      <4>1. entries[k] \in Seq(Entry) /\ entries[k] # <<>>
        BY <1>6 DEF SeesReplay, TypeInv, SubsOK
      <4>2. Item(Head(entries[k]), "replay") \in Items
        BY <4>1, SetOfParts, ItemTyped
      <4> QED BY <3>2, <4>2, AddedSets DEF TypeInv
    <3> QED BY <1>6, <3>1, <3>2 DEF SeesReplay
  <2>2. /\ want'[k] = want[k] /\ lostOwed'[k] = lostOwed[k] /\ event' = event
        /\ (k \in registered' <=> k \in registered) /\ Coming(k)' = Coming(k)
    BY <1>6 DEF SeesReplay, ReadLoop, Coming
  <2> QED BY <2>1, <2>2 DEF LostInv
<1>7. CASE SeesCancel(k) \/ SeesEnd(k)
  BY <1>7 DEF SeesCancel, SeesEnd, PhaseInv, LostInv
<1> QED BY <1>1, <1>2, <1>3, <1>4, <1>5, <1>6, <1>7 DEF Views

LEMMA QuietStep ==
    ASSUME NEW k \in Subs, QuietInv(k), Views(k)
    PROVE  QuietInv(k)'
<1>1. CASE SeesNew(k) \/ SeesCopy(k) \/ SeesSend(k) \/ SeesOther(k)
  BY <1>1 DEF SeesNew, SeesCopy, SeesSend, SeesOther, Registry, Overlaps, QuietInv
<1>2. CASE SeesDone(k)
  BY <1>2 DEF SeesDone, Registry, QuietInv
<1>3. CASE SeesSnapshot(k)
  BY <1>3 DEF SeesSnapshot, ReadLoop, QuietInv, Snap
<1>4. CASE SeesRegister(k) \/ SeesReplay(k) \/ SeesStart(k) \/ SeesCancel(k)
  BY <1>4 DEF SeesRegister, SeesReplay, SeesStart, SeesCancel, QuietInv
<1>5. CASE SeesEnd(k) \/ SeesNothing(k)
  BY <1>5 DEF SeesEnd, SeesNothing, Registry, ReadLoop, QuietInv
<1> QED BY <1>1, <1>2, <1>3, <1>4, <1>5 DEF Views

\* A view that does not take k across the registration.
LEMMA StageKept ==
    ASSUME NEW k \in Subs, Views(k), ~Before(k)', ~overlap'[k]
    PROVE  SeesRegister(k) \/ (~Before(k) /\ ~overlap[k])
<1>1. CASE SeesNew(k) \/ SeesCopy(k) \/ SeesSend(k) \/ SeesOther(k)
  BY <1>1 DEF SeesNew, SeesCopy, SeesSend, SeesOther, Registry, Overlaps, Before
<1>2. CASE SeesDone(k) \/ SeesEnd(k) \/ SeesNothing(k) \/ SeesCancel(k)
  BY <1>2 DEF SeesDone, SeesEnd, SeesNothing, SeesCancel, Registry, Before
<1>3. CASE SeesSnapshot(k) \/ SeesReplay(k) \/ SeesStart(k)
  BY <1>3 DEF SeesSnapshot, SeesReplay, SeesStart, Before
<1> QED BY <1>1, <1>2, <1>3 DEF Views

LEMMA SplitStep ==
    ASSUME TypeInv, PumpInv, NEW k \in Subs, PhaseInv(k), EntriesInv(k), BoundInv(k),
           QuietInv(k), SplitInv(k), Views(k)
    PROVE  SplitInv(k)'
<1> SUFFICES ASSUME ~Before(k)', ~overlap'[k]
             PROVE  SplitInv(k)'
  BY DEF SplitInv
<1>1. CASE SeesRegister(k)
  <2>1. Accounted(k)' = {} /\ pump' = "idle"
    BY <1>1, SameSets, Nothing DEF SeesRegister, Before, QuietInv, ReadLoop
  <2> QED BY <2>1 DEF SplitInv
<1>2. CASE ~SeesRegister(k)
  <2>0. ~Before(k) /\ ~overlap[k]
    BY <1>2, StageKept
  <2>1. /\ \A e \in ToSet(entries[k]) :
              /\ pump # "idle" => e.n < event.n
              /\ \A y \in Accounted(k) : y.via = "live" => e.n < y.n
        /\ \A x \in Accounted(k) : x.via = "replay" =>
              /\ pump # "idle" => x.n < event.n
              /\ \A y \in Accounted(k) : y.via = "live" => x.n < y.n
    BY <2>0 DEF SplitInv
  <2>2. CASE SeesNew(k)
    <3>1. Accounted(k)' = Accounted(k) /\ entries'[k] = entries[k] /\ event'.n = clock + 1
      BY <2>2, SameSets DEF SeesNew, Registry
    <3>2. \A x \in Accounted(k) : x.n < clock + 1
      BY Numbers DEF BoundInv
    <3>3. \A e \in ToSet(entries[k]) : e.n < clock + 1
      BY Numbers DEF EntriesInv
    <3> QED BY <2>1, <3>1, <3>2, <3>3 DEF SplitInv
  <2>3. CASE SeesSend(k)
    <3>1. entries'[k] = entries[k] /\ event' = event /\ pump # "idle"
      BY <2>3 DEF SeesSend, Registry
    <3>2. \A x \in Accounted(k)' : x \in Accounted(k) \/ x = Item(event, "live")
      BY <2>3, Moves DEF SeesSend, SeesReplay, ReadLoop
    <3>3. Item(event, "live").n = event.n /\ Item(event, "live").via = "live"
      BY ItemFields
    <3> QED BY <2>1, <3>1, <3>2, <3>3 DEF SplitInv
  <2>4. CASE SeesReplay(k)
    <3> DEFINE h == Head(entries[k])
    <3>1. /\ ToSet(entries[k]) = {h} \cup ToSet(entries'[k])
          /\ UNCHANGED <<pump, event>>
      BY <2>4, ReplayFacts
    <3>2. \A x \in Accounted(k)' : x \in Accounted(k) \/ x = Item(h, "replay")
      BY <2>4, Moves DEF SeesSend, SeesReplay, ReadLoop
    <3>3. Item(h, "replay").n = h.n /\ Item(h, "replay").via = "replay"
      BY ItemFields
    <3> HIDE DEF h
    <3>4. h \in ToSet(entries[k])
      BY <3>1
    <3> QED BY <2>1, <3>1, <3>2, <3>3, <3>4 DEF SplitInv
  <2>5. CASE Steady(k)
    BY <2>1, <2>5 DEF Steady, SplitInv
  <2>6. ~SeesSnapshot(k)
    BY DEF SeesSnapshot, Before
  <2> QED BY <2>2, <2>3, <2>4, <2>5, <2>6, SteadyView
<1> QED BY <1>1, <1>2

LEMMA CoverStep ==
    ASSUME TypeInv, PumpInv, NEW k \in Subs, PhaseInv(k), EntriesInv(k),
           QuietInv(k), CoverInv(k), Views(k)
    PROVE  CoverInv(k)'
<1> SUFFICES ASSUME ~Before(k)', ~overlap'[k], k \in registered',
                    NEW e \in Snap', Due(e, want'[k])
             PROVE  \/ e \in ToSet(entries'[k])
                    \/ \E x \in Accounted(k)' : x.n = e.n
                    \/ e = event' /\ Coming(k)'
  BY DEF CoverInv
<1>1. CASE SeesRegister(k)
  BY <1>1 DEF SeesRegister, QuietInv, ReadLoop
<1>2. CASE ~SeesRegister(k)
  <2>0. ~Before(k) /\ ~overlap[k]
    BY <1>2, StageKept
  <2>1. k \in registered /\ want'[k] = want[k]
    BY <1>2, <2>0 DEF Views, SeesNew, SeesCopy, SeesSend, SeesOther, SeesDone, SeesSnapshot,
                      SeesReplay, SeesStart, SeesCancel, SeesEnd, SeesNothing, Registry, Before
  <2>2. e \in Snap => \/ e \in ToSet(entries[k])
                      \/ \E x \in Accounted(k) : x.n = e.n
                      \/ e = event /\ Coming(k)
    BY <2>0, <2>1 DEF CoverInv
  <2>3. CASE SeesNew(k)
    <3>1. Accounted(k)' = Accounted(k) /\ entries'[k] = entries[k]
      BY <2>3, SameSets DEF SeesNew, Registry
    <3>2. ~Coming(k) /\ Coming(k)' /\ (e \in Snap \/ e = event')
      BY <2>3 DEF SeesNew, Coming
    <3> QED BY <2>2, <3>1, <3>2
  <2>4. CASE SeesSend(k)
    <3>1. entries'[k] = entries[k] /\ event' = event /\ e \in Snap /\ ~stop[k]
      BY <2>1, <2>4 DEF SeesSend, Registry, PhaseInv
    <3>2. Accounted(k)' = Accounted(k) \cup {Item(event, "live")}
      <4>1. Added(k, Item(event, "live")) /\ Item(event, "live") \in Items
        BY <2>4, <3>1, ItemTyped DEF SeesSend, PumpInv
      <4> QED BY <4>1, AddedSets DEF TypeInv
    <3>3. Item(event, "live").n = event.n
      BY ItemFields
    <3> QED BY <2>2, <3>1, <3>2, <3>3
  <2>5. CASE SeesReplay(k)
    <3> DEFINE h == Head(entries[k])
    <3>1. /\ h \in Entry /\ ToSet(entries[k]) = {h} \cup ToSet(entries'[k])
          /\ event' = event /\ Coming(k)' = Coming(k) /\ Snap' = Snap
      BY <2>5, ReplayFacts
    <3>2. Accounted(k) \subseteq Accounted(k)'
      BY <2>5, Moves
    <3>3. CASE e = h
      <4>1. Replayed(h, want[k])
        <5>1. e.n \in Nat /\ want[k].since \in Nat
          BY <3>1, <3>3, EntryAssumption, Bounds DEF TypeInv, SubsOK, Wants
        <5> QED BY <2>1, <3>3, <5>1 DEF Due, Replayed
      <4>2. Added(k, Item(h, "replay")) /\ Item(h, "replay") \in Items
        BY <2>5, <3>1, <4>1, ItemTyped DEF SeesReplay
      <4>3. Item(h, "replay") \in Accounted(k)' /\ Item(h, "replay").n = h.n
        BY <4>2, AddedSets, ItemFields DEF TypeInv
      <4> QED BY <3>3, <4>3
    <3>4. CASE e # h
      <4> HIDE DEF h
      <4> QED BY <2>2, <3>1, <3>2, <3>4
    <3> QED BY <3>3, <3>4
  <2>6. CASE SeesCopy(k)
    <3>1. Accounted(k)' = Accounted(k) /\ entries'[k] = entries[k] /\ event' = event /\ e \in Snap
      BY <2>6, SameSets DEF SeesCopy, Registry
    <3>2. e = event => Coming(k)'
      BY <2>1, <2>6 DEF SeesCopy, Coming, Due
    <3> QED BY <2>2, <3>1, <3>2
  <2>7. CASE SeesDone(k)
    <3>1. Accounted(k)' = Accounted(k) /\ entries'[k] = entries[k] /\ e \in Snap /\ ~Coming(k)
      BY <2>7, SameSets DEF SeesDone, Registry, Coming
    <3> QED BY <2>2, <3>1
  <2>8. CASE SeesOther(k) \/ SeesStart(k) \/ SeesCancel(k) \/ SeesNothing(k)
    <3>1. Accounted(k)' = Accounted(k)
      BY <2>8, SameSets DEF SeesOther, SeesStart, SeesCancel, SeesNothing
    <3>2. entries'[k] = entries[k] /\ event' = event /\ e \in Snap /\ Coming(k)' = Coming(k)
      BY <2>8 DEF SeesOther, SeesStart, SeesCancel, SeesNothing, ReadLoop, Registry, Coming
    <3> QED BY <2>2, <3>1, <3>2
  <2>9. CASE SeesEnd(k)
    <3>1. Accounted(k)' = Accounted(k)
      BY <2>9, CutSets DEF SeesEnd
    <3>2. entries'[k] = entries[k] /\ event' = event /\ e \in Snap /\ Coming(k)' = Coming(k)
      BY <2>9 DEF SeesEnd, ReadLoop, Coming
    <3> QED BY <2>2, <3>1, <3>2
  <2>10. ~SeesSnapshot(k)
    BY DEF SeesSnapshot, Before
  <2> QED BY <1>2, <2>3, <2>4, <2>5, <2>6, <2>7, <2>8, <2>9, <2>10 DEF Views
<1> QED BY <1>1, <1>2

-----------------------------------------------------------------------------
(* The inductive invariant.                                                *)

IInv == TypeInv /\ LogInv /\ PumpInv /\ \A k \in Subs : SubInv(k)

LEMMA PumpStep ==
    ASSUME CoreOK, PumpInv, [Next]_vars
    PROVE  PumpInv'
<1>1. CASE UNCHANGED vars
  BY <1>1 DEF PumpInv, vars, readLoop
<1>2. ASSUME NEW kind \in Kinds, DispatchPush(kind)
      PROVE  PumpInv'
  BY <1>2, Bounds DEF DispatchPush, PumpInv, Event, CoreOK
<1>3. CASE BroadcastLost
  BY <1>3, Bounds DEF BroadcastLost, PumpInv, Event, CoreOK
<1>4. CASE CopyTargets \/ DispatchDone \/ \E k \in Subs : SendNext(k)
  BY <1>4 DEF CopyTargets, DispatchDone, SendNext, PumpInv
<1>5. ASSUME NEW k \in Subs,
             Subscribe(k) \/ Bridge(k) \/ ReceiveEvent(k) \/ CancelSub(k) \/ CloseStop(k)
      PROVE  PumpInv'
  <2>1. UNCHANGED readLoop
    BY <1>5 DEF Subscribe, TakeSnapshot, RegisterSub, ReplayNext, StartBridge, Bridge,
                BridgeTake, BridgePut, BridgeStop, ReceiveEvent, CancelSub, CloseStop
  <2> QED BY <2>1 DEF readLoop, PumpInv
<1> QED BY <1>1, <1>2, <1>3, <1>4, <1>5 DEF Next, Pump

LEMMA InvInit == Init => IInv
<1> SUFFICES ASSUME Init
             PROVE  IInv
  OBVIOUS
<1>1. ring = EmptyRing /\ Snapshot(ring) = <<>>
  BY DEF Init, RingInit, EmptyRing, Snapshot
<1>2. RingTypeOK
  BY <1>1, CapAssumption DEF RingTypeOK, Ring, EmptyRing, Slots
<1>3. CoreOK
  BY <1>2, Bounds DEF Init, CoreOK, NoEvent
<1>4. SubsOK
  BY DEF Init, SubsOK, Wants
<1>5. ChanOK /\ FlagsOK
  BY DEF Init, ChanOK, FlagsOK
<1>6. CapOK
  BY Bounds DEF Init, CapOK
<1>7. LogInv
  BY <1>1, SetOfNone DEF LogInv, Increasing
<1>8. PumpInv
  BY DEF Init, PumpInv
<1>9. ASSUME NEW k \in Subs
      PROVE  SubInv(k)
  <2>1. /\ Before(k) /\ at[k] = "new" /\ entries[k] = <<>> /\ k \notin registered
        /\ k \notin targets /\ ~lostOwed[k] /\ ~stop[k] /\ dropped[k] = {}
    BY DEF Init, Before
  <2>2. Line(k) = <<>>
    BY DEF Init, Line
  <2>3. PhaseInv(k)
    BY <2>1, <2>2 DEF PhaseInv
  <2>4. Accounted(k) = {}
    BY <2>1, <2>3, Nothing
  <2>5. TargetInv(k) /\ KindInv(k) /\ BoundInv(k) /\ LostInv(k) /\ QuietInv(k) /\ SplitInv(k)
        /\ CoverInv(k)
    BY <2>1, <2>4 DEF TargetInv, KindInv, BoundInv, LostInv, QuietInv, SplitInv, CoverInv
  <2>6. EntriesInv(k) /\ OrderInv(k)
    BY <2>1, <2>2, SetOfNone DEF EntriesInv, Increasing, OrderInv, Ordered
  <2> QED BY <2>3, <2>5, <2>6 DEF SubInv
<1> QED BY <1>3, <1>4, <1>5, <1>6, <1>7, <1>8, <1>9 DEF IInv, TypeInv

LEMMA InvStep == IInv /\ [Next]_vars => IInv'
<1> SUFFICES ASSUME IInv, [Next]_vars
             PROVE  IInv'
  OBVIOUS
<1>1. TypeInv' /\ LogInv'
  BY TypingStep DEF IInv
<1>2. PumpInv'
  BY PumpStep DEF IInv, TypeInv
<1>3. ASSUME NEW k \in Subs
      PROVE  SubInv(k)'
  <2>1. TypeInv /\ LogInv /\ PumpInv
    BY DEF IInv
  <2>2. Views(k)
    BY <2>1, StepView
  <2>3. /\ TargetInv(k) /\ PhaseInv(k) /\ KindInv(k) /\ EntriesInv(k) /\ BoundInv(k)
        /\ OrderInv(k) /\ LostInv(k) /\ QuietInv(k) /\ SplitInv(k) /\ CoverInv(k)
    BY DEF IInv, SubInv
  <2>4. TargetInv(k)' /\ PhaseInv(k)'
    BY <2>2, <2>3, TargetStep, PhaseStep
  <2>5. KindInv(k)' /\ EntriesInv(k)' /\ BoundInv(k)'
    BY <2>1, <2>2, <2>3, KindStep, EntriesStep, BoundStep
  <2>6. OrderInv(k)' /\ LostInv(k)' /\ QuietInv(k)'
    BY <2>1, <2>2, <2>3, OrderStep, LostStep, QuietStep
  <2>7. SplitInv(k)' /\ CoverInv(k)'
    BY <2>1, <2>2, <2>3, SplitStep, CoverStep
  <2> QED BY <2>4, <2>5, <2>6, <2>7 DEF SubInv
<1> QED BY <1>1, <1>2, <1>3 DEF IInv

\* The invariant from which the properties below follow.
THEOREM Inductive == Spec => []IInv
  BY InvInit, InvStep, PTL DEF Spec

\* The registry and the channels are typed, and what is buffered for a
\* subscription never exceeds the two capacities (eventBufSize).
THEOREM Typing == Spec => []TypeOK
<1>1. IInv => TypeOK
  BY Bounds DEF IInv, TypeInv, CoreOK, SubsOK, ChanOK, CapOK, TypeOK
<1> QED BY <1>1, Inductive, PTL

\* A subscription registered when the connection is lost is told.
THEOREM LossReachesSubscribers == Spec => []LossIsTold
<1>1. IInv => LossIsTold
  BY DEF IInv, SubInv, LostInv, Coming, LossIsTold
<1> QED BY <1>1, Inductive, PTL

\* Live events reach the caller in the order of dispatch.
THEOREM LiveOrder == Spec => []LiveInOrder
<1>1. IInv => LiveInOrder
  BY DEF IInv, SubInv, OrderInv, Ordered, LiveInOrder
<1> QED BY <1>1, Inductive, PTL

\* No event comes to a subscription twice by the same path.
THEOREM TwoCopiesAtMost == Spec => []AtMostTwice
<1>1. ASSUME IInv, NEW k \in Subs, NEW n \in 1 .. MaxEvents, NEW via \in {"replay", "live"}
      PROVE  Cardinality({i \in DOMAIN Line(k) : Line(k)[i].n = n /\ Line(k)[i].via = via}) <= 1
  <2> DEFINE P == {i \in DOMAIN Line(k) : Line(k)[i].n = n /\ Line(k)[i].via = via}
  <2>1. DOMAIN Line(k) \subseteq Nat
    BY <1>1, LineTyped, LenProperties DEF IInv, TypeInv
  <2>2. \A i, j \in P : i = j
    <3> SUFFICES ASSUME NEW i \in P, NEW j \in P, i < j
                 PROVE  FALSE
      BY <2>1
    <3>1. Line(k)[i].n < Line(k)[j].n
      BY <1>1 DEF IInv, SubInv, OrderInv, Ordered
    <3> QED BY <3>1
  <2> HIDE DEF P
  <2>3. CASE P = {}
    BY <2>3, FS_EmptySet DEF P
  <2>4. CASE P # {}
    <3>1. PICK i \in P : TRUE
      BY <2>4
    <3>2. P = {i}
      BY <2>2, <3>1
    <3> QED BY <3>2, FS_Singleton DEF P
  <2> QED BY <2>3, <2>4
<1>2. IInv => AtMostTwice
  BY <1>1 DEF AtMostTwice
<1> QED BY <1>2, Inductive, PTL

\* A Subscribe that no dispatch overlaps gets every due event exactly once,
\* less what a full buffer or the ring dropped.
THEOREM QuietIsExact == Spec => []ExactWhenQuiet
<1>1. ASSUME IInv, NEW k \in Subs, at[k] = "live", ~overlap[k], pump = "idle",
             NEW e \in ToSet(Snapshot(ring)), Due(e, want[k]), k \in registered
      PROVE  Times(k, e.n) = 1
  <2> DEFINE P == {i \in Accounted(k) : i.n = e.n}
  <2>1. SubInv(k) /\ ~Before(k) /\ TypeInv
    BY <1>1 DEF IInv, Before
  <2>2. PICK x \in Accounted(k) : x.n = e.n
    <3>1. ToSet(entries[k]) = {} /\ ~Coming(k)
      BY <1>1, <2>1, SetOfNone DEF SubInv, PhaseInv, Coming
    <3> QED BY <1>1, <2>1, <3>1 DEF SubInv, CoverInv, Snap
  <2>3. ASSUME NEW y \in Accounted(k), y.n = e.n
        PROVE  y = x
    <3>1. x \in Items /\ y \in Items /\ x.n \in Nat
      BY <2>1, Numbers
    <3>2. x.kind = y.kind
      BY <2>1 DEF SubInv, KindInv
    <3>3. x.via = y.via
      <4>1. ~(x.via = "replay" /\ y.via = "live") /\ ~(x.via = "live" /\ y.via = "replay")
        BY <1>1, <2>1, <2>2, <2>3, <3>1 DEF SubInv, SplitInv
      <4> QED BY <2>1, <4>1, Numbers
    <3> QED BY <2>2, <2>3, <3>1, <3>2, <3>3 DEF Items
  <2>4. P = {x}
    BY <2>2, <2>3
  <2> HIDE DEF P
  <2>5. Cardinality(P) = 1
    BY <2>4, FS_Singleton
  <2> QED BY <2>5 DEF P, Times
<1>2. IInv => ExactWhenQuiet
  BY <1>1 DEF ExactWhenQuiet
<1> QED BY <1>2, Inductive, PTL

\* Whatever subscriptions do meanwhile, the ring behaves as the bounded log of
\* the events dispatched so far.
THEOREM BusKeepsLog == Spec => LogSpec
<1>1. Init => RingInit
  BY DEF Init
<1>2. IInv /\ [Next]_vars => [RingNext]_ring
  <2> SUFFICES ASSUME IInv, [Next]_vars
               PROVE  [RingNext]_ring
    OBVIOUS
  <2>1. CASE UNCHANGED vars
    BY <2>1 DEF vars
  <2>2. ASSUME NEW kind \in Kinds, DispatchPush(kind)
        PROVE  RingNext
    <3>1. event' \in Entry
      BY <2>2, DispatchLog DEF IInv, TypeInv
    <3> QED BY <2>2, <3>1 DEF DispatchPush, RingNext
  <2>3. CASE BroadcastLost \/ CopyTargets \/ DispatchDone \/ \E k \in Subs : SendNext(k)
    BY <2>3 DEF BroadcastLost, CopyTargets, DispatchDone, SendNext
  <2>4. ASSUME NEW k \in Subs,
               Subscribe(k) \/ Bridge(k) \/ ReceiveEvent(k) \/ CancelSub(k) \/ CloseStop(k)
        PROVE  UNCHANGED ring
    BY <2>4 DEF Subscribe, TakeSnapshot, RegisterSub, ReplayNext, StartBridge, Bridge,
                BridgeTake, BridgePut, BridgeStop, ReceiveEvent, CancelSub, CloseStop
  <2> QED BY <2>1, <2>2, <2>3, <2>4 DEF Next, Pump
<1>3. Spec => RingSpec
  BY <1>1, <1>2, Inductive, PTL DEF Spec, RingSpec
<1> QED BY <1>3, RingImplementsLog
=============================================================================
