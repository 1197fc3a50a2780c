------------------------- MODULE BreakpointsProofs --------------------------
(***************************************************************************)
(* That record, adapter and the client's knowledge of breakpoints stay in  *)
(* step, for any number of files, places and initial breakpoints.          *)
(***************************************************************************)
EXTENDS Breakpoints, TLAPS

AllBreakpoints == [Lists -> SUBSET Locs]

TypeInv ==
    /\ recorded \in AllBreakpoints
    /\ adapter \in AllBreakpoints
    /\ accepted \subseteq Lists \X Locs
    /\ disturbed \subseteq Lists
    /\ unplaced \in AllBreakpoints

\* What AgreesUnlessDisturbed says, whatever the state of the connection: a
\* lost one leaves the adapter as it was, or fresh.
Agrees == \A k \in Lists \ disturbed : adapter[k] = recorded[k] \ unplaced[k]

IInv == TypeInv /\ RecordedIsConfirmed /\ Agrees

-----------------------------------------------------------------------------
(* Lemmas about the operators.                                             *)

\* Lists given one by one to the adapter, by debug (tools.go:1251), are lists
\* of breakpoints, and leave those alone that are not named.
LEMMA InitialLists ==
    ASSUME NEW bps \in InitialInputs, NEW no, NEW lists \in AllBreakpoints
    PROVE  /\ DebugInitial(bps, no, lists) \in AllBreakpoints
           /\ {bps[i].list : i \in DOMAIN bps} \subseteq Lists
           /\ \A k \in Lists : k \notin {bps[i].list : i \in DOMAIN bps} =>
                  DebugInitial(bps, no, lists)[k] = lists[k]
<1>1. PICK n \in Nat : bps \in [1 .. n -> [list : Lists, loc : Locs]]
  BY InitialAssumption DEF InitialInputs
<1>2. \A i \in DOMAIN bps : bps[i].list \in Lists /\ bps[i].loc \in Locs
  BY <1>1
<1>3. \A k \in Lists : LastOf(bps, k) \subseteq DOMAIN bps
  BY DEF LastOf
<1>4. \A k \in Lists : {bps[i].loc : i \in LastOf(bps, k) \ no} \subseteq Locs
  BY <1>2, <1>3
<1>5. \A k \in Lists : k \notin {bps[i].list : i \in DOMAIN bps} => LastOf(bps, k) = {}
  BY DEF LastOf
<1> QED
  BY <1>2, <1>4, <1>5 DEF DebugInitial, AllBreakpoints

\* Replacing lists of the adapter, as reinitialize does.
LEMMA ReplacedLists ==
    ASSUME TypeInv, NEW ks, NEW new \in AllBreakpoints, NEW nowhere \in AllBreakpoints
    PROVE  /\ Replaced(ks, new, nowhere) \in AllBreakpoints
           /\ Unplaced(ks, new, nowhere) \in AllBreakpoints
  BY DEF Replaced, Unplaced, TypeInv, AllBreakpoints

\* Clearing lists leaves them empty.
LEMMA ClearedLists ==
    ASSUME TypeInv, NEW ks
    PROVE  /\ Replaced(ks, NoBreakpoints, NoBreakpoints) \in AllBreakpoints
           /\ Unplaced(ks, NoBreakpoints, NoBreakpoints) \in AllBreakpoints
           /\ \A k \in Lists : Replaced(ks, NoBreakpoints, NoBreakpoints)[k] =
                                   IF k \in ks THEN {} ELSE adapter[k]
<1>1. \A k \in Lists : Replaced(ks, NoBreakpoints, NoBreakpoints)[k] =
                           IF k \in ks THEN {} ELSE adapter[k]
  BY DEF Replaced, NoBreakpoints
<1>2. /\ Replaced(ks, NoBreakpoints, NoBreakpoints) \in AllBreakpoints
      /\ Unplaced(ks, NoBreakpoints, NoBreakpoints) \in AllBreakpoints
  BY DEF Replaced, Unplaced, NoBreakpoints, TypeInv, AllBreakpoints
<1> QED BY <1>1, <1>2

\* No breakpoints are lists of breakpoints too.
LEMMA NoLists == NoBreakpoints \in AllBreakpoints /\ \A k \in Lists : NoBreakpoints[k] = {}
  BY DEF NoBreakpoints, AllBreakpoints

-----------------------------------------------------------------------------
\* Initially there is no breakpoint anywhere.
LEMMA InitIInv == Init => IInv
  BY DEF Init, IInv, TypeInv, RecordedIsConfirmed, Agrees, NoBreakpoints, AllBreakpoints

\* debug and redialling: the adapter kept what it had or has nothing; either
\* way it differs only where it is disturbed.
LEMMA BegunIInv ==
    ASSUME IInv, NEW bps \in InitialInputs, NEW kept \in BOOLEAN, NEW no, Begun(bps, kept, no)
    PROVE  IInv'
<1>1. Found(kept) \in AllBreakpoints
  BY NoLists DEF Found, IInv, TypeInv
<1> DEFINE named == {bps[i].list : i \in DOMAIN bps}
<1>2. /\ adapter' \in AllBreakpoints
      /\ named \subseteq Lists
      /\ \A k \in Lists \ named : adapter'[k] = Found(kept)[k]
  BY <1>1, InitialLists DEF Begun
<1>3. recorded' = recorded /\ accepted' = accepted /\ unplaced' = unplaced
  BY DEF Begun
<1>4. disturbed' = (IF kept THEN disturbed ELSE Remembered) \cup named
  BY DEF Begun
<1>5. TypeInv'
  BY <1>2, <1>3, <1>4 DEF IInv, TypeInv, Remembered
<1>6. Agrees'
  <2> SUFFICES ASSUME NEW k \in Lists \ disturbed'
               PROVE  adapter'[k] = recorded[k] \ unplaced[k]
    BY <1>3 DEF Agrees
  <2>1. adapter'[k] = Found(kept)[k]
    BY <1>2, <1>4
  <2>2. CASE kept
    BY <2>1, <2>2, <1>4 DEF Found, IInv, Agrees
  <2>3. CASE ~kept
    BY <2>1, <2>3, <1>4, NoLists DEF Found, Remembered
  <2> QED BY <2>2, <2>3
<1> QED
  BY <1>3, <1>5, <1>6 DEF IInv, RecordedIsConfirmed

LEMMA RedialIInv ==
    ASSUME IInv, NEW kept \in BOOLEAN, Redial(kept)
    PROVE  IInv'
<1>1. CASE kept
  BY <1>1 DEF Redial, Found, IInv, TypeInv, Agrees, RecordedIsConfirmed
<1>2. CASE ~kept
  BY <1>2, NoLists DEF Redial, Found, Remembered, IInv, TypeInv, Agrees, RecordedIsConfirmed
<1> QED BY <1>1, <1>2

\* Sending remembered lists again never sets adapter and record apart.
LEMMA ReinitIInv ==
    ASSUME IInv, NEW done \in SUBSET Lists, NEW nowhere \in Nowheres,
           SentAgain(done, nowhere), disturbed' = disturbed \ done
    PROVE  IInv'
<1>1. nowhere \in AllBreakpoints
  BY DEF Nowheres, AllBreakpoints
<1>2. /\ adapter' \in AllBreakpoints /\ unplaced' \in AllBreakpoints
      /\ \A k \in Lists : adapter'[k] = IF k \in done THEN recorded[k] \ nowhere[k] ELSE adapter[k]
      /\ \A k \in Lists : unplaced'[k] =
                              IF k \in done THEN recorded[k] \cap nowhere[k] ELSE unplaced[k]
  <2>1. TypeInv /\ recorded \in AllBreakpoints
    BY DEF IInv, TypeInv
  <2>2. /\ adapter' = Replaced(done, recorded, nowhere)
        /\ unplaced' = Unplaced(done, recorded, nowhere)
    BY DEF SentAgain
  <2>3. Replaced(done, recorded, nowhere) \in AllBreakpoints
    BY <1>1, <2>1, ReplacedLists
  <2>4. Unplaced(done, recorded, nowhere) \in AllBreakpoints
    BY <1>1, <2>1, ReplacedLists
  <2>5. \A k \in Lists : Replaced(done, recorded, nowhere)[k] =
                             IF k \in done THEN recorded[k] \ nowhere[k] ELSE adapter[k]
    BY DEF Replaced
  <2>6. \A k \in Lists : Unplaced(done, recorded, nowhere)[k] =
                             IF k \in done THEN recorded[k] \cap nowhere[k] ELSE unplaced[k]
    BY DEF Unplaced
  <2> QED BY <2>2, <2>3, <2>4, <2>5, <2>6, Zenon
<1>3. disturbed' = disturbed \ done /\ recorded' = recorded /\ accepted' = accepted
  BY DEF SentAgain
<1>4. TypeInv'
  BY <1>2, <1>3 DEF IInv, TypeInv
<1>5. Agrees'
  BY <1>2, <1>3 DEF IInv, Agrees
<1> QED
  BY <1>3, <1>4, <1>5 DEF IInv, RecordedIsConfirmed

\* One request that replaces list k: answered, it is recorded and confirmed;
\* applied but not answered, it disturbs the list; otherwise nothing changes.
LEMMA RequestIInv ==
    ASSUME IInv, NEW k \in Lists, NEW new \in SUBSET Locs, NEW no \in SUBSET Locs, NEW out,
           adapter' = IF Applied(out) THEN Taken(k, new, no) ELSE adapter,
           Recorded(k, new, out),
           Settled(k, out),
           Answered(k, new, no, out),
           accepted' = IF out = "ok"
                       THEN {a \in accepted : a[1] # k} \cup ({k} \X new)
                       ELSE accepted
    PROVE  IInv'
<1>1. CASE out = "ok"
  <2>1. /\ adapter' = [adapter EXCEPT ![k] = new \ no]
        /\ unplaced' = [unplaced EXCEPT ![k] = new \cap no]
        /\ recorded' = [recorded EXCEPT ![k] = new]
        /\ disturbed' = disturbed \ {k}
        /\ accepted' = {a \in accepted : a[1] # k} \cup ({k} \X new)
    BY <1>1 DEF Applied, Recorded, Settled, Answered, Taken
  <2>2. TypeInv' /\ Agrees'
    BY <2>1 DEF IInv, TypeInv, Agrees, AllBreakpoints
  <2>3. RecordedIsConfirmed'
    BY <2>1 DEF IInv, TypeInv, RecordedIsConfirmed, AllBreakpoints
  <2> QED BY <2>2, <2>3 DEF IInv
<1>2. CASE out # "ok"
  <2>1. recorded' = recorded /\ accepted' = accepted /\ unplaced' = unplaced
    BY <1>2 DEF Recorded, Answered
  <2>2. \/ /\ adapter' = [adapter EXCEPT ![k] = new \ no]
           /\ disturbed' = disturbed \cup {k}
        \/ adapter' = adapter /\ disturbed' = disturbed
    BY <1>2 DEF Settled, Taken
  <2>3. TypeInv' /\ Agrees'
    BY <2>1, <2>2 DEF IInv, TypeInv, Agrees, AllBreakpoints
  <2> QED BY <2>1, <2>3 DEF IInv, RecordedIsConfirmed
<1> QED BY <1>1, <1>2

LEMMA SetBreakpointIInv ==
    ASSUME IInv, NEW k \in Lists, NEW l \in Locs, NEW no \in SUBSET Locs,
           NEW out \in Outcomes, SetBreakpoint(k, l, no, out)
    PROVE  IInv'
<1>1. recorded[k] \cup {l} \in SUBSET Locs
  BY DEF IInv, TypeInv, AllBreakpoints
<1>2. accepted' = IF out = "ok"
                  THEN {a \in accepted : a[1] # k} \cup ({k} \X (recorded[k] \cup {l}))
                  ELSE accepted
  <2>1. accepted \cup {<<k, l>>} =
            {a \in accepted : a[1] # k} \cup ({k} \X (recorded[k] \cup {l}))
    BY DEF IInv, TypeInv, RecordedIsConfirmed, AllBreakpoints
  <2> QED BY <2>1 DEF SetBreakpoint
<1> QED
  BY <1>1, <1>2, RequestIInv DEF SetBreakpoint, NewList

LEMMA ClearFileIInv ==
    ASSUME IInv, NEW f \in Files, NEW out \in ClearOutcomes, ClearFile(f, out)
    PROVE  IInv'
<1>1. f \in Lists
  BY DEF Lists
<1>2. accepted' = IF out = "ok" THEN {a \in accepted : a[1] # f} \cup ({f} \X {}) ELSE accepted
  BY DEF ClearFile
<1> QED
  BY <1>1, <1>2, RequestIInv DEF ClearFile

LEMMA UnverifiedIInv ==
    ASSUME IInv, NEW f \in Files, NEW l \in Locs, NEW no \in SUBSET Locs, Unverified(f, l, no)
    PROVE  IInv'
<1>1. f \in Lists
  BY DEF Lists
<1>2. /\ adapter' = [adapter EXCEPT ![f] = (recorded[f] \cup {l}) \ no]
      /\ disturbed' = IF l \in no THEN disturbed \ {f} ELSE disturbed \cup {f}
      /\ unplaced' = [unplaced EXCEPT ![f] = recorded[f] \cap no]
      /\ recorded' = recorded /\ accepted' = accepted
  BY DEF Unverified, Taken, NewList
<1>3. TypeInv'
  BY <1>1, <1>2 DEF IInv, TypeInv, AllBreakpoints
<1>4. Agrees'
  BY <1>1, <1>2 DEF IInv, TypeInv, Agrees, AllBreakpoints
<1> QED
  BY <1>2, <1>3, <1>4 DEF IInv, RecordedIsConfirmed

LEMMA ClearAllIInv ==
    ASSUME IInv, ClearAll
    PROVE  IInv'
<1>1. /\ adapter' \in AllBreakpoints /\ unplaced' \in AllBreakpoints
      /\ \A k \in Lists : adapter'[k] = IF k \in ToClear THEN {} ELSE adapter[k]
  BY ClearedLists DEF ClearAll, IInv
<1>2. recorded' \in AllBreakpoints /\ \A k \in Lists : recorded'[k] = {}
  BY NoLists DEF ClearAll
<1>3. accepted' = {} /\ disturbed' = disturbed \ ToClear
  BY DEF ClearAll
<1>4. \A k \in Lists : k \notin ToClear => recorded[k] = {}
  BY DEF ToClear, Lists
<1>5. TypeInv'
  BY <1>1, <1>2, <1>3 DEF IInv, TypeInv
<1>6. Agrees'
  BY <1>1, <1>2, <1>3, <1>4 DEF IInv, Agrees
<1>7. RecordedIsConfirmed'
  BY <1>2, <1>3 DEF RecordedIsConfirmed
<1> QED BY <1>5, <1>6, <1>7 DEF IInv

LEMMA ClearSomeIInv ==
    ASSUME IInv, NEW done \in SUBSET Lists, NEW k \in Lists, NEW out \in ClearOutcomes,
           ClearSome(done, k, out)
    PROVE  IInv'
<1> DEFINE cleared == IF Applied(out) THEN done \cup {k} ELSE done
<1>1. cleared \subseteq Lists
  OBVIOUS
<1>2. /\ adapter' \in AllBreakpoints
      /\ \A j \in Lists : adapter'[j] = IF j \in cleared THEN {} ELSE adapter[j]
  <2>1. adapter' = Replaced(cleared, NoBreakpoints, NoBreakpoints)
    BY DEF ClearSome
  <2>2. TypeInv
    BY DEF IInv
  <2> HIDE DEF cleared
  <2> QED BY <2>1, <2>2, ClearedLists, Zenon
<1>3. /\ disturbed' = disturbed \cup cleared
      /\ recorded' = recorded /\ accepted' = accepted /\ unplaced' = unplaced
  BY DEF ClearSome
<1> HIDE DEF cleared
<1>4. TypeInv' /\ Agrees'
  BY <1>1, <1>2, <1>3 DEF IInv, TypeInv, Agrees
<1> QED BY <1>3, <1>4 DEF IInv, RecordedIsConfirmed

LEMMA RunToIInv ==
    ASSUME IInv, NEW k \in Lists, NEW l \in Locs, NEW no \in SUBSET Locs,
           NEW out \in Outcomes, RunTo(k, l, no, out)
    PROVE  IInv'
<1>1. CASE Applied(out)
  BY <1>1 DEF RunTo, Taken, IInv, TypeInv, Agrees, RecordedIsConfirmed, AllBreakpoints
<1>2. CASE ~Applied(out)
  BY <1>2 DEF RunTo, IInv, TypeInv, Agrees, RecordedIsConfirmed
<1> QED BY <1>1, <1>2

-----------------------------------------------------------------------------
\* Every step preserves the invariant.
LEMMA NextIInv == IInv /\ [Next]_vars => IInv'
<1> SUFFICES ASSUME IInv, [Next]_vars PROVE IInv'
  OBVIOUS
<1>1. ASSUME NEW kept \in BOOLEAN, Redial(kept) PROVE IInv'
  BY <1>1, RedialIInv
<1>2. ASSUME NEW kept \in BOOLEAN, NEW bps \in InitialInputs, NEW no \in SUBSET DOMAIN bps,
             Debug(bps, kept, no) \/ DebugFails(bps, kept, no)
      PROVE  IInv'
  BY <1>2, BegunIInv DEF Debug, DebugFails
<1>3. CASE Stop \/ Lose \/ UNCHANGED vars
  BY <1>3 DEF Stop, Lose, vars, IInv, TypeInv, Agrees, RecordedIsConfirmed
<1>4. ASSUME NEW nowhere \in Nowheres, Reinitialize(nowhere) PROVE IInv'
  <2>1. Resent \in SUBSET Lists /\ Resent = Remembered
    BY DEF Resent, Remembered
  <2> QED BY <1>4, <2>1, ReinitIInv DEF Reinitialize
<1>5. ASSUME NEW nowhere \in Nowheres, NEW done \in SUBSET Lists,
             ReinitLost(done, nowhere) \/ ReinitFailed(done, nowhere)
      PROVE  IInv'
  BY <1>5, ReinitIInv DEF ReinitLost, ReinitFailed
<1>6. ASSUME NEW k \in Lists, NEW l \in Locs, NEW no \in SUBSET Locs, NEW out \in Outcomes,
             SetBreakpoint(k, l, no, out) \/ RunTo(k, l, no, out)
      PROVE  IInv'
  BY <1>6, SetBreakpointIInv, RunToIInv
<1>7. ASSUME NEW f \in Files, NEW l \in Locs, NEW no \in SUBSET Locs, Unverified(f, l, no)
      PROVE  IInv'
  BY <1>7, UnverifiedIInv
<1>8. ASSUME NEW f \in Files, NEW out \in ClearOutcomes, ClearFile(f, out) PROVE IInv'
  BY <1>8, ClearFileIInv
<1>9. CASE ClearAll
  BY <1>9, ClearAllIInv
<1>10. ASSUME NEW done \in SUBSET Lists, NEW k \in Lists, NEW out \in ClearOutcomes,
              ClearSome(done, k, out)
       PROVE  IInv'
  BY <1>10, ClearSomeIInv
<1> QED
  BY <1>1, <1>2, <1>3, <1>4, <1>5, <1>6, <1>7, <1>8, <1>9, <1>10 DEF Next

\* A breakpoint is remembered exactly when it was confirmed to the client and
\* not cleared since (tools.go:1687).
THEOREM RecordIsConfirmed == Spec => []RecordedIsConfirmed
<1>1. IInv => RecordedIsConfirmed
  BY DEF IInv
<1> QED BY <1>1, InitIInv, NextIInv, PTL DEF Spec

\* The adapter has what the session remembers, in every list that none of
\* the listed causes has disturbed, but for what it could not place when it
\* answered last (tools.go:1637, 1665, 1757).
THEOREM AdapterAgrees == Spec => []AgreesUnlessDisturbed
<1>1. IInv => AgreesUnlessDisturbed
  BY DEF IInv, Agrees, AgreesUnlessDisturbed
<1> QED BY <1>1, InitIInv, NextIInv, PTL DEF Spec
=============================================================================
