-------------------------- MODULE DAPClientProofs ---------------------------
(***************************************************************************)
(* Theorems about DAPClient, for every number of handlers, requests,       *)
(* connections, losses and forced reconnects.  Each safety property is     *)
(* strengthened to an inductive invariant out of the parts stated at the   *)
(* end of DAPClient; a lemma per invariant has one step per action.        *)
(***************************************************************************)
EXTENDS DAPClient, TLAPS

SeqsInRange == \A p \in Procs : pc[p] # "idle" => seqOf[p] \in Seqs

TypeInv == TypeOK /\ SeqBound /\ SeqsInRange

\* The registry and its waiters: every part needs some of the others.
RegInv ==
    /\ FreshUntouched /\ SeqHeld /\ SeqDistinct
    /\ RequestProgress /\ RegistryOpen /\ DeliverIsSafe /\ NoLostWaiter

WakeInv == LoopAlive /\ StaleIsPursued

LinkInv == HookInside /\ InstallOrder /\ OneLiveConnection

OriginInv == TransitOrigin /\ NoCrossTalk

-----------------------------------------------------------------------------
(* Types.                                                                  *)

\* Whoever may allocate a sequence number finds one left: a handler because
\* calls are bounded, the hook because it runs once per connection and sends
\* two requests.
LEMMA SeqRoom ==
    ASSUME TypeOK, SeqBound,
           calls < MaxCalls \/ rc \in BeforeHook \cup {"listening"}
    PROVE  nextSeq \in Seqs /\ nextSeq \in Nat
BY BoundsAssumption DEF TypeOK, RegistryOK, ReconOK, CountersOK, SeqBound,
   HookRequestsLeft, AwaitsInit, BeforeHook, Gens, Seqs

\* Every step keeps the types, the allocated numbers in range.
LEMMA TypeInvStep ==
    TypeInv /\ [Next]_vars => TypeInv'
<1> SUFFICES ASSUME TypeInv, [Next]_vars PROVE TypeInv'
  OBVIOUS
<1> USE BoundsAssumption, SwitchAssumption, ProcAssumption DEF TypeInv,
   TypeOK, PcStates, RlStates, RcStates, AwaitsInit, HookRequestsLeft,
   BeforeHook, Procs, Gens, Seqs,
   registry, transport, signals, handlers, reader, recon, events, counters
<1>0. CASE UNCHANGED vars
  BY <1>0 DEF vars, RegistryOK, TransportOK, SignalsOK, HandlersOK,
     ReaderOK, ReconOK, CountersOK, SeqBound, SeqsInRange
<1>1. ASSUME NEW c \in Callers, Begin(c) PROVE TypeInv'
  <2>0. nextSeq \in Seqs
    BY <1>1, SeqRoom DEF Begin
  <2>1. RegistryOK'
    BY <1>1, <2>0 DEF Begin, HandlersOK, ReaderOK, SeqsInRange, RegistryOK
  <2>2. HandlersOK'
    BY <1>1, <2>0 DEF Begin, SeqsInRange, HandlersOK
  <2>3. CountersOK'
    BY <1>1, <2>0 DEF Begin, CountersOK
  <2>4. SeqBound'
    BY <1>1, <2>0 DEF Begin, RegistryOK, ReconOK, CountersOK, SeqBound
  <2>5. SeqsInRange'
    BY <1>1, <2>0 DEF Begin, HandlersOK, SeqsInRange
  <2>6. (TransportOK /\ SignalsOK /\ ReaderOK /\ ReconOK)'
    BY <1>1, <2>0 DEF Begin, HandlersOK, ReconOK, ReaderOK, SeqsInRange,
       TransportOK, SignalsOK
  <2> QED BY <2>1, <2>2, <2>3, <2>4, <2>5, <2>6
<1>2. ASSUME NEW p \in Procs, DoRegister(p) PROVE TypeInv'
  <2>0. seqOf[p] \in Seqs
    BY <1>2 DEF DoRegister, SeqsInRange
  <2>1. RegistryOK'
    <3>1. (responses \subseteq Seqs)'
      BY <1>2, <2>0 DEF DoRegister, Register, RegistryOK
    <3>2. (chan \in [Seqs -> {"none", "open", "closed"}])'
      BY <1>2, <2>0 DEF DoRegister, Register, RegistryOK
    <3>3. (buf \in [Seqs -> 0 .. MaxGen])'
      BY <1>2, <2>0 DEF DoRegister, Register, RegistryOK
    <3> QED BY <1>2, <3>1, <3>2, <3>3 DEF DoRegister, RegistryOK
  <2>2. HandlersOK'
    BY <1>2, <2>0 DEF DoRegister, Register, SeqsInRange, HandlersOK
  <2>3. SeqsInRange'
    BY <1>2, <2>0 DEF DoRegister, Register, HandlersOK, SeqsInRange
  <2>4. (TransportOK /\ SignalsOK /\ ReaderOK /\ ReconOK /\ CountersOK /\
         SeqBound)'
    BY <1>2, <2>0 DEF DoRegister, Register, HandlersOK, ReconOK, ReaderOK,
       SeqsInRange, TransportOK, SignalsOK, CountersOK, RegistryOK, SeqBound
  <2> QED BY <2>1, <2>2, <2>3, <2>4
<1>3. ASSUME NEW p \in Procs, WriteOk(p) PROVE TypeInv'
  <2>1. TransportOK'
    BY <1>3 DEF WriteOk, HandlersOK, ReconOK, ReaderOK, SeqsInRange,
       TransportOK
  <2>2. HandlersOK'
    BY <1>3 DEF WriteOk, SeqsInRange, HandlersOK
  <2>3. SeqsInRange'
    BY <1>3 DEF WriteOk, HandlersOK, SeqsInRange
  <2>4. (RegistryOK /\ SignalsOK /\ ReaderOK /\ ReconOK /\ CountersOK /\
         SeqBound)'
    BY <1>3 DEF WriteOk, HandlersOK, ReaderOK, SeqsInRange, RegistryOK,
       SignalsOK, ReconOK, CountersOK, SeqBound
  <2> QED BY <2>1, <2>2, <2>3, <2>4
<1>4. ASSUME NEW p \in Procs, WriteErr(p) PROVE TypeInv'
  <2>1. RegistryOK'
    BY <1>4 DEF WriteErr, Unregister, HandlersOK, ReaderOK, SeqsInRange,
       RegistryOK
  <2>2. HandlersOK'
    BY <1>4 DEF WriteErr, Unregister, SeqsInRange, HandlersOK
  <2>3. SeqsInRange'
    BY <1>4 DEF WriteErr, Unregister, HandlersOK, SeqsInRange
  <2>4. (TransportOK /\ SignalsOK /\ ReaderOK /\ ReconOK /\ CountersOK /\
         SeqBound)'
    BY <1>4 DEF WriteErr, Unregister, HandlersOK, ReconOK, ReaderOK,
       SeqsInRange, TransportOK, SignalsOK, CountersOK, RegistryOK, SeqBound
  <2> QED BY <2>1, <2>2, <2>3, <2>4
<1>5. ASSUME NEW p \in Procs, WriteFailed(p) PROVE TypeInv'
  <2>1. SignalsOK'
    BY <1>5 DEF WriteFailed, Return, MarkStale, SignalsOK
  <2>2. HandlersOK'
    BY <1>5 DEF WriteFailed, Return, MarkStale, SeqsInRange, HandlersOK
  <2>3. ReconOK'
    BY <1>5 DEF WriteFailed, Return, MarkStale, ReconOK
  <2>4. SeqBound'
    BY <1>5 DEF WriteFailed, Return, MarkStale, RegistryOK, ReconOK,
       CountersOK, SeqBound
  <2>5. SeqsInRange'
    BY <1>5 DEF WriteFailed, Return, MarkStale, HandlersOK, SeqsInRange
  <2>6. (RegistryOK /\ TransportOK /\ ReaderOK /\ CountersOK)'
    BY <1>5 DEF WriteFailed, Return, MarkStale, HandlersOK, ReaderOK,
       SeqsInRange, RegistryOK, ReconOK, TransportOK, CountersOK
  <2> QED BY <2>1, <2>2, <2>3, <2>4, <2>5, <2>6
<1>6. ASSUME NEW p \in Procs, Lookup(p) PROVE TypeInv'
  BY <1>6 DEF Lookup, RegistryOK, TransportOK, SignalsOK, HandlersOK,
     ReaderOK, ReconOK, CountersOK, SeqBound, SeqsInRange
<1>7. ASSUME NEW p \in Procs, LookupMiss(p) PROVE TypeInv'
  <2>1. HandlersOK'
    BY <1>7 DEF LookupMiss, Finish, HookGoesOn, Return, SeqsInRange, HandlersOK
  <2>2. ReconOK'
    BY <1>7 DEF LookupMiss, Finish, HookGoesOn, Return, ReconOK
  <2>3. SeqBound'
    BY <1>7 DEF LookupMiss, Finish, HookGoesOn, Return, RegistryOK, ReconOK,
       CountersOK, SeqBound
  <2>4. SeqsInRange'
    BY <1>7 DEF LookupMiss, Finish, HookGoesOn, Return, HandlersOK, SeqsInRange
  <2>5. (RegistryOK /\ TransportOK /\ SignalsOK /\ ReaderOK /\ CountersOK)'
    BY <1>7 DEF LookupMiss, Finish, HookGoesOn, Return, HandlersOK, ReaderOK,
       SeqsInRange, RegistryOK, ReconOK, TransportOK, SignalsOK, CountersOK
  <2> QED BY <2>1, <2>2, <2>3, <2>4, <2>5
<1>8. ASSUME NEW p \in Procs, Receive(p) PROVE TypeInv'
  <2>1. HandlersOK'
    BY <1>8 DEF Receive, Finish, HookGoesOn, Return, SeqsInRange, HandlersOK
  <2>2. ReconOK'
    BY <1>8 DEF Receive, Finish, HookGoesOn, Return, ReconOK
  <2>3. SeqBound'
    BY <1>8 DEF Receive, Finish, HookGoesOn, Return, RegistryOK, ReconOK,
       CountersOK, SeqBound
  <2>4. SeqsInRange'
    BY <1>8 DEF Receive, Finish, HookGoesOn, Return, HandlersOK, SeqsInRange
  <2>5. (RegistryOK /\ TransportOK /\ SignalsOK /\ ReaderOK /\ CountersOK)'
    BY <1>8 DEF Receive, Finish, HookGoesOn, Return, HandlersOK, ReaderOK,
       SeqsInRange, RegistryOK, ReconOK, TransportOK, SignalsOK, CountersOK
  <2> QED BY <2>1, <2>2, <2>3, <2>4, <2>5
<1>9. ASSUME NEW p \in Procs, ReceiveClosed(p) PROVE TypeInv'
  <2>1. HandlersOK'
    BY <1>9 DEF ReceiveClosed, Finish, HookGoesOn, Return, SeqsInRange, HandlersOK
  <2>2. ReconOK'
    BY <1>9 DEF ReceiveClosed, Finish, HookGoesOn, Return, ReconOK
  <2>3. SeqBound'
    BY <1>9 DEF ReceiveClosed, Finish, HookGoesOn, Return, RegistryOK, ReconOK,
       CountersOK, SeqBound
  <2>4. SeqsInRange'
    BY <1>9 DEF ReceiveClosed, Finish, HookGoesOn, Return, HandlersOK, SeqsInRange
  <2>5. (RegistryOK /\ TransportOK /\ SignalsOK /\ ReaderOK /\ CountersOK)'
    BY <1>9 DEF ReceiveClosed, Finish, HookGoesOn, Return, HandlersOK, ReaderOK,
       SeqsInRange, RegistryOK, ReconOK, TransportOK, SignalsOK, CountersOK
  <2> QED BY <2>1, <2>2, <2>3, <2>4, <2>5
<1>10. ASSUME NEW c \in Callers, Cancel(c) PROVE TypeInv'
  <2>1. HandlersOK'
    BY <1>10 DEF Cancel, Finish, HookGoesOn, Return, SeqsInRange, HandlersOK
  <2>2. ReconOK'
    BY <1>10 DEF Cancel, Finish, HookGoesOn, Return, ReconOK
  <2>3. SeqBound'
    BY <1>10 DEF Cancel, Finish, HookGoesOn, Return, RegistryOK, ReconOK,
       CountersOK, SeqBound
  <2>4. SeqsInRange'
    BY <1>10 DEF Cancel, Finish, HookGoesOn, Return, HandlersOK, SeqsInRange
  <2>5. (RegistryOK /\ TransportOK /\ SignalsOK /\ ReaderOK /\ CountersOK)'
    BY <1>10 DEF Cancel, Finish, HookGoesOn, Return, HandlersOK, ReaderOK,
       SeqsInRange, RegistryOK, ReconOK, TransportOK, SignalsOK, CountersOK
  <2> QED BY <2>1, <2>2, <2>3, <2>4, <2>5
<1>11. ASSUME ReadTop PROVE TypeInv'
  BY <1>11 DEF ReadTop, RegistryOK, TransportOK, SignalsOK, HandlersOK,
     ReaderOK, ReconOK, CountersOK, SeqBound, SeqsInRange
<1>12. ASSUME LoadReader PROVE TypeInv'
  BY <1>12 DEF LoadReader, RegistryOK, TransportOK, SignalsOK, HandlersOK,
     ReaderOK, ReconOK, CountersOK, SeqBound, SeqsInRange
<1>13. ASSUME NEW s \in Seqs, ReadResponse(s) PROVE TypeInv'
  <2>1. RegistryOK'
    BY <1>13 DEF ReadResponse, TakeOut, HandlersOK, ReaderOK, SeqsInRange,
       RegistryOK
  <2>2. TransportOK'
    BY <1>13 DEF ReadResponse, TakeOut, HandlersOK, ReconOK, ReaderOK,
       SeqsInRange, TransportOK
  <2>3. ReaderOK'
    BY <1>13 DEF ReadResponse, TakeOut, ReaderOK
  <2>4. (SignalsOK /\ HandlersOK /\ ReconOK /\ CountersOK /\ SeqBound /\
         SeqsInRange)'
    BY <1>13 DEF ReadResponse, TakeOut, SignalsOK, SeqsInRange,
       HandlersOK, ReconOK, CountersOK, RegistryOK, SeqBound
  <2> QED BY <2>1, <2>2, <2>3, <2>4
<1>14. ASSUME Deliver PROVE TypeInv'
  <2>0. rlGen \in 0 .. MaxGen
    BY <1>14 DEF Deliver, ReaderOK
  <2>1. RegistryOK'
    BY <1>14, <2>0 DEF Deliver, RegistryOK
  <2>2. ReaderOK'
    BY <1>14, <2>0 DEF Deliver, ReaderOK
  <2>3. SeqBound'
    BY <1>14, <2>0 DEF Deliver, RegistryOK, ReconOK, CountersOK, SeqBound
  <2>4. SeqsInRange'
    BY <1>14, <2>0 DEF Deliver, HandlersOK, SeqsInRange
  <2>5. (TransportOK /\ SignalsOK /\ HandlersOK /\ ReconOK /\ CountersOK)'
    BY <1>14, <2>0 DEF Deliver, HandlersOK, ReconOK, ReaderOK,
       SeqsInRange, TransportOK, SignalsOK, CountersOK
  <2> QED BY <2>1, <2>2, <2>3, <2>4, <2>5
<1>15. ASSUME ReadError PROVE TypeInv'
  <2>1. SignalsOK'
    BY <1>15 DEF ReadError, GiveUp, MarkStale, SignalsOK
  <2>2. ReaderOK'
    BY <1>15 DEF ReadError, GiveUp, MarkStale, ReaderOK
  <2>3. (RegistryOK /\ TransportOK /\ HandlersOK /\ ReconOK /\ CountersOK /\
         SeqBound /\ SeqsInRange)'
    BY <1>15 DEF ReadError, GiveUp, MarkStale, HandlersOK, ReaderOK, SeqsInRange,
       RegistryOK, ReconOK, TransportOK, CountersOK, SeqBound
  <2> QED BY <2>1, <2>2, <2>3
<1>16. ASSUME ReadDrain PROVE TypeInv'
  BY <1>16 DEF ReadDrain, CloseRegistry, RegistryOK, TransportOK,
     SignalsOK, HandlersOK, ReaderOK, ReconOK, CountersOK, SeqBound,
     SeqsInRange
<1>17. ASSUME ReadResume PROVE TypeInv'
  <2>1. SignalsOK'
    BY <1>17 DEF ReadResume, SignalsOK
  <2>2. ReaderOK'
    BY <1>17 DEF ReadResume, ReaderOK
  <2>3. (RegistryOK /\ TransportOK /\ HandlersOK /\ ReconOK /\ CountersOK /\
         SeqBound /\ SeqsInRange)'
    BY <1>17 DEF ReadResume, HandlersOK, ReaderOK, SeqsInRange,
       RegistryOK, ReconOK, TransportOK, CountersOK, SeqBound
  <2> QED BY <2>1, <2>2, <2>3
<1>18. ASSUME ReadStop PROVE TypeInv'
  BY <1>18 DEF ReadStop, RegistryOK, TransportOK, SignalsOK, HandlersOK,
     ReaderOK, ReconOK, CountersOK, SeqBound, SeqsInRange
<1>19. ASSUME Wake PROVE TypeInv'
  <2>1. SignalsOK'
    BY <1>19 DEF Wake, SignalsOK
  <2>2. ReconOK'
    BY <1>19 DEF Wake, ReconOK
  <2>3. SeqBound'
    BY <1>19 DEF Wake, RegistryOK, ReconOK, CountersOK, SeqBound
  <2>4. (RegistryOK /\ TransportOK /\ HandlersOK /\ ReaderOK /\ CountersOK
         /\ SeqsInRange)'
    BY <1>19 DEF Wake, HandlersOK, ReaderOK, SeqsInRange, RegistryOK,
       ReconOK, TransportOK, CountersOK
  <2> QED BY <2>1, <2>2, <2>3, <2>4
<1>20. ASSUME ReconStop PROVE TypeInv'
  BY <1>20 DEF ReconStop, RegistryOK, TransportOK, SignalsOK, HandlersOK,
     ReaderOK, ReconOK, CountersOK, SeqBound, SeqsInRange
<1>21. ASSUME Redial PROVE TypeInv'
  <2>1. TransportOK'
    BY <1>21 DEF Redial, HandlersOK, ReconOK, ReaderOK, SeqsInRange,
       TransportOK
  <2>2. ReconOK'
    BY <1>21 DEF Redial, ReconOK
  <2>3. SeqBound'
    BY <1>21 DEF Redial, RegistryOK, ReconOK, CountersOK, SeqBound
  <2>4. (RegistryOK /\ SignalsOK /\ HandlersOK /\ ReaderOK /\ CountersOK /\
         SeqsInRange)'
    BY <1>21 DEF Redial, HandlersOK, ReaderOK, SeqsInRange, RegistryOK,
       SignalsOK, CountersOK
  <2> QED BY <2>1, <2>2, <2>3, <2>4
<1>22. ASSUME CloseOld PROVE TypeInv'
  <2>1. TransportOK'
    BY <1>22 DEF CloseOld, CloseLink, HandlersOK, ReconOK, ReaderOK,
       SeqsInRange, TransportOK
  <2>2. ReconOK'
    BY <1>22 DEF CloseOld, CloseLink, ReconOK
  <2>3. SeqBound'
    BY <1>22 DEF CloseOld, CloseLink, RegistryOK, ReconOK, CountersOK,
       SeqBound
  <2>4. (RegistryOK /\ SignalsOK /\ HandlersOK /\ ReaderOK /\ CountersOK /\
         SeqsInRange)'
    BY <1>22 DEF CloseOld, CloseLink, HandlersOK, ReaderOK, SeqsInRange,
       RegistryOK, SignalsOK, CountersOK
  <2> QED BY <2>1, <2>2, <2>3, <2>4
<1>23. ASSUME CheckClosed PROVE TypeInv'
  <2>1. TransportOK'
    BY <1>23 DEF CheckClosed, CloseLink, HandlersOK, ReconOK, ReaderOK,
       SeqsInRange, TransportOK
  <2>2. ReconOK'
    BY <1>23 DEF CheckClosed, CloseLink, ReconOK
  <2>3. SeqBound'
    BY <1>23 DEF CheckClosed, CloseLink, RegistryOK, ReconOK, CountersOK,
       SeqBound
  <2>4. (RegistryOK /\ SignalsOK /\ HandlersOK /\ ReaderOK /\ CountersOK /\
         SeqsInRange)'
    BY <1>23 DEF CheckClosed, CloseLink, HandlersOK, ReaderOK,
       SeqsInRange, RegistryOK, SignalsOK, CountersOK
  <2> QED BY <2>1, <2>2, <2>3, <2>4
<1>24. ASSUME Swap PROVE TypeInv'
  <2>1. RegistryOK'
    BY <1>24 DEF Swap, SeqAfterSwap, HandlersOK, ReaderOK, SeqsInRange,
       RegistryOK
  <2>2. TransportOK'
    BY <1>24 DEF Swap, SeqAfterSwap, HandlersOK, ReconOK, ReaderOK,
       SeqsInRange, TransportOK
  <2>3. ReconOK'
    BY <1>24 DEF Swap, SeqAfterSwap, ReconOK
  <2>4. SeqBound'
    BY <1>24 DEF Swap, SeqAfterSwap, RegistryOK, ReconOK, CountersOK,
       SeqBound
  <2>5. (SignalsOK /\ HandlersOK /\ ReaderOK /\ CountersOK /\ SeqsInRange)'
    BY <1>24 DEF Swap, SeqAfterSwap, SignalsOK, SeqsInRange, HandlersOK,
       ReaderOK, CountersOK
  <2> QED BY <2>1, <2>2, <2>3, <2>4, <2>5
<1>25. ASSUME Drain PROVE TypeInv'
  <2>1. RegistryOK'
    BY <1>25 DEF Drain, CloseRegistry, HandlersOK, ReaderOK, SeqsInRange,
       RegistryOK
  <2>2. ReconOK'
    BY <1>25 DEF Drain, CloseRegistry, ReconOK
  <2>3. SeqBound'
    BY <1>25 DEF Drain, CloseRegistry, RegistryOK, ReconOK, CountersOK,
       SeqBound
  <2>4. (TransportOK /\ SignalsOK /\ HandlersOK /\ ReaderOK /\ CountersOK /\
         SeqsInRange)'
    BY <1>25 DEF Drain, CloseRegistry, HandlersOK, ReconOK, ReaderOK,
       SeqsInRange, TransportOK, SignalsOK, CountersOK
  <2> QED BY <2>1, <2>2, <2>3, <2>4
<1>26. ASSUME Resume PROVE TypeInv'
  <2>1. SignalsOK'
    BY <1>26 DEF Resume, SignalsOK
  <2>2. ReconOK'
    BY <1>26 DEF Resume, ReconOK
  <2>3. SeqBound'
    BY <1>26 DEF Resume, RegistryOK, ReconOK, CountersOK, SeqBound
  <2>4. (RegistryOK /\ TransportOK /\ HandlersOK /\ ReaderOK /\ CountersOK
         /\ SeqsInRange)'
    BY <1>26 DEF Resume, HandlersOK, ReaderOK, SeqsInRange, RegistryOK,
       ReconOK, TransportOK, CountersOK
  <2> QED BY <2>1, <2>2, <2>3, <2>4
<1>27. ASSUME HookStart PROVE TypeInv'
  <2>0. nextSeq \in Seqs
    BY <1>27, SeqRoom DEF HookStart, HookRequest
  <2>1. RegistryOK'
    BY <1>27, <2>0 DEF HookStart, HookRequest, HandlersOK, ReaderOK, SeqsInRange,
       RegistryOK
  <2>2. HandlersOK'
    BY <1>27, <2>0 DEF HookStart, HookRequest, SeqsInRange, HandlersOK
  <2>3. ReconOK'
    BY <1>27, <2>0 DEF HookStart, HookRequest, ReconOK
  <2>4. SeqBound'
    BY <1>27, <2>0 DEF HookStart, HookRequest, RegistryOK, ReconOK, CountersOK,
       SeqBound
  <2>5. SeqsInRange'
    BY <1>27, <2>0 DEF HookStart, HookRequest, HandlersOK, SeqsInRange
  <2>6. (TransportOK /\ SignalsOK /\ ReaderOK /\ CountersOK)'
    BY <1>27, <2>0 DEF HookStart, HookRequest, HandlersOK, ReconOK, ReaderOK,
       SeqsInRange, TransportOK, SignalsOK, CountersOK
  <2> QED BY <2>1, <2>2, <2>3, <2>4, <2>5, <2>6
<1>28. ASSUME HookOk PROVE TypeInv'
  BY <1>28 DEF HookOk, RegistryOK, TransportOK, SignalsOK, HandlersOK,
     ReaderOK, ReconOK, CountersOK, SeqBound, SeqsInRange
<1>29. ASSUME HookErr PROVE TypeInv'
  BY <1>29 DEF HookErr, EventsOver, MarkStale, RegistryOK, TransportOK, SignalsOK,
     HandlersOK, ReaderOK, ReconOK, CountersOK, SeqBound, SeqsInRange
<1>30. ASSUME ClearStale PROVE TypeInv'
  <2>1. SignalsOK'
    BY <1>30 DEF ClearStale, SignalsOK
  <2>2. ReconOK'
    BY <1>30 DEF ClearStale, ReconOK
  <2>3. SeqBound'
    BY <1>30 DEF ClearStale, RegistryOK, ReconOK, CountersOK, SeqBound
  <2>4. (RegistryOK /\ TransportOK /\ HandlersOK /\ ReaderOK /\ CountersOK
         /\ SeqsInRange)'
    BY <1>30 DEF ClearStale, HandlersOK, ReaderOK, SeqsInRange,
       RegistryOK, ReconOK, TransportOK, CountersOK
  <2> QED BY <2>1, <2>2, <2>3, <2>4
<1>31. ASSUME LoopAgain PROVE TypeInv'
  <2>1. ReconOK'
    BY <1>31 DEF LoopAgain, ReconOK
  <2>2. SeqBound'
    BY <1>31 DEF LoopAgain, RegistryOK, ReconOK, CountersOK, SeqBound
  <2>3. (RegistryOK /\ TransportOK /\ SignalsOK /\ HandlersOK /\ ReaderOK /\
         CountersOK /\ SeqsInRange)'
    BY <1>31 DEF LoopAgain, HandlersOK, ReaderOK, SeqsInRange, RegistryOK,
       ReconOK, TransportOK, SignalsOK, CountersOK
  <2> QED BY <2>1, <2>2, <2>3
<1>32. ASSUME CloseCancel PROVE TypeInv'
  BY <1>32 DEF CloseCancel, RegistryOK, TransportOK, SignalsOK,
     HandlersOK, ReaderOK, ReconOK, CountersOK, SeqBound, SeqsInRange
<1>33. ASSUME CloseConn PROVE TypeInv'
  <2>1. TransportOK'
    BY <1>33 DEF CloseConn, CloseLink, HandlersOK, ReconOK, ReaderOK,
       SeqsInRange, TransportOK
  <2>2. ReconOK'
    BY <1>33 DEF CloseConn, CloseLink, ReconOK
  <2>3. (RegistryOK /\ SignalsOK /\ HandlersOK /\ ReaderOK /\ CountersOK /\
         SeqBound /\ SeqsInRange)'
    BY <1>33 DEF CloseConn, CloseLink, HandlersOK, ReaderOK, SeqsInRange,
       RegistryOK, SignalsOK, CountersOK, ReconOK, SeqBound
  <2> QED BY <2>1, <2>2, <2>3
<1>34. ASSUME CloseDone PROVE TypeInv'
  BY <1>34 DEF CloseDone, RegistryOK, TransportOK, SignalsOK, HandlersOK,
     ReaderOK, ReconOK, CountersOK, SeqBound, SeqsInRange
<1>35. ASSUME ForceReconnect PROVE TypeInv'
  BY <1>35 DEF ForceReconnect, MarkStale, RegistryOK, TransportOK,
     SignalsOK, HandlersOK, ReaderOK, ReconOK, CountersOK, SeqBound,
     SeqsInRange
<1>36. ASSUME NEW g \in Gens, NEW s \in Seqs, Answer(g, s) PROVE TypeInv'
  <2>1. TransportOK'
    BY <1>36 DEF Answer, HandlersOK, ReconOK, ReaderOK, SeqsInRange,
       TransportOK
  <2>2. (RegistryOK /\ SignalsOK /\ HandlersOK /\ ReaderOK /\ ReconOK /\
         CountersOK /\ SeqBound /\ SeqsInRange)'
    BY <1>36 DEF Answer, HandlersOK, ReaderOK, SeqsInRange, RegistryOK,
       SignalsOK, ReconOK, CountersOK, SeqBound
  <2> QED BY <2>1, <2>2
<1>37. ASSUME NEW g \in Gens, Drop(g) PROVE TypeInv'
  BY <1>37 DEF Drop, RegistryOK, TransportOK, SignalsOK, HandlersOK,
     ReaderOK, ReconOK, CountersOK, SeqBound, SeqsInRange
<1>38. ASSUME ReadEvent PROVE TypeInv'
  <2>1. ReaderOK'
    BY <1>38 DEF ReadEvent, ReaderOK
  <2>2. ReconOK'
    BY <1>38 DEF ReadEvent, ReconOK
  <2>3. SeqBound'
    BY <1>38 DEF ReadEvent, RegistryOK, ReconOK, CountersOK, SeqBound
  <2>4. (SignalsOK /\ CountersOK)'
    BY <1>38 DEF ReadEvent, SignalsOK, CountersOK
  <2>5. (RegistryOK /\ TransportOK /\ HandlersOK /\ SeqsInRange)'
    BY <1>38 DEF ReadEvent, ReaderOK, RegistryOK, TransportOK, HandlersOK,
       SeqsInRange
  <2> QED BY <2>1, <2>2, <2>3, <2>4, <2>5
<1>39. ASSUME FanOut PROVE TypeInv'
  <2>1. ReaderOK'
    BY <1>39 DEF FanOut, ReaderOK
  <2>2. ReconOK'
    BY <1>39 DEF FanOut, ReconOK
  <2>3. SeqBound'
    BY <1>39 DEF FanOut, RegistryOK, ReconOK, CountersOK, SeqBound
  <2>4. (SignalsOK /\ CountersOK)'
    BY <1>39 DEF FanOut, SignalsOK, CountersOK
  <2>5. (RegistryOK /\ TransportOK /\ HandlersOK /\ SeqsInRange)'
    BY <1>39 DEF FanOut, ReaderOK, RegistryOK, TransportOK, HandlersOK,
       SeqsInRange
  <2> QED BY <2>1, <2>2, <2>3, <2>4, <2>5
<1>40. ASSUME TellLoss PROVE TypeInv'
  <2>1. ReaderOK'
    BY <1>40 DEF TellLoss, ReaderOK
  <2>2. ReconOK'
    BY <1>40 DEF TellLoss, ReconOK
  <2>3. SeqBound'
    BY <1>40 DEF TellLoss, RegistryOK, ReconOK, CountersOK, SeqBound
  <2>4. (SignalsOK /\ CountersOK)'
    BY <1>40 DEF TellLoss, SignalsOK, CountersOK
  <2>5. (RegistryOK /\ TransportOK /\ HandlersOK /\ SeqsInRange)'
    BY <1>40 DEF TellLoss, ReaderOK, RegistryOK, TransportOK, HandlersOK,
       SeqsInRange
  <2> QED BY <2>1, <2>2, <2>3, <2>4, <2>5
<1>41. ASSUME ReadGarbage PROVE TypeInv'
  <2>1. ReaderOK'
    BY <1>41 DEF ReadGarbage, GiveUp, MarkStale, ReaderOK
  <2>2. ReconOK'
    BY <1>41 DEF ReadGarbage, GiveUp, MarkStale, ReconOK
  <2>3. SeqBound'
    BY <1>41 DEF ReadGarbage, GiveUp, MarkStale, RegistryOK, ReconOK,
       CountersOK, SeqBound
  <2>4. (SignalsOK /\ CountersOK)'
    <3>1. SignalsOK'
      BY <1>41 DEF ReadGarbage, GiveUp, MarkStale, SignalsOK
    <3>2. CountersOK'
      BY <1>41 DEF ReadGarbage, GiveUp, CountersOK
    <3> QED BY <3>1, <3>2
  <2>5. (RegistryOK /\ TransportOK /\ HandlersOK /\ SeqsInRange)'
    BY <1>41 DEF ReadGarbage, GiveUp, MarkStale, ReaderOK, RegistryOK,
       TransportOK, HandlersOK, SeqsInRange
  <2> QED BY <2>1, <2>2, <2>3, <2>4, <2>5
<1>42. ASSUME HookSnapshot PROVE TypeInv'
  <2>1. ReaderOK'
    BY <1>42 DEF HookSnapshot, ReaderOK
  <2>2. ReconOK'
    BY <1>42 DEF HookSnapshot, ReconOK
  <2>3. SeqBound'
    BY <1>42 DEF HookSnapshot, RegistryOK, ReconOK, CountersOK, SeqBound
  <2>4. (SignalsOK /\ CountersOK)'
    BY <1>42 DEF HookSnapshot, SignalsOK, CountersOK
  <2>5. (RegistryOK /\ TransportOK /\ HandlersOK /\ SeqsInRange)'
    BY <1>42 DEF HookSnapshot, ReaderOK, RegistryOK, TransportOK, HandlersOK,
       SeqsInRange
  <2> QED BY <2>1, <2>2, <2>3, <2>4, <2>5
<1>43. ASSUME HookSubscribe PROVE TypeInv'
  <2>1. ReaderOK'
    BY <1>43 DEF HookSubscribe, ReaderOK
  <2>2. ReconOK'
    BY <1>43 DEF HookSubscribe, ReconOK
  <2>3. SeqBound'
    BY <1>43 DEF HookSubscribe, RegistryOK, ReconOK, CountersOK, SeqBound
  <2>4. (SignalsOK /\ CountersOK)'
    BY <1>43 DEF HookSubscribe, SignalsOK, CountersOK
  <2>5. (RegistryOK /\ TransportOK /\ HandlersOK /\ SeqsInRange)'
    BY <1>43 DEF HookSubscribe, ReaderOK, RegistryOK, TransportOK, HandlersOK,
       SeqsInRange
  <2> QED BY <2>1, <2>2, <2>3, <2>4, <2>5
<1>44. ASSUME HookInit PROVE TypeInv'
  <2>0. nextSeq \in Seqs
    BY <1>44, SeqRoom DEF HookInit, HookRequest, EventsOver
  <2>1. RegistryOK'
    BY <1>44, <2>0 DEF HookInit, HookRequest, EventsOver, HandlersOK, ReaderOK,
       SeqsInRange, RegistryOK
  <2>2. HandlersOK'
    BY <1>44, <2>0 DEF HookInit, HookRequest, EventsOver, SeqsInRange, HandlersOK
  <2>3. ReconOK'
    BY <1>44, <2>0 DEF HookInit, HookRequest, EventsOver, ReconOK
  <2>4. SeqBound'
    BY <1>44, <2>0 DEF HookInit, HookRequest, EventsOver, RegistryOK, ReconOK,
       CountersOK, SeqBound
  <2>5. SeqsInRange'
    BY <1>44, <2>0 DEF HookInit, HookRequest, EventsOver, HandlersOK, SeqsInRange
  <2>6. (TransportOK /\ SignalsOK /\ ReaderOK /\ CountersOK)'
    BY <1>44, <2>0 DEF HookInit, HookRequest, EventsOver, HandlersOK, ReconOK,
       ReaderOK, SeqsInRange, TransportOK, SignalsOK, CountersOK
  <2> QED BY <2>1, <2>2, <2>3, <2>4, <2>5, <2>6
<1>45. ASSUME HookLost PROVE TypeInv'
  <2>1. ReaderOK'
    BY <1>45 DEF HookLost, EventsOver, ReaderOK
  <2>2. ReconOK'
    BY <1>45 DEF HookLost, EventsOver, ReconOK
  <2>3. SeqBound'
    BY <1>45 DEF HookLost, EventsOver, RegistryOK, ReconOK, CountersOK,
       SeqBound
  <2>4. (SignalsOK /\ CountersOK)'
    BY <1>45 DEF HookLost, EventsOver, SignalsOK, CountersOK
  <2>5. (RegistryOK /\ TransportOK /\ HandlersOK /\ SeqsInRange)'
    BY <1>45 DEF HookLost, EventsOver, ReaderOK, RegistryOK, TransportOK,
       HandlersOK, SeqsInRange
  <2> QED BY <2>1, <2>2, <2>3, <2>4, <2>5
<1>46. ASSUME NEW g \in Gens, Announce(g) PROVE TypeInv'
  BY <1>46 DEF Announce, RegistryOK, TransportOK, SignalsOK, HandlersOK,
     ReaderOK, ReconOK, CountersOK, SeqBound, SeqsInRange
<1>47. ASSUME NEW g \in Gens, EndOfInput(g) PROVE TypeInv'
  BY <1>47 DEF EndOfInput, RegistryOK, TransportOK, SignalsOK, HandlersOK,
     ReaderOK, ReconOK, CountersOK, SeqBound, SeqsInRange
<1> QED BY <1>0, <1>1, <1>2, <1>3, <1>4, <1>5, <1>6, <1>7, <1>8, <1>9,
   <1>10, <1>11, <1>12, <1>13, <1>14, <1>15, <1>16, <1>17, <1>18, <1>19,
   <1>20, <1>21, <1>22, <1>23, <1>24, <1>25, <1>26, <1>27, <1>28, <1>29,
   <1>30, <1>31, <1>32, <1>33, <1>34, <1>35, <1>36, <1>37, <1>38, <1>39,
   <1>40, <1>41, <1>42, <1>43, <1>44, <1>45, <1>46, <1>47 DEF Next, Request,
   ReadLoop, ReconnectLoop, Close, Adapter

LEMMA TypeInvInit == Init => TypeInv
<1> SUFFICES ASSUME Init PROVE TypeInv
  OBVIOUS
<1> USE BoundsAssumption, ProcAssumption DEF Init, Gens, Seqs
<1>1. RegistryOK
  BY DEF RegistryOK, FirstSeq
<1>2. TransportOK
  BY DEF TransportOK
<1>3. SignalsOK
  BY DEF SignalsOK
<1>4. ReconOK
  <2>1. rc \in RcStates /\ newGen \in Gens /\ hookGot \subseteq {"init", "lost"}
    BY DEF RcStates
  <2> QED BY <2>1 DEF ReconOK
<1>5. CountersOK
  BY DEF CountersOK
<1>6. HandlersOK
  BY DEF HandlersOK, PcStates
<1>7. ReaderOK
  BY DEF ReaderOK, RlStates
<1>8. SeqBound
  BY DEF SeqBound, HookRequestsLeft, AwaitsInit, BeforeHook, FirstSeq
<1>9. SeqsInRange
  BY DEF SeqsInRange
<1> QED
  BY <1>1, <1>2, <1>3, <1>4, <1>5, <1>6, <1>7, <1>8, <1>9 DEF TypeInv, TypeOK

LEMMA TypeInvAlways == Spec => []TypeInv
<1> QED BY TypeInvInit, TypeInvStep, PTL DEF Spec

\* The state of struct DAPClient (dap.go:48-83) is well typed, whatever the
\* number of handlers, requests and connections.
THEOREM Typing == Spec => []TypeOK
<1>1. TypeInv => TypeOK
  BY DEF TypeInv
<1> QED BY <1>1, TypeInvAlways, PTL

-----------------------------------------------------------------------------
(* The response registry.                                                  *)

\* Numbers are owned by one process, a registered channel is open and empty,
\* and only readLoop or closeRegistry takes it out.
LEMMA RegInvStep ==
    TypeInv /\ RegInv /\ [Next]_vars => RegInv'
<1> SUFFICES ASSUME TypeInv, RegInv, [Next]_vars PROVE RegInv'
  OBVIOUS
<1> USE BoundsAssumption, ProcAssumption DEF RegInv, TypeInv, TypeOK,
   RegistryOK, HandlersOK, ReaderOK, TransportOK, SeqsInRange, Procs, Gens,
   Seqs, registry, transport, signals, handlers, reader, recon, events, counters
<1>0. CASE UNCHANGED vars
  BY <1>0 DEF vars, FreshUntouched, SeqHeld, SeqDistinct, RequestProgress,
     RegistryOpen, DeliverIsSafe, NoLostWaiter
<1>1. ASSUME NEW c \in Callers, Begin(c) PROVE RegInv'
  <2>0. nextSeq \in Seqs /\ nextSeq \in Nat
    BY <1>1, SeqRoom DEF Begin, TypeInv
  <2>1. FreshUntouched'
    BY <1>1, <2>0 DEF Begin, SeqHeld, RegistryOpen, DeliverIsSafe,
       FreshUntouched
  <2>2. SeqHeld'
    <3>1. CASE stale
      BY <1>1, <2>0, <3>1 DEF Begin, SeqHeld
    <3>2. CASE ~stale
      <4>1. /\ pc' = [pc EXCEPT ![c] = "begun"]
            /\ seqOf' = [seqOf EXCEPT ![c] = nextSeq]
            /\ nextSeq' = nextSeq + 1
            /\ UNCHANGED <<chan, buf, responses, rl, rlSeq>>
        BY <1>1, <3>2 DEF Begin
      <4> QED BY <2>0, <4>1 DEF SeqHeld
    <3> QED BY <3>1, <3>2
  <2>3. SeqDistinct'
    <3>1. CASE stale
      BY <1>1, <2>0, <3>1 DEF Begin, SeqHeld, SeqDistinct
    <3>2. CASE ~stale
      <4>1. /\ pc' = [pc EXCEPT ![c] = "begun"]
            /\ seqOf' = [seqOf EXCEPT ![c] = nextSeq]
            /\ nextSeq' = nextSeq + 1
            /\ UNCHANGED <<chan, buf, responses, rl, rlSeq>>
        BY <1>1, <3>2 DEF Begin
      <4> QED BY <2>0, <4>1 DEF SeqHeld, SeqDistinct
    <3> QED BY <3>1, <3>2
  <2>4. RequestProgress'
    BY <1>1, <2>0 DEF Begin, FreshUntouched, SeqHeld, SeqDistinct,
       RegistryOpen, DeliverIsSafe, RequestProgress
  <2>5. (RegistryOpen /\ DeliverIsSafe)'
    BY <1>1, <2>0 DEF Begin, RequestProgress, DeliverIsSafe, RegistryOpen
  <2>6. NoLostWaiter'
    <3>1. CASE stale
      BY <1>1, <2>0, <3>1 DEF Begin, NoLostWaiter
    <3>2. CASE ~stale
      <4>1. /\ pc' = [pc EXCEPT ![c] = "begun"]
            /\ seqOf' = [seqOf EXCEPT ![c] = nextSeq]
            /\ nextSeq' = nextSeq + 1
            /\ UNCHANGED <<chan, buf, responses, rl, rlSeq>>
        BY <1>1, <3>2 DEF Begin
      <4> QED BY <2>0, <4>1 DEF NoLostWaiter
    <3> QED BY <3>1, <3>2
  <2> QED BY <2>1, <2>2, <2>3, <2>4, <2>5, <2>6 DEF RegInv
<1>2. ASSUME NEW p \in Procs, DoRegister(p) PROVE RegInv'
  <2>0. seqOf[p] \in Seqs /\ seqOf[p] < nextSeq
    BY <1>2 DEF DoRegister, SeqHeld
  <2>1. FreshUntouched'
    <3>1. /\ chan' = [chan EXCEPT ![seqOf[p]] = 
                       IF seqOf[p] \in responses THEN @ ELSE "open"]
          /\ UNCHANGED <<sentOn, nextSeq>>
      BY <1>2 DEF DoRegister, Register
    <3>2. ASSUME NEW s \in Seqs, s >= nextSeq
          PROVE  chan'[s] = "none" /\ sentOn'[s] = 0
      <4>1. s # seqOf[p]
        BY <2>0, <3>2
      <4> QED BY <3>1, <3>2, <4>1 DEF FreshUntouched
    <3> QED BY <3>1, <3>2 DEF FreshUntouched
  <2>2. (SeqHeld /\ SeqDistinct)'
    BY <1>2, <2>0 DEF DoRegister, Register, SeqHeld, SeqDistinct
  <2>3. RequestProgress'
    BY <1>2, <2>0 DEF DoRegister, Register, FreshUntouched, SeqHeld,
       SeqDistinct, RegistryOpen, DeliverIsSafe, RequestProgress
  <2>4. (RegistryOpen /\ DeliverIsSafe)'
    BY <1>2, <2>0 DEF DoRegister, Register, RequestProgress,
       DeliverIsSafe, RegistryOpen
  <2>5. NoLostWaiter'
    <3>1. /\ pc[p] = "begun"
          /\ pc' = [pc EXCEPT ![p] = "registered"]
          /\ responses' = responses \cup {seqOf[p]}
          /\ chan' = [chan EXCEPT ![seqOf[p]] =
                       IF seqOf[p] \in responses THEN @ ELSE "open"]
          /\ buf' = [buf EXCEPT ![seqOf[p]] =
                      IF seqOf[p] \in responses THEN @ ELSE 0]
          /\ UNCHANGED <<seqOf, rl, rlSeq>>
      BY <1>2 DEF DoRegister, Register
    <3>2. ASSUME NEW q \in Procs, pc'[q] = "waiting",
                 chan'[seqOf[q]] = "open", buf'[seqOf[q]] = 0
          PROVE  seqOf[q] \in responses' \/ (rl = "deliver" /\ rlSeq = seqOf[q])
      <4>1. q # p /\ pc[q] = "waiting"
        BY <3>1, <3>2
      <4>2. seqOf[q] # seqOf[p]
        BY <3>1, <4>1 DEF SeqDistinct
      <4>3. chan[seqOf[q]] = "open" /\ buf[seqOf[q]] = 0
        BY <3>1, <3>2, <4>2
      <4> QED BY <3>1, <4>1, <4>3 DEF NoLostWaiter
    <3> QED BY <3>1, <3>2 DEF NoLostWaiter
  <2> QED BY <2>1, <2>2, <2>3, <2>4, <2>5 DEF RegInv
<1>3. ASSUME NEW p \in Procs, WriteOk(p) PROVE RegInv'
  <2>1. FreshUntouched'
    BY <1>3 DEF WriteOk, SeqHeld, RegistryOpen, DeliverIsSafe,
       FreshUntouched
  <2>2. (SeqHeld /\ SeqDistinct)'
    BY <1>3 DEF WriteOk, SeqHeld, SeqDistinct
  <2>3. RequestProgress'
    BY <1>3 DEF WriteOk, FreshUntouched, SeqHeld, SeqDistinct,
       RegistryOpen, DeliverIsSafe, RequestProgress
  <2>4. (RegistryOpen /\ DeliverIsSafe)'
    BY <1>3 DEF WriteOk, RequestProgress, DeliverIsSafe, RegistryOpen
  <2>5. NoLostWaiter'
    BY <1>3 DEF WriteOk, SeqHeld, SeqDistinct, RegistryOpen,
       DeliverIsSafe, NoLostWaiter
  <2> QED BY <2>1, <2>2, <2>3, <2>4, <2>5 DEF RegInv
<1>4. ASSUME NEW p \in Procs, WriteErr(p) PROVE RegInv'
  <2>1. (FreshUntouched /\ SeqHeld /\ SeqDistinct)'
    BY <1>4 DEF WriteErr, Unregister, FreshUntouched, SeqHeld, SeqDistinct
  <2>2. (RequestProgress /\ RegistryOpen /\ DeliverIsSafe)'
    BY <1>4 DEF WriteErr, Unregister, RequestProgress, RegistryOpen,
       DeliverIsSafe
  <2>3. NoLostWaiter'
    BY <1>4 DEF WriteErr, Unregister, SeqHeld, SeqDistinct, NoLostWaiter
  <2> QED BY <2>1, <2>2, <2>3
<1>5. ASSUME NEW p \in Procs, WriteFailed(p) PROVE RegInv'
  BY <1>5 DEF WriteFailed, Return, MarkStale, FreshUntouched, SeqHeld,
     SeqDistinct, RequestProgress, RegistryOpen, DeliverIsSafe, NoLostWaiter
<1>6. ASSUME NEW p \in Procs, Lookup(p) PROVE RegInv'
  BY <1>6 DEF Lookup, FreshUntouched, SeqHeld, SeqDistinct,
     RequestProgress, RegistryOpen, DeliverIsSafe, NoLostWaiter
<1>7. ASSUME NEW p \in Procs, LookupMiss(p) PROVE RegInv'
  <2>1. FreshUntouched'
    BY <1>7 DEF LookupMiss, Finish, HookGoesOn, Return, SeqHeld, RegistryOpen,
       DeliverIsSafe, FreshUntouched
  <2>2. (SeqHeld /\ SeqDistinct)'
    BY <1>7 DEF LookupMiss, Finish, HookGoesOn, Return, SeqHeld, SeqDistinct
  <2>3. RequestProgress'
    BY <1>7 DEF LookupMiss, Finish, HookGoesOn, Return, FreshUntouched, SeqHeld,
       SeqDistinct, RegistryOpen, DeliverIsSafe, RequestProgress
  <2>4. (RegistryOpen /\ DeliverIsSafe)'
    BY <1>7 DEF LookupMiss, Finish, HookGoesOn, Return, RequestProgress,
       DeliverIsSafe, RegistryOpen
  <2>5. NoLostWaiter'
    BY <1>7 DEF LookupMiss, Finish, HookGoesOn, Return, SeqHeld, SeqDistinct,
       RegistryOpen, DeliverIsSafe, NoLostWaiter
  <2> QED BY <2>1, <2>2, <2>3, <2>4, <2>5 DEF RegInv
<1>8. ASSUME NEW p \in Procs, Receive(p) PROVE RegInv'
  <2>1. FreshUntouched'
    BY <1>8 DEF Receive, Finish, HookGoesOn, Return, SeqHeld, RegistryOpen,
       DeliverIsSafe, FreshUntouched
  <2>2. (SeqHeld /\ SeqDistinct)'
    BY <1>8 DEF Receive, Finish, HookGoesOn, Return, SeqHeld, SeqDistinct
  <2>3. RequestProgress'
    BY <1>8 DEF Receive, Finish, HookGoesOn, Return, FreshUntouched, SeqHeld,
       SeqDistinct, RegistryOpen, DeliverIsSafe, RequestProgress
  <2>4. (RegistryOpen /\ DeliverIsSafe)'
    BY <1>8 DEF Receive, Finish, HookGoesOn, Return, RequestProgress, DeliverIsSafe,
       RegistryOpen
  <2>5. NoLostWaiter'
    BY <1>8 DEF Receive, Finish, HookGoesOn, Return, SeqHeld, SeqDistinct,
       RegistryOpen, DeliverIsSafe, NoLostWaiter
  <2> QED BY <2>1, <2>2, <2>3, <2>4, <2>5 DEF RegInv
<1>9. ASSUME NEW p \in Procs, ReceiveClosed(p) PROVE RegInv'
  <2>1. FreshUntouched'
    BY <1>9 DEF ReceiveClosed, Finish, HookGoesOn, Return, SeqHeld, RegistryOpen,
       DeliverIsSafe, FreshUntouched
  <2>2. (SeqHeld /\ SeqDistinct)'
    BY <1>9 DEF ReceiveClosed, Finish, HookGoesOn, Return, SeqHeld, SeqDistinct
  <2>3. RequestProgress'
    BY <1>9 DEF ReceiveClosed, Finish, HookGoesOn, Return, FreshUntouched, SeqHeld,
       SeqDistinct, RegistryOpen, DeliverIsSafe, RequestProgress
  <2>4. (RegistryOpen /\ DeliverIsSafe)'
    BY <1>9 DEF ReceiveClosed, Finish, HookGoesOn, Return, RequestProgress,
       DeliverIsSafe, RegistryOpen
  <2>5. NoLostWaiter'
    BY <1>9 DEF ReceiveClosed, Finish, HookGoesOn, Return, SeqHeld, SeqDistinct,
       RegistryOpen, DeliverIsSafe, NoLostWaiter
  <2> QED BY <2>1, <2>2, <2>3, <2>4, <2>5 DEF RegInv
<1>10. ASSUME NEW c \in Callers, Cancel(c) PROVE RegInv'
  <2>1. FreshUntouched'
    BY <1>10 DEF Cancel, Finish, HookGoesOn, Return, SeqHeld, RegistryOpen,
       DeliverIsSafe, FreshUntouched
  <2>2. (SeqHeld /\ SeqDistinct)'
    BY <1>10 DEF Cancel, Finish, HookGoesOn, Return, SeqHeld, SeqDistinct
  <2>3. RequestProgress'
    BY <1>10 DEF Cancel, Finish, HookGoesOn, Return, FreshUntouched, SeqHeld,
       SeqDistinct, RegistryOpen, DeliverIsSafe, RequestProgress
  <2>4. (RegistryOpen /\ DeliverIsSafe)'
    BY <1>10 DEF Cancel, Finish, HookGoesOn, Return, RequestProgress, DeliverIsSafe,
       RegistryOpen
  <2>5. NoLostWaiter'
    BY <1>10 DEF Cancel, Finish, HookGoesOn, Return, SeqHeld, SeqDistinct,
       RegistryOpen, DeliverIsSafe, NoLostWaiter
  <2> QED BY <2>1, <2>2, <2>3, <2>4, <2>5 DEF RegInv
<1>11. ASSUME ReadTop PROVE RegInv'
  BY <1>11 DEF ReadTop, FreshUntouched, SeqHeld, SeqDistinct,
     RequestProgress, RegistryOpen, DeliverIsSafe, NoLostWaiter
<1>12. ASSUME LoadReader PROVE RegInv'
  BY <1>12 DEF LoadReader, FreshUntouched, SeqHeld, SeqDistinct,
     RequestProgress, RegistryOpen, DeliverIsSafe, NoLostWaiter
<1>13. ASSUME NEW s \in Seqs, ReadResponse(s) PROVE RegInv'
  <2>1. FreshUntouched'
    BY <1>13 DEF ReadResponse, TakeOut, SeqHeld, RegistryOpen,
       DeliverIsSafe, FreshUntouched
  <2>2. (SeqHeld /\ SeqDistinct)'
    BY <1>13 DEF ReadResponse, TakeOut, SeqHeld, SeqDistinct
  <2>3. RequestProgress'
    BY <1>13 DEF ReadResponse, TakeOut, FreshUntouched, SeqHeld,
       SeqDistinct, RegistryOpen, DeliverIsSafe, RequestProgress
  <2>4. (RegistryOpen /\ DeliverIsSafe)'
    BY <1>13 DEF ReadResponse, TakeOut, RequestProgress, DeliverIsSafe,
       RegistryOpen
  <2>5. NoLostWaiter'
    BY <1>13 DEF ReadResponse, TakeOut, SeqHeld, SeqDistinct,
       RegistryOpen, DeliverIsSafe, NoLostWaiter
  <2> QED BY <2>1, <2>2, <2>3, <2>4, <2>5 DEF RegInv
<1>14. ASSUME Deliver PROVE RegInv'
  <2>1. FreshUntouched'
    BY <1>14 DEF Deliver, SeqHeld, RegistryOpen, DeliverIsSafe,
       FreshUntouched
  <2>2. (SeqHeld /\ SeqDistinct)'
    BY <1>14 DEF Deliver, SeqHeld, SeqDistinct
  <2>3. RequestProgress'
    BY <1>14 DEF Deliver, FreshUntouched, SeqHeld, SeqDistinct,
       RegistryOpen, DeliverIsSafe, RequestProgress
  <2>4. (RegistryOpen /\ DeliverIsSafe)'
    BY <1>14 DEF Deliver, RequestProgress, DeliverIsSafe, RegistryOpen
  <2>5. NoLostWaiter'
    <3>1. rlGen # 0 /\ buf' = [buf EXCEPT ![rlSeq] = rlGen]
      BY <1>14 DEF Deliver
    <3>2. \A s \in Seqs : buf'[s] = IF s = rlSeq THEN rlGen ELSE buf[s]
      BY <3>1
    <3> QED BY <1>14, <3>1, <3>2 DEF Deliver, SeqHeld, NoLostWaiter
  <2> QED BY <2>1, <2>2, <2>3, <2>4, <2>5 DEF RegInv
<1>15. ASSUME ReadError PROVE RegInv'
  BY <1>15 DEF ReadError, GiveUp, MarkStale, FreshUntouched, SeqHeld, SeqDistinct,
     RequestProgress, RegistryOpen, DeliverIsSafe, NoLostWaiter
<1>16. ASSUME ReadDrain PROVE RegInv'
  <2>1. FreshUntouched'
    BY <1>16 DEF ReadDrain, CloseRegistry, SeqHeld, RegistryOpen,
       DeliverIsSafe, FreshUntouched
  <2>2. (SeqHeld /\ SeqDistinct)'
    BY <1>16 DEF ReadDrain, CloseRegistry, SeqHeld, SeqDistinct
  <2>3. RequestProgress'
    BY <1>16 DEF ReadDrain, CloseRegistry, FreshUntouched, SeqHeld,
       SeqDistinct, RegistryOpen, DeliverIsSafe, RequestProgress
  <2>4. (RegistryOpen /\ DeliverIsSafe)'
    BY <1>16 DEF ReadDrain, CloseRegistry, RequestProgress, DeliverIsSafe,
       RegistryOpen
  <2>5. NoLostWaiter'
    BY <1>16 DEF ReadDrain, CloseRegistry, SeqHeld, SeqDistinct,
       RegistryOpen, DeliverIsSafe, NoLostWaiter
  <2> QED BY <2>1, <2>2, <2>3, <2>4, <2>5 DEF RegInv
<1>17. ASSUME ReadResume PROVE RegInv'
  BY <1>17 DEF ReadResume, FreshUntouched, SeqHeld, SeqDistinct,
     RequestProgress, RegistryOpen, DeliverIsSafe, NoLostWaiter
<1>18. ASSUME ReadStop PROVE RegInv'
  BY <1>18 DEF ReadStop, FreshUntouched, SeqHeld, SeqDistinct,
     RequestProgress, RegistryOpen, DeliverIsSafe, NoLostWaiter
<1>19. ASSUME Wake PROVE RegInv'
  BY <1>19 DEF Wake, FreshUntouched, SeqHeld, SeqDistinct,
     RequestProgress, RegistryOpen, DeliverIsSafe, NoLostWaiter
<1>20. ASSUME ReconStop PROVE RegInv'
  BY <1>20 DEF ReconStop, FreshUntouched, SeqHeld, SeqDistinct,
     RequestProgress, RegistryOpen, DeliverIsSafe, NoLostWaiter
<1>21. ASSUME Redial PROVE RegInv'
  BY <1>21 DEF Redial, FreshUntouched, SeqHeld, SeqDistinct,
     RequestProgress, RegistryOpen, DeliverIsSafe, NoLostWaiter
<1>22. ASSUME CloseOld PROVE RegInv'
  BY <1>22 DEF CloseOld, CloseLink, FreshUntouched, SeqHeld, SeqDistinct,
     RequestProgress, RegistryOpen, DeliverIsSafe, NoLostWaiter
<1>23. ASSUME CheckClosed PROVE RegInv'
  BY <1>23 DEF CheckClosed, CloseLink, FreshUntouched, SeqHeld,
     SeqDistinct, RequestProgress, RegistryOpen, DeliverIsSafe, NoLostWaiter
<1>24. ASSUME Swap PROVE RegInv'
  BY <1>24 DEF Swap, SeqAfterSwap, FreshUntouched, SeqHeld, SeqDistinct,
     RequestProgress, RegistryOpen, DeliverIsSafe, NoLostWaiter
<1>25. ASSUME Drain PROVE RegInv'
  <2>1. FreshUntouched'
    BY <1>25 DEF Drain, CloseRegistry, SeqHeld, RegistryOpen,
       DeliverIsSafe, FreshUntouched
  <2>2. (SeqHeld /\ SeqDistinct)'
    BY <1>25 DEF Drain, CloseRegistry, SeqHeld, SeqDistinct
  <2>3. RequestProgress'
    BY <1>25 DEF Drain, CloseRegistry, FreshUntouched, SeqHeld,
       SeqDistinct, RegistryOpen, DeliverIsSafe, RequestProgress
  <2>4. (RegistryOpen /\ DeliverIsSafe)'
    BY <1>25 DEF Drain, CloseRegistry, RequestProgress, DeliverIsSafe,
       RegistryOpen
  <2>5. NoLostWaiter'
    BY <1>25 DEF Drain, CloseRegistry, SeqHeld, SeqDistinct, RegistryOpen,
       DeliverIsSafe, NoLostWaiter
  <2> QED BY <2>1, <2>2, <2>3, <2>4, <2>5 DEF RegInv
<1>26. ASSUME Resume PROVE RegInv'
  BY <1>26 DEF Resume, FreshUntouched, SeqHeld, SeqDistinct,
     RequestProgress, RegistryOpen, DeliverIsSafe, NoLostWaiter
<1>27. ASSUME HookStart PROVE RegInv'
  <2>0. nextSeq \in Seqs /\ nextSeq \in Nat
    BY <1>27, SeqRoom DEF HookStart, HookRequest, BeforeHook, TypeInv
  <2>1. FreshUntouched'
    BY <1>27, <2>0 DEF HookStart, HookRequest, SeqHeld, RegistryOpen, DeliverIsSafe,
       FreshUntouched
  <2>2. (SeqHeld /\ SeqDistinct)'
    <3>1. CASE closing = "done"
      BY <1>27, <3>1 DEF HookStart, SeqHeld, SeqDistinct
    <3>2. CASE closing # "done"
      <4>1. /\ pc' = [pc EXCEPT ![Hook] = "begun"]
            /\ seqOf' = [seqOf EXCEPT ![Hook] = nextSeq]
            /\ nextSeq' = nextSeq + 1
        BY <1>27, <3>2 DEF HookStart, HookRequest
      <4>2. SeqHeld'
        BY <2>0, <4>1 DEF SeqHeld
      <4>3. SeqDistinct'
        BY <2>0, <4>1 DEF SeqHeld, SeqDistinct
      <4> QED BY <4>2, <4>3
    <3> QED BY <3>1, <3>2
  <2>3. RequestProgress'
    BY <1>27, <2>0 DEF HookStart, HookRequest, FreshUntouched, SeqHeld, SeqDistinct,
       RegistryOpen, DeliverIsSafe, RequestProgress
  <2>4. (RegistryOpen /\ DeliverIsSafe)'
    BY <1>27, <2>0 DEF HookStart, HookRequest, RequestProgress, DeliverIsSafe,
       RegistryOpen
  <2>5. NoLostWaiter'
    BY <1>27, <2>0 DEF HookStart, HookRequest, SeqHeld, SeqDistinct, RegistryOpen,
       DeliverIsSafe, NoLostWaiter
  <2> QED BY <2>1, <2>2, <2>3, <2>4, <2>5 DEF RegInv
<1>28. ASSUME HookOk PROVE RegInv'
  BY <1>28 DEF HookOk, FreshUntouched, SeqHeld, SeqDistinct,
     RequestProgress, RegistryOpen, DeliverIsSafe, NoLostWaiter
<1>29. ASSUME HookErr PROVE RegInv'
  BY <1>29 DEF HookErr, EventsOver, MarkStale, FreshUntouched, SeqHeld, SeqDistinct,
     RequestProgress, RegistryOpen, DeliverIsSafe, NoLostWaiter
<1>30. ASSUME ClearStale PROVE RegInv'
  BY <1>30 DEF ClearStale, FreshUntouched, SeqHeld, SeqDistinct,
     RequestProgress, RegistryOpen, DeliverIsSafe, NoLostWaiter
<1>31. ASSUME LoopAgain PROVE RegInv'
  BY <1>31 DEF LoopAgain, FreshUntouched, SeqHeld, SeqDistinct,
     RequestProgress, RegistryOpen, DeliverIsSafe, NoLostWaiter
<1>32. ASSUME CloseCancel PROVE RegInv'
  BY <1>32 DEF CloseCancel, FreshUntouched, SeqHeld, SeqDistinct,
     RequestProgress, RegistryOpen, DeliverIsSafe, NoLostWaiter
<1>33. ASSUME CloseConn PROVE RegInv'
  BY <1>33 DEF CloseConn, CloseLink, FreshUntouched, SeqHeld, SeqDistinct,
     RequestProgress, RegistryOpen, DeliverIsSafe, NoLostWaiter
<1>34. ASSUME CloseDone PROVE RegInv'
  BY <1>34 DEF CloseDone, FreshUntouched, SeqHeld, SeqDistinct,
     RequestProgress, RegistryOpen, DeliverIsSafe, NoLostWaiter
<1>35. ASSUME ForceReconnect PROVE RegInv'
  BY <1>35 DEF ForceReconnect, MarkStale, FreshUntouched, SeqHeld,
     SeqDistinct, RequestProgress, RegistryOpen, DeliverIsSafe, NoLostWaiter
<1>36. ASSUME NEW g \in Gens, NEW s \in Seqs, Answer(g, s) PROVE RegInv'
  BY <1>36 DEF Answer, FreshUntouched, SeqHeld, SeqDistinct,
     RequestProgress, RegistryOpen, DeliverIsSafe, NoLostWaiter
<1>37. ASSUME NEW g \in Gens, Drop(g) PROVE RegInv'
  BY <1>37 DEF Drop, FreshUntouched, SeqHeld, SeqDistinct,
     RequestProgress, RegistryOpen, DeliverIsSafe, NoLostWaiter
<1>38. ASSUME ReadEvent PROVE RegInv'
  BY <1>38 DEF ReadEvent, FreshUntouched, SeqHeld, SeqDistinct,
     RequestProgress, RegistryOpen, DeliverIsSafe, NoLostWaiter
<1>39. ASSUME FanOut PROVE RegInv'
  BY <1>39 DEF FanOut, FreshUntouched, SeqHeld, SeqDistinct, RequestProgress,
     RegistryOpen, DeliverIsSafe, NoLostWaiter
<1>40. ASSUME TellLoss PROVE RegInv'
  BY <1>40 DEF TellLoss, FreshUntouched, SeqHeld, SeqDistinct, RequestProgress,
     RegistryOpen, DeliverIsSafe, NoLostWaiter
<1>41. ASSUME ReadGarbage PROVE RegInv'
  BY <1>41 DEF ReadGarbage, GiveUp, MarkStale, FreshUntouched, SeqHeld,
     SeqDistinct, RequestProgress, RegistryOpen, DeliverIsSafe, NoLostWaiter
<1>42. ASSUME HookSnapshot PROVE RegInv'
  BY <1>42 DEF HookSnapshot, FreshUntouched, SeqHeld, SeqDistinct,
     RequestProgress, RegistryOpen, DeliverIsSafe, NoLostWaiter
<1>43. ASSUME HookSubscribe PROVE RegInv'
  BY <1>43 DEF HookSubscribe, FreshUntouched, SeqHeld, SeqDistinct,
     RequestProgress, RegistryOpen, DeliverIsSafe, NoLostWaiter
<1>44. ASSUME HookInit PROVE RegInv'
  <2>0. nextSeq \in Seqs /\ nextSeq \in Nat
    BY <1>44, SeqRoom DEF HookInit, HookRequest, EventsOver, BeforeHook, TypeInv
  <2>1. FreshUntouched'
    BY <1>44, <2>0 DEF HookInit, HookRequest, EventsOver, SeqHeld, RegistryOpen,
       DeliverIsSafe, FreshUntouched
  <2>2. (SeqHeld /\ SeqDistinct)'
    <3>1. /\ pc' = [pc EXCEPT ![Hook] = "begun"]
          /\ seqOf' = [seqOf EXCEPT ![Hook] = nextSeq]
          /\ nextSeq' = nextSeq + 1
      BY <1>44 DEF HookInit, HookRequest
    <3>2. SeqHeld'
      BY <2>0, <3>1 DEF SeqHeld
    <3>3. SeqDistinct'
      BY <2>0, <3>1 DEF SeqHeld, SeqDistinct
    <3> QED BY <3>2, <3>3
  <2>3. RequestProgress'
    BY <1>44, <2>0 DEF HookInit, HookRequest, EventsOver, FreshUntouched, SeqHeld,
       SeqDistinct, RegistryOpen, DeliverIsSafe, RequestProgress
  <2>4. (RegistryOpen /\ DeliverIsSafe)'
    BY <1>44, <2>0 DEF HookInit, HookRequest, EventsOver, RequestProgress,
       DeliverIsSafe, RegistryOpen
  <2>5. NoLostWaiter'
    BY <1>44, <2>0 DEF HookInit, HookRequest, EventsOver, SeqHeld, SeqDistinct,
       RegistryOpen, DeliverIsSafe, NoLostWaiter
  <2> QED BY <2>1, <2>2, <2>3, <2>4, <2>5 DEF RegInv
<1>45. ASSUME HookLost PROVE RegInv'
  BY <1>45 DEF HookLost, EventsOver, FreshUntouched, SeqHeld, SeqDistinct,
     RequestProgress, RegistryOpen, DeliverIsSafe, NoLostWaiter
<1>46. ASSUME NEW g \in Gens, Announce(g) PROVE RegInv'
  BY <1>46 DEF Announce, FreshUntouched, SeqHeld, SeqDistinct, RequestProgress,
     RegistryOpen, DeliverIsSafe, NoLostWaiter
<1>47. ASSUME NEW g \in Gens, EndOfInput(g) PROVE RegInv'
  BY <1>47 DEF EndOfInput, FreshUntouched, SeqHeld, SeqDistinct,
     RequestProgress, RegistryOpen, DeliverIsSafe, NoLostWaiter
<1> QED BY <1>0, <1>1, <1>2, <1>3, <1>4, <1>5, <1>6, <1>7, <1>8, <1>9,
   <1>10, <1>11, <1>12, <1>13, <1>14, <1>15, <1>16, <1>17, <1>18, <1>19,
   <1>20, <1>21, <1>22, <1>23, <1>24, <1>25, <1>26, <1>27, <1>28, <1>29,
   <1>30, <1>31, <1>32, <1>33, <1>34, <1>35, <1>36, <1>37, <1>38, <1>39,
   <1>40, <1>41, <1>42, <1>43, <1>44, <1>45, <1>46, <1>47 DEF Next, Request,
   ReadLoop, ReconnectLoop, Close, Adapter

LEMMA RegInvAlways == Spec => []RegInv
<1>1. Init => RegInv
  BY DEF Init, RegInv, FreshUntouched, SeqHeld, SeqDistinct, RequestProgress,
     RegistryOpen, DeliverIsSafe, NoLostWaiter
<1> QED BY <1>1, TypeInvAlways, RegInvStep, PTL DEF Spec

\* AwaitResponse (dap.go:1053-1073): no step of readLoop, closeRegistry or
\* unregisterResponse strands a waiter whose channel is empty and open.
THEOREM WaitersAreReachable == Spec => []NoLostWaiter
<1>1. RegInv => NoLostWaiter
  BY DEF RegInv
<1> QED BY <1>1, RegInvAlways, PTL

\* dispatchResponse (dap.go:1083-1098): its send outside the lock neither
\* blocks nor hits a closed channel, however closeRegistry interleaves.
THEOREM DeliveryIsSafe == Spec => []DeliverIsSafe
<1>1. RegInv => DeliverIsSafe
  BY DEF RegInv
<1> QED BY <1>1, RegInvAlways, PTL

-----------------------------------------------------------------------------
(* The wake-up of reconnectLoop.                                           *)

\* stale is set together with the token, the token is taken only to start
\* the reconnect, and stale is cleared before the loop listens again.
LEMMA WakeInvStep ==
    TypeInv /\ WakeInv /\ [Next]_vars => WakeInv'
<1> SUFFICES ASSUME TypeInv, WakeInv, [Next]_vars PROVE WakeInv'
  OBVIOUS
<1> USE SwitchAssumption DEF WakeInv, TypeInv, TypeOK, SignalsOK, registry,
   transport, signals, handlers, reader, recon, events, counters
<1>0. CASE UNCHANGED vars
  BY <1>0 DEF vars, LoopAlive, StaleIsPursued
<1>1. ASSUME NEW c \in Callers, Begin(c) PROVE WakeInv'
  BY <1>1 DEF Begin, LoopAlive, StaleIsPursued
<1>2. ASSUME NEW p \in Procs, DoRegister(p) PROVE WakeInv'
  BY <1>2 DEF DoRegister, Register, LoopAlive, StaleIsPursued
<1>3. ASSUME NEW p \in Procs, WriteOk(p) PROVE WakeInv'
  BY <1>3 DEF WriteOk, LoopAlive, StaleIsPursued
<1>4. ASSUME NEW p \in Procs, WriteErr(p) PROVE WakeInv'
  BY <1>4 DEF WriteErr, Unregister, LoopAlive, StaleIsPursued
<1>5. ASSUME NEW p \in Procs, WriteFailed(p) PROVE WakeInv'
  BY <1>5 DEF WriteFailed, Return, MarkStale, LoopAlive, StaleIsPursued
<1>6. ASSUME NEW p \in Procs, Lookup(p) PROVE WakeInv'
  BY <1>6 DEF Lookup, LoopAlive, StaleIsPursued
<1>7. ASSUME NEW p \in Procs, LookupMiss(p) PROVE WakeInv'
  BY <1>7 DEF LookupMiss, Finish, HookGoesOn, Return, LoopAlive, StaleIsPursued
<1>8. ASSUME NEW p \in Procs, Receive(p) PROVE WakeInv'
  BY <1>8 DEF Receive, Finish, HookGoesOn, Return, LoopAlive, StaleIsPursued
<1>9. ASSUME NEW p \in Procs, ReceiveClosed(p) PROVE WakeInv'
  BY <1>9 DEF ReceiveClosed, Finish, HookGoesOn, Return, LoopAlive, StaleIsPursued
<1>10. ASSUME NEW c \in Callers, Cancel(c) PROVE WakeInv'
  BY <1>10 DEF Cancel, Finish, HookGoesOn, Return, LoopAlive, StaleIsPursued
<1>11. ASSUME ReadTop PROVE WakeInv'
  BY <1>11 DEF ReadTop, LoopAlive, StaleIsPursued
<1>12. ASSUME LoadReader PROVE WakeInv'
  BY <1>12 DEF LoadReader, LoopAlive, StaleIsPursued
<1>13. ASSUME NEW s \in Seqs, ReadResponse(s) PROVE WakeInv'
  BY <1>13 DEF ReadResponse, TakeOut, LoopAlive, StaleIsPursued
<1>14. ASSUME Deliver PROVE WakeInv'
  BY <1>14 DEF Deliver, LoopAlive, StaleIsPursued
<1>15. ASSUME ReadError PROVE WakeInv'
  BY <1>15 DEF ReadError, GiveUp, MarkStale, LoopAlive, StaleIsPursued
<1>16. ASSUME ReadDrain PROVE WakeInv'
  BY <1>16 DEF ReadDrain, CloseRegistry, LoopAlive, StaleIsPursued
<1>17. ASSUME ReadResume PROVE WakeInv'
  BY <1>17 DEF ReadResume, LoopAlive, StaleIsPursued
<1>18. ASSUME ReadStop PROVE WakeInv'
  BY <1>18 DEF ReadStop, LoopAlive, StaleIsPursued
<1>19. ASSUME Wake PROVE WakeInv'
  BY <1>19 DEF Wake, LoopAlive, StaleIsPursued
<1>20. ASSUME ReconStop PROVE WakeInv'
  BY <1>20 DEF ReconStop, LoopAlive, StaleIsPursued
<1>21. ASSUME Redial PROVE WakeInv'
  BY <1>21 DEF Redial, LoopAlive, StaleIsPursued
<1>22. ASSUME CloseOld PROVE WakeInv'
  BY <1>22 DEF CloseOld, CloseLink, LoopAlive, StaleIsPursued
<1>23. ASSUME CheckClosed PROVE WakeInv'
  BY <1>23 DEF CheckClosed, CloseLink, LoopAlive, StaleIsPursued
<1>24. ASSUME Swap PROVE WakeInv'
  BY <1>24 DEF Swap, SeqAfterSwap, LoopAlive, StaleIsPursued
<1>25. ASSUME Drain PROVE WakeInv'
  BY <1>25 DEF Drain, CloseRegistry, LoopAlive, StaleIsPursued
<1>26. ASSUME Resume PROVE WakeInv'
  BY <1>26 DEF Resume, LoopAlive, StaleIsPursued
<1>27. ASSUME HookStart PROVE WakeInv'
  BY <1>27 DEF HookStart, HookRequest, LoopAlive, StaleIsPursued
<1>28. ASSUME HookOk PROVE WakeInv'
  BY <1>28 DEF HookOk, LoopAlive, StaleIsPursued
<1>29. ASSUME HookErr PROVE WakeInv'
  BY <1>29 DEF HookErr, EventsOver, MarkStale, LoopAlive, StaleIsPursued
<1>30. ASSUME ClearStale PROVE WakeInv'
  BY <1>30 DEF ClearStale, LoopAlive, StaleIsPursued
<1>31. ASSUME LoopAgain PROVE WakeInv'
  BY <1>31 DEF LoopAgain, LoopAlive, StaleIsPursued
<1>32. ASSUME CloseCancel PROVE WakeInv'
  BY <1>32 DEF CloseCancel, LoopAlive, StaleIsPursued
<1>33. ASSUME CloseConn PROVE WakeInv'
  BY <1>33 DEF CloseConn, CloseLink, LoopAlive, StaleIsPursued
<1>34. ASSUME CloseDone PROVE WakeInv'
  BY <1>34 DEF CloseDone, LoopAlive, StaleIsPursued
<1>35. ASSUME ForceReconnect PROVE WakeInv'
  BY <1>35 DEF ForceReconnect, MarkStale, LoopAlive, StaleIsPursued
<1>36. ASSUME NEW g \in Gens, NEW s \in Seqs, Answer(g, s) PROVE WakeInv'
  BY <1>36 DEF Answer, LoopAlive, StaleIsPursued
<1>37. ASSUME NEW g \in Gens, Drop(g) PROVE WakeInv'
  BY <1>37 DEF Drop, LoopAlive, StaleIsPursued
<1>38. ASSUME ReadEvent PROVE WakeInv'
  BY <1>38 DEF ReadEvent, LoopAlive, StaleIsPursued
<1>39. ASSUME FanOut PROVE WakeInv'
  BY <1>39 DEF FanOut, LoopAlive, StaleIsPursued
<1>40. ASSUME TellLoss PROVE WakeInv'
  BY <1>40 DEF TellLoss, LoopAlive, StaleIsPursued
<1>41. ASSUME ReadGarbage PROVE WakeInv'
  BY <1>41 DEF ReadGarbage, GiveUp, MarkStale, LoopAlive, StaleIsPursued
<1>42. ASSUME HookSnapshot PROVE WakeInv'
  BY <1>42 DEF HookSnapshot, LoopAlive, StaleIsPursued
<1>43. ASSUME HookSubscribe PROVE WakeInv'
  BY <1>43 DEF HookSubscribe, LoopAlive, StaleIsPursued
<1>44. ASSUME HookInit PROVE WakeInv'
  BY <1>44 DEF HookInit, HookRequest, EventsOver, LoopAlive, StaleIsPursued
<1>45. ASSUME HookLost PROVE WakeInv'
  BY <1>45 DEF HookLost, EventsOver, LoopAlive, StaleIsPursued
<1>46. ASSUME NEW g \in Gens, Announce(g) PROVE WakeInv'
  BY <1>46 DEF Announce, LoopAlive, StaleIsPursued
<1>47. ASSUME NEW g \in Gens, EndOfInput(g) PROVE WakeInv'
  BY <1>47 DEF EndOfInput, LoopAlive, StaleIsPursued
<1> QED BY <1>0, <1>1, <1>2, <1>3, <1>4, <1>5, <1>6, <1>7, <1>8, <1>9,
   <1>10, <1>11, <1>12, <1>13, <1>14, <1>15, <1>16, <1>17, <1>18, <1>19,
   <1>20, <1>21, <1>22, <1>23, <1>24, <1>25, <1>26, <1>27, <1>28, <1>29,
   <1>30, <1>31, <1>32, <1>33, <1>34, <1>35, <1>36, <1>37, <1>38, <1>39,
   <1>40, <1>41, <1>42, <1>43, <1>44, <1>45, <1>46, <1>47 DEF Next, Request,
   ReadLoop, ReconnectLoop, Close, Adapter

\* markStale and reconnectLoop (dap.go:479-529): the capacity-one channel and
\* the non-blocking send lose no wake-up.
THEOREM StaleIsAlwaysPursued == Spec => []StaleIsPursued
<1>1. Init => WakeInv
  BY DEF Init, WakeInv, LoopAlive, StaleIsPursued
<1>2. Spec => []WakeInv
  BY <1>1, TypeInvAlways, WakeInvStep, PTL DEF Spec
<1>3. WakeInv => StaleIsPursued
  BY DEF WakeInv
<1> QED BY <1>2, <1>3, PTL

-----------------------------------------------------------------------------
(* Connections.                                                            *)

\* doReconnect closes the old connection before it installs the next.
LEMMA LinkInvStep ==
    TypeInv /\ LinkInv /\ [Next]_vars => LinkInv'
<1> SUFFICES ASSUME TypeInv, LinkInv, [Next]_vars PROVE LinkInv'
  OBVIOUS
<1> USE BoundsAssumption, ProcAssumption DEF LinkInv, TypeInv, TypeOK,
   TransportOK, ReconOK, HandlersOK, Installing, Gens, Procs, registry,
   transport, signals, handlers, reader, recon, events, counters
<1>0. CASE UNCHANGED vars
  BY <1>0 DEF vars, HookInside, InstallOrder, OneLiveConnection
<1>1. ASSUME NEW c \in Callers, Begin(c) PROVE LinkInv'
  BY <1>1 DEF Begin, HookInside, InstallOrder, OneLiveConnection
<1>2. ASSUME NEW p \in Procs, DoRegister(p) PROVE LinkInv'
  BY <1>2 DEF DoRegister, Register, HookInside, InstallOrder,
     OneLiveConnection
<1>3. ASSUME NEW p \in Procs, WriteOk(p) PROVE LinkInv'
  BY <1>3 DEF WriteOk, HookInside, InstallOrder, OneLiveConnection
<1>4. ASSUME NEW p \in Procs, WriteErr(p) PROVE LinkInv'
  BY <1>4 DEF WriteErr, Unregister, HookInside, InstallOrder,
     OneLiveConnection
<1>5. ASSUME NEW p \in Procs, WriteFailed(p) PROVE LinkInv'
  BY <1>5 DEF WriteFailed, Return, MarkStale, HookInside, InstallOrder,
     OneLiveConnection
<1>6. ASSUME NEW p \in Procs, Lookup(p) PROVE LinkInv'
  BY <1>6 DEF Lookup, HookInside, InstallOrder, OneLiveConnection
<1>7. ASSUME NEW p \in Procs, LookupMiss(p) PROVE LinkInv'
  BY <1>7 DEF LookupMiss, Finish, HookGoesOn, Return, HookInside, InstallOrder,
     OneLiveConnection
<1>8. ASSUME NEW p \in Procs, Receive(p) PROVE LinkInv'
  BY <1>8 DEF Receive, Finish, HookGoesOn, Return, HookInside, InstallOrder,
     OneLiveConnection
<1>9. ASSUME NEW p \in Procs, ReceiveClosed(p) PROVE LinkInv'
  BY <1>9 DEF ReceiveClosed, Finish, HookGoesOn, Return, HookInside, InstallOrder,
     OneLiveConnection
<1>10. ASSUME NEW c \in Callers, Cancel(c) PROVE LinkInv'
  BY <1>10 DEF Cancel, Finish, HookGoesOn, Return, HookInside, InstallOrder,
     OneLiveConnection
<1>11. ASSUME ReadTop PROVE LinkInv'
  BY <1>11 DEF ReadTop, HookInside, InstallOrder, OneLiveConnection
<1>12. ASSUME LoadReader PROVE LinkInv'
  BY <1>12 DEF LoadReader, HookInside, InstallOrder, OneLiveConnection
<1>13. ASSUME NEW s \in Seqs, ReadResponse(s) PROVE LinkInv'
  BY <1>13 DEF ReadResponse, TakeOut, HookInside, InstallOrder,
     OneLiveConnection
<1>14. ASSUME Deliver PROVE LinkInv'
  BY <1>14 DEF Deliver, HookInside, InstallOrder, OneLiveConnection
<1>15. ASSUME ReadError PROVE LinkInv'
  BY <1>15 DEF ReadError, GiveUp, MarkStale, HookInside, InstallOrder,
     OneLiveConnection
<1>16. ASSUME ReadDrain PROVE LinkInv'
  BY <1>16 DEF ReadDrain, CloseRegistry, HookInside, InstallOrder,
     OneLiveConnection
<1>17. ASSUME ReadResume PROVE LinkInv'
  BY <1>17 DEF ReadResume, HookInside, InstallOrder, OneLiveConnection
<1>18. ASSUME ReadStop PROVE LinkInv'
  BY <1>18 DEF ReadStop, HookInside, InstallOrder, OneLiveConnection
<1>19. ASSUME Wake PROVE LinkInv'
  BY <1>19 DEF Wake, HookInside, InstallOrder, OneLiveConnection
<1>20. ASSUME ReconStop PROVE LinkInv'
  BY <1>20 DEF ReconStop, HookInside, InstallOrder, OneLiveConnection
<1>21. ASSUME Redial PROVE LinkInv'
  BY <1>21 DEF Redial, HookInside, InstallOrder, OneLiveConnection
<1>22. ASSUME CloseOld PROVE LinkInv'
  BY <1>22 DEF CloseOld, CloseLink, HookInside, InstallOrder,
     OneLiveConnection
<1>23. ASSUME CheckClosed PROVE LinkInv'
  BY <1>23 DEF CheckClosed, CloseLink, HookInside, InstallOrder,
     OneLiveConnection
<1>24. ASSUME Swap PROVE LinkInv'
  BY <1>24 DEF Swap, SeqAfterSwap, HookInside, InstallOrder,
     OneLiveConnection
<1>25. ASSUME Drain PROVE LinkInv'
  BY <1>25 DEF Drain, CloseRegistry, HookInside, InstallOrder,
     OneLiveConnection
<1>26. ASSUME Resume PROVE LinkInv'
  BY <1>26 DEF Resume, HookInside, InstallOrder, OneLiveConnection
<1>27. ASSUME HookStart PROVE LinkInv'
  BY <1>27 DEF HookStart, HookRequest, HookInside, InstallOrder, OneLiveConnection
<1>28. ASSUME HookOk PROVE LinkInv'
  BY <1>28 DEF HookOk, HookInside, InstallOrder, OneLiveConnection
<1>29. ASSUME HookErr PROVE LinkInv'
  BY <1>29 DEF HookErr, EventsOver, MarkStale, HookInside, InstallOrder,
     OneLiveConnection
<1>30. ASSUME ClearStale PROVE LinkInv'
  BY <1>30 DEF ClearStale, HookInside, InstallOrder, OneLiveConnection
<1>31. ASSUME LoopAgain PROVE LinkInv'
  BY <1>31 DEF LoopAgain, HookInside, InstallOrder, OneLiveConnection
<1>32. ASSUME CloseCancel PROVE LinkInv'
  BY <1>32 DEF CloseCancel, HookInside, InstallOrder, OneLiveConnection
<1>33. ASSUME CloseConn PROVE LinkInv'
  BY <1>33 DEF CloseConn, CloseLink, HookInside, InstallOrder,
     OneLiveConnection
<1>34. ASSUME CloseDone PROVE LinkInv'
  BY <1>34 DEF CloseDone, HookInside, InstallOrder, OneLiveConnection
<1>35. ASSUME ForceReconnect PROVE LinkInv'
  BY <1>35 DEF ForceReconnect, MarkStale, HookInside, InstallOrder,
     OneLiveConnection
<1>36. ASSUME NEW g \in Gens, NEW s \in Seqs, Answer(g, s) PROVE LinkInv'
  BY <1>36 DEF Answer, HookInside, InstallOrder, OneLiveConnection
<1>37. ASSUME NEW g \in Gens, Drop(g) PROVE LinkInv'
  BY <1>37 DEF Drop, HookInside, InstallOrder, OneLiveConnection
<1>38. ASSUME ReadEvent PROVE LinkInv'
  BY <1>38 DEF ReadEvent, HookInside, InstallOrder, OneLiveConnection
<1>39. ASSUME FanOut PROVE LinkInv'
  BY <1>39 DEF FanOut, HookInside, InstallOrder, OneLiveConnection
<1>40. ASSUME TellLoss PROVE LinkInv'
  BY <1>40 DEF TellLoss, HookInside, InstallOrder, OneLiveConnection
<1>41. ASSUME ReadGarbage PROVE LinkInv'
  BY <1>41 DEF ReadGarbage, GiveUp, MarkStale, HookInside, InstallOrder,
     OneLiveConnection
<1>42. ASSUME HookSnapshot PROVE LinkInv'
  BY <1>42 DEF HookSnapshot, HookInside, InstallOrder, OneLiveConnection
<1>43. ASSUME HookSubscribe PROVE LinkInv'
  BY <1>43 DEF HookSubscribe, HookInside, InstallOrder, OneLiveConnection
<1>44. ASSUME HookInit PROVE LinkInv'
  BY <1>44 DEF HookInit, HookRequest, EventsOver, HookInside, InstallOrder,
     OneLiveConnection
<1>45. ASSUME HookLost PROVE LinkInv'
  BY <1>45 DEF HookLost, EventsOver, HookInside, InstallOrder,
     OneLiveConnection
<1>46. ASSUME NEW g \in Gens, Announce(g) PROVE LinkInv'
  BY <1>46 DEF Announce, HookInside, InstallOrder, OneLiveConnection
<1>47. ASSUME NEW g \in Gens, EndOfInput(g) PROVE LinkInv'
  BY <1>47 DEF EndOfInput, HookInside, InstallOrder, OneLiveConnection
<1> QED BY <1>0, <1>1, <1>2, <1>3, <1>4, <1>5, <1>6, <1>7, <1>8, <1>9,
   <1>10, <1>11, <1>12, <1>13, <1>14, <1>15, <1>16, <1>17, <1>18, <1>19,
   <1>20, <1>21, <1>22, <1>23, <1>24, <1>25, <1>26, <1>27, <1>28, <1>29,
   <1>30, <1>31, <1>32, <1>33, <1>34, <1>35, <1>36, <1>37, <1>38, <1>39,
   <1>40, <1>41, <1>42, <1>43, <1>44, <1>45, <1>46, <1>47 DEF Next, Request,
   ReadLoop, ReconnectLoop, Close, Adapter

\* doReconnect (dap.go:553-619): at most the current connection and the one
\* being installed are up, after any number of losses.
THEOREM ConnectionsDoNotPileUp == Spec => []OneLiveConnection
<1>1. Init => LinkInv
  BY BoundsAssumption DEF Init, LinkInv, HookInside, InstallOrder,
     OneLiveConnection, Installing, Procs, Gens
<1>2. Spec => []LinkInv
  BY <1>1, TypeInvAlways, LinkInvStep, PTL DEF Spec
<1>3. LinkInv => OneLiveConnection
  BY DEF LinkInv
<1> QED BY <1>2, <1>3, PTL

-----------------------------------------------------------------------------
(* Responses and the connection they come from.                            *)

\* A number is written once, to one connection, and answered there.
LEMMA OriginInvStep ==
    TypeInv /\ RegInv /\ OriginInv /\ [Next]_vars => OriginInv'
<1> SUFFICES ASSUME TypeInv, RegInv, OriginInv, [Next]_vars PROVE OriginInv'
  OBVIOUS
<1> USE BoundsAssumption DEF OriginInv, RegInv, RequestProgress, TypeInv,
   TypeOK, TransportOK, ReaderOK, RegistryOK, HandlersOK, SeqsInRange, Gens,
   registry, transport, signals, handlers, reader, recon, events, counters
<1>0. CASE UNCHANGED vars
  BY <1>0 DEF vars, TransitOrigin, NoCrossTalk
<1>1. ASSUME NEW c \in Callers, Begin(c) PROVE OriginInv'
  BY <1>1 DEF Begin, TransitOrigin, NoCrossTalk
<1>2. ASSUME NEW p \in Procs, DoRegister(p) PROVE OriginInv'
  <2>1. TransitOrigin'
    BY <1>2 DEF DoRegister, Register, NoCrossTalk, TransitOrigin
  <2>2. NoCrossTalk'
    BY <1>2 DEF DoRegister, Register, TransitOrigin, NoCrossTalk
  <2> QED BY <2>1, <2>2 DEF OriginInv
<1>3. ASSUME NEW p \in Procs, WriteOk(p) PROVE OriginInv'
  <2>1. TransitOrigin'
    BY <1>3 DEF WriteOk, NoCrossTalk, TransitOrigin
  <2>2. NoCrossTalk'
    BY <1>3 DEF WriteOk, TransitOrigin, NoCrossTalk
  <2> QED BY <2>1, <2>2 DEF OriginInv
<1>4. ASSUME NEW p \in Procs, WriteErr(p) PROVE OriginInv'
  BY <1>4 DEF WriteErr, Unregister, TransitOrigin, NoCrossTalk
<1>5. ASSUME NEW p \in Procs, WriteFailed(p) PROVE OriginInv'
  BY <1>5 DEF WriteFailed, Return, MarkStale, TransitOrigin, NoCrossTalk
<1>6. ASSUME NEW p \in Procs, Lookup(p) PROVE OriginInv'
  BY <1>6 DEF Lookup, TransitOrigin, NoCrossTalk
<1>7. ASSUME NEW p \in Procs, LookupMiss(p) PROVE OriginInv'
  BY <1>7 DEF LookupMiss, Finish, HookGoesOn, Return, TransitOrigin, NoCrossTalk
<1>8. ASSUME NEW p \in Procs, Receive(p) PROVE OriginInv'
  BY <1>8 DEF Receive, Finish, HookGoesOn, Return, TransitOrigin, NoCrossTalk
<1>9. ASSUME NEW p \in Procs, ReceiveClosed(p) PROVE OriginInv'
  BY <1>9 DEF ReceiveClosed, Finish, HookGoesOn, Return, TransitOrigin, NoCrossTalk
<1>10. ASSUME NEW c \in Callers, Cancel(c) PROVE OriginInv'
  BY <1>10 DEF Cancel, Finish, HookGoesOn, Return, TransitOrigin, NoCrossTalk
<1>11. ASSUME ReadTop PROVE OriginInv'
  BY <1>11 DEF ReadTop, TransitOrigin, NoCrossTalk
<1>12. ASSUME LoadReader PROVE OriginInv'
  BY <1>12 DEF LoadReader, TransitOrigin, NoCrossTalk
<1>13. ASSUME NEW s \in Seqs, ReadResponse(s) PROVE OriginInv'
  <2>1. TransitOrigin'
    BY <1>13 DEF ReadResponse, TakeOut, NoCrossTalk, TransitOrigin
  <2>2. NoCrossTalk'
    BY <1>13 DEF ReadResponse, TakeOut, TransitOrigin, NoCrossTalk
  <2> QED BY <2>1, <2>2 DEF OriginInv
<1>14. ASSUME Deliver PROVE OriginInv'
  <2>1. TransitOrigin'
    BY <1>14 DEF Deliver, NoCrossTalk, TransitOrigin
  <2>2. NoCrossTalk'
    BY <1>14 DEF Deliver, TransitOrigin, NoCrossTalk
  <2> QED BY <2>1, <2>2 DEF OriginInv
<1>15. ASSUME ReadError PROVE OriginInv'
  BY <1>15 DEF ReadError, GiveUp, MarkStale, TransitOrigin, NoCrossTalk
<1>16. ASSUME ReadDrain PROVE OriginInv'
  BY <1>16 DEF ReadDrain, CloseRegistry, TransitOrigin, NoCrossTalk
<1>17. ASSUME ReadResume PROVE OriginInv'
  BY <1>17 DEF ReadResume, TransitOrigin, NoCrossTalk
<1>18. ASSUME ReadStop PROVE OriginInv'
  BY <1>18 DEF ReadStop, TransitOrigin, NoCrossTalk
<1>19. ASSUME Wake PROVE OriginInv'
  BY <1>19 DEF Wake, TransitOrigin, NoCrossTalk
<1>20. ASSUME ReconStop PROVE OriginInv'
  BY <1>20 DEF ReconStop, TransitOrigin, NoCrossTalk
<1>21. ASSUME Redial PROVE OriginInv'
  BY <1>21 DEF Redial, TransitOrigin, NoCrossTalk
<1>22. ASSUME CloseOld PROVE OriginInv'
  BY <1>22 DEF CloseOld, CloseLink, TransitOrigin, NoCrossTalk
<1>23. ASSUME CheckClosed PROVE OriginInv'
  BY <1>23 DEF CheckClosed, CloseLink, TransitOrigin, NoCrossTalk
<1>24. ASSUME Swap PROVE OriginInv'
  BY <1>24 DEF Swap, SeqAfterSwap, TransitOrigin, NoCrossTalk
<1>25. ASSUME Drain PROVE OriginInv'
  BY <1>25 DEF Drain, CloseRegistry, TransitOrigin, NoCrossTalk
<1>26. ASSUME Resume PROVE OriginInv'
  BY <1>26 DEF Resume, TransitOrigin, NoCrossTalk
<1>27. ASSUME HookStart PROVE OriginInv'
  BY <1>27 DEF HookStart, HookRequest, TransitOrigin, NoCrossTalk
<1>28. ASSUME HookOk PROVE OriginInv'
  BY <1>28 DEF HookOk, TransitOrigin, NoCrossTalk
<1>29. ASSUME HookErr PROVE OriginInv'
  BY <1>29 DEF HookErr, EventsOver, MarkStale, TransitOrigin, NoCrossTalk
<1>30. ASSUME ClearStale PROVE OriginInv'
  BY <1>30 DEF ClearStale, TransitOrigin, NoCrossTalk
<1>31. ASSUME LoopAgain PROVE OriginInv'
  BY <1>31 DEF LoopAgain, TransitOrigin, NoCrossTalk
<1>32. ASSUME CloseCancel PROVE OriginInv'
  BY <1>32 DEF CloseCancel, TransitOrigin, NoCrossTalk
<1>33. ASSUME CloseConn PROVE OriginInv'
  BY <1>33 DEF CloseConn, CloseLink, TransitOrigin, NoCrossTalk
<1>34. ASSUME CloseDone PROVE OriginInv'
  BY <1>34 DEF CloseDone, TransitOrigin, NoCrossTalk
<1>35. ASSUME ForceReconnect PROVE OriginInv'
  BY <1>35 DEF ForceReconnect, MarkStale, TransitOrigin, NoCrossTalk
<1>36. ASSUME NEW g \in Gens, NEW s \in Seqs, Answer(g, s) PROVE OriginInv'
  <2>1. TransitOrigin'
    BY <1>36 DEF Answer, NoCrossTalk, TransitOrigin
  <2>2. NoCrossTalk'
    BY <1>36 DEF Answer, TransitOrigin, NoCrossTalk
  <2> QED BY <2>1, <2>2 DEF OriginInv
<1>37. ASSUME NEW g \in Gens, Drop(g) PROVE OriginInv'
  BY <1>37 DEF Drop, TransitOrigin, NoCrossTalk
<1>38. ASSUME ReadEvent PROVE OriginInv'
  BY <1>38 DEF ReadEvent, TransitOrigin, NoCrossTalk
<1>39. ASSUME FanOut PROVE OriginInv'
  BY <1>39 DEF FanOut, TransitOrigin, NoCrossTalk
<1>40. ASSUME TellLoss PROVE OriginInv'
  BY <1>40 DEF TellLoss, TransitOrigin, NoCrossTalk
<1>41. ASSUME ReadGarbage PROVE OriginInv'
  BY <1>41 DEF ReadGarbage, GiveUp, MarkStale, TransitOrigin, NoCrossTalk
<1>42. ASSUME HookSnapshot PROVE OriginInv'
  BY <1>42 DEF HookSnapshot, TransitOrigin, NoCrossTalk
<1>43. ASSUME HookSubscribe PROVE OriginInv'
  BY <1>43 DEF HookSubscribe, TransitOrigin, NoCrossTalk
<1>44. ASSUME HookInit PROVE OriginInv'
  BY <1>44 DEF HookInit, HookRequest, EventsOver, TransitOrigin, NoCrossTalk
<1>45. ASSUME HookLost PROVE OriginInv'
  BY <1>45 DEF HookLost, EventsOver, TransitOrigin, NoCrossTalk
<1>46. ASSUME NEW g \in Gens, Announce(g) PROVE OriginInv'
  BY <1>46 DEF Announce, TransitOrigin, NoCrossTalk
<1>47. ASSUME NEW g \in Gens, EndOfInput(g) PROVE OriginInv'
  BY <1>47 DEF EndOfInput, TransitOrigin, NoCrossTalk
<1> QED BY <1>0, <1>1, <1>2, <1>3, <1>4, <1>5, <1>6, <1>7, <1>8, <1>9,
   <1>10, <1>11, <1>12, <1>13, <1>14, <1>15, <1>16, <1>17, <1>18, <1>19,
   <1>20, <1>21, <1>22, <1>23, <1>24, <1>25, <1>26, <1>27, <1>28, <1>29,
   <1>30, <1>31, <1>32, <1>33, <1>34, <1>35, <1>36, <1>37, <1>38, <1>39,
   <1>40, <1>41, <1>42, <1>43, <1>44, <1>45, <1>46, <1>47 DEF Next, Request,
   ReadLoop, ReconnectLoop, Close, Adapter

\* replaceConn (dap.go:493-511) keeps seq: a response read from an old
\* connection never completes a request written to another one.
THEOREM ResponsesMatchConnection == Spec => []NoCrossTalk
<1>1. Init => OriginInv
  BY DEF Init, OriginInv, TransitOrigin, NoCrossTalk
<1>2. Spec => []OriginInv
  BY <1>1, TypeInvAlways, RegInvAlways, OriginInvStep, PTL DEF Spec
<1>3. OriginInv => NoCrossTalk
  BY DEF OriginInv
<1> QED BY <1>2, <1>3, PTL
=============================================================================
