---------------------------- MODULE Breakpoints -----------------------------
(***************************************************************************)
(* The breakpoints a session remembers (ds.breakpoints per file and        *)
(* ds.functionBreakpoints) against those the adapter has.  A DAP request   *)
(* replaces the whole list of its file, or of the functions, which are     *)
(* one more list here.  The handlers hold ds.mu from end to end, so each   *)
(* is one step; a request of theirs may be refused, its answer given up    *)
(* by the caller, or the connection lost before or after it was applied.   *)
(***************************************************************************)
EXTENDS Naturals, Sequences, FiniteSets

CONSTANTS
    Files,          \* files with breakpoints
    FnList,         \* the list of function breakpoints
    Locs,           \* lines of a file, or functions
    MaxInitial,     \* bound: initial breakpoints given to debug
    MaxUnplaced,    \* bound: breakpoints of all lists that one reinitialize cannot place
    KeepsBreakpoints,   \* the adapter may survive a lost connection
    AllowRunTo,     \* continue with 'to'
    AllowRestart,   \* a session may follow another
    AllowInitial,   \* debug is given breakpoints
    AllowGivingUp,  \* a caller's ctx may end while it awaits the answer
    AllowRefusedClear,  \* the adapter may refuse to clear a list
    AllowFailedReinit   \* the adapter may refuse a request of reinitialize

ASSUME ListAssumption == FnList \notin Files
ASSUME InitialAssumption == MaxInitial \in Nat

Lists == Files \cup {FnList}
NoBreakpoints == [k \in Lists |-> {}]

VARIABLES
    recorded,   \* ds.breakpoints and ds.functionBreakpoints
    adapter,    \* what the adapter has, verified or pending
    conn,       \* "none", "healthy", "stale", "redialled" (hook not run yet)
    registered, \* the tools of the session are registered
    sessions,   \* calls of debug that reached the adapter, at most two
    \* history
    accepted,   \* confirmed to the client and not cleared since
    disturbed,  \* lists that the adapter may hold otherwise than remembered
    unplaced    \* of a list not disturbed, what the adapter did not keep

vars == <<recorded, adapter, conn, registered, sessions, accepted, disturbed, unplaced>>

Init ==
    /\ recorded = NoBreakpoints /\ adapter = NoBreakpoints
    /\ conn = "none" /\ registered = FALSE /\ sessions = 0
    /\ accepted = {} /\ disturbed = {} /\ unplaced = NoBreakpoints

-----------------------------------------------------------------------------
(* One request: its outcomes, and what each does to the adapter's list.    *)
(* The adapter keeps, of the breakpoints it is sent, all but those of a    *)
(* set no (Nowhere, of several lists) that it cannot place: it answers     *)
(* with success all the same, each entry of the answer verified or not.    *)
(* Only breakpoint of a line looks, and only at the last entry.            *)

Outcomes == {"ok", "refused", "lostBefore", "lostAfter"}
            \cup (IF AllowGivingUp THEN {"givenUp"} ELSE {})
Applied(out) == out \in {"ok", "lostAfter", "givenUp"}
After(out) == IF out \in {"lostBefore", "lostAfter"} THEN "stale" ELSE "healthy"

\* History: an answered request settles its list, an unanswered one that was
\* applied unsettles it.
Settled(k, out) ==
    disturbed' = CASE out = "ok" -> disturbed \ {k}
                   [] out # "ok" /\ Applied(out) -> disturbed \cup {k}
                   [] OTHER -> disturbed

\* The adapter after list k was replaced by new, or lists ks by those of new.
Taken(k, new, no) == [adapter EXCEPT ![k] = new \ no]
Replaced(ks, new, nowhere) ==
    [k \in Lists |-> IF k \in ks THEN new[k] \ nowhere[k] ELSE adapter[k]]

\* History: what is missing of them.
Unplaced(ks, new, nowhere) ==
    [k \in Lists |-> IF k \in ks THEN new[k] \cap nowhere[k] ELSE unplaced[k]]

-----------------------------------------------------------------------------
(* Session: debug, stop, and the connection.                               *)

\* debug sends the initial breakpoints one by one, each as a list of its
\* own, so the last one of a list stays, unless it is one of those (no) that
\* the adapter cannot place; debug remembers none.
LastOf(bps, k) ==
    {i \in DOMAIN bps : bps[i].list = k /\ \A j \in DOMAIN bps : bps[j].list = k => j <= i}

DebugInitial(bps, no, lists) ==
    [k \in Lists |-> IF LastOf(bps, k) = {} THEN lists[k]
                     ELSE {bps[i].loc : i \in LastOf(bps, k) \ no}]

InitialInputs ==
    UNION {[1 .. n -> [list : Lists, loc : Locs]] :
           n \in 0 .. (IF AllowInitial THEN MaxInitial ELSE 0)}

\* What an adapter holds at a new connection: all it had, or it is fresh.
Found(kept) == IF kept THEN adapter ELSE NoBreakpoints

\* History: the lists a fresh adapter does not have.
Remembered == {k \in Lists : recorded[k] # {}}

\* The adapter of a new session, its first bps sent.
Begun(bps, kept, no) ==
    /\ ~registered
    /\ sessions < (IF AllowRestart THEN 2 ELSE 1)
    /\ sessions' = sessions + 1
    /\ adapter' = DebugInitial(bps, no, Found(kept))
    /\ disturbed' = (IF kept THEN disturbed ELSE Remembered) \cup {bps[i].list : i \in DOMAIN bps}
    /\ UNCHANGED <<recorded, accepted, unplaced>>

Debug(bps, kept, no) ==
    /\ Begun(bps, kept, no)
    /\ conn' = "healthy" /\ registered' = TRUE

\* A request is refused or lost: the client stays, and is redialled and
\* reinitialised like any other until the next debug.
DebugFails(bps, kept, no) ==
    /\ Begun(bps, kept, no)
    /\ conn' \in {"healthy", "stale"} /\ UNCHANGED registered

\* stop, or the cleanup of a debug that gets no further: what is remembered
\* is left alone.
Stop ==
    /\ conn # "none"
    /\ conn' = "none" /\ registered' = FALSE
    /\ UNCHANGED <<recorded, adapter, sessions, accepted, disturbed, unplaced>>

Lose ==
    /\ conn = "healthy"
    /\ conn' = "stale"
    /\ UNCHANGED <<recorded, adapter, registered, sessions, accepted, disturbed, unplaced>>

\* A new connection, to the same adapter or to a fresh one.
Redial(kept) ==
    /\ conn = "stale"
    /\ conn' = "redialled"
    /\ adapter' = Found(kept)
    /\ disturbed' = IF kept THEN disturbed ELSE Remembered
    /\ UNCHANGED <<recorded, registered, sessions, accepted, unplaced>>

\* MUTANT of Resent: only the files are sent again.
ResentFiles == {f \in Files : recorded[f] # {}}

\* The lists reinitialize sends again: files with an entry, and functions.
Resent == {k \in Lists : recorded[k] # {}}

\* What an adapter cannot place.
Nowheres ==
    {nowhere \in [Lists -> SUBSET Locs] :
         Cardinality({a \in Lists \X Locs : a[2] \in nowhere[a[1]]}) <= MaxUnplaced}

\* Lists of done were sent again and answered.
SentAgain(done, nowhere) ==
    /\ conn = "redialled"
    /\ adapter' = Replaced(done, recorded, nowhere)
    /\ unplaced' = Unplaced(done, recorded, nowhere)
    /\ UNCHANGED <<recorded, registered, sessions, accepted>>

Reinitialize(nowhere) ==
    /\ SentAgain(Resent, nowhere)
    /\ disturbed' = disturbed \ Remembered
    /\ conn' = "healthy"

\* The connection is lost again after some lists were sent; the files come
\* in any order, the functions last.
Prefix(ks, of) == ks \subseteq of /\ (FnList \in ks => of \ {FnList} \subseteq ks)

ReinitLost(done, nowhere) ==
    /\ Prefix(done, Resent)
    /\ SentAgain(done, nowhere)
    /\ disturbed' = disturbed \ done
    /\ conn' = "stale"

\* A request is refused: reinitialize gives up, and the client is taken for
\* healthy all the same (see DAPClient, ClearStale).
ReinitFailed(done, nowhere) ==
    /\ AllowFailedReinit
    /\ Prefix(done, Resent)
    /\ SentAgain(done, nowhere)
    /\ disturbed' = disturbed \ done
    /\ conn' = "healthy"

-----------------------------------------------------------------------------
(* The tools.                                                              *)

Callable == registered /\ conn = "healthy"

\* MUTANT of Recorded: the record is made before the answer is known.
RecordedEarly(k, new, out) == recorded' = [recorded EXCEPT ![k] = new]

\* The record changes only when the request has succeeded.
Recorded(k, new, out) ==
    recorded' = IF out = "ok" THEN [recorded EXCEPT ![k] = new] ELSE recorded

\* A line that is remembered is answered without a request.
AlreadySet(k, l) == k \in Files /\ l \in recorded[k]

\* The request carries the whole list, with the new breakpoint.
NewList(k, l) == recorded[k] \cup {l}

\* History: an answered request for list k.
Answered(k, new, no, out) ==
    unplaced' = IF out = "ok" THEN [unplaced EXCEPT ![k] = new \cap no] ELSE unplaced

\* breakpoint.  Of functions only the success of the request counts, of lines
\* that the last one, which is new, was verified.
SetBreakpoint(k, l, no, out) ==
    /\ Callable
    /\ ~AlreadySet(k, l)
    /\ out = "ok" /\ k \in Files => l \notin no
    /\ adapter' = IF Applied(out) THEN Taken(k, NewList(k, l), no) ELSE adapter
    /\ Recorded(k, recorded[k] \cup {l}, out)
    /\ accepted' = IF out = "ok" THEN accepted \cup {<<k, l>>} ELSE accepted
    /\ conn' = After(out)
    /\ Settled(k, out)
    /\ Answered(k, NewList(k, l), no, out)
    /\ UNCHANGED <<registered, sessions>>

\* The adapter answered that the new line is not verified, or without an
\* entry: breakpoint fails.  The line may stay there, pending.
Unverified(f, l, no) ==
    /\ Callable
    /\ ~AlreadySet(f, l)
    /\ adapter' = Taken(f, NewList(f, l), no)
    /\ disturbed' = IF l \in no THEN disturbed \ {f} ELSE disturbed \cup {f}
    /\ unplaced' = [unplaced EXCEPT ![f] = recorded[f] \cap no]
    /\ UNCHANGED <<recorded, conn, registered, sessions, accepted>>

ClearOutcomes == IF AllowRefusedClear THEN Outcomes ELSE Outcomes \ {"refused"}

\* clear-breakpoints with 'file'.
ClearFile(f, out) ==
    /\ Callable
    /\ adapter' = IF Applied(out) THEN Taken(f, {}, {}) ELSE adapter
    /\ Recorded(f, {}, out)
    /\ accepted' = IF out = "ok" THEN {a \in accepted : a[1] # f} ELSE accepted
    /\ conn' = After(out)
    /\ Settled(f, out)
    /\ Answered(f, {}, {}, out)
    /\ UNCHANGED <<registered, sessions>>

\* clear-breakpoints with 'all': the remembered files in any order, then the
\* functions.  It stops at the first error, at list k after those of done.
ToClear == {f \in Files : recorded[f] # {}} \cup {FnList}

ClearAll ==
    /\ Callable
    /\ adapter' = Replaced(ToClear, NoBreakpoints, NoBreakpoints)
    /\ unplaced' = Unplaced(ToClear, NoBreakpoints, NoBreakpoints)
    /\ recorded' = NoBreakpoints
    /\ accepted' = {}
    /\ disturbed' = disturbed \ ToClear
    /\ UNCHANGED <<conn, registered, sessions>>

ClearSome(done, k, out) ==
    /\ Callable /\ out # "ok"
    /\ k \in ToClear \ done /\ Prefix(done \cup {k}, ToClear)
    /\ adapter' = Replaced(IF Applied(out) THEN done \cup {k} ELSE done,
                           NoBreakpoints, NoBreakpoints)
    /\ conn' = After(out)
    /\ disturbed' = disturbed \cup done \cup (IF Applied(out) THEN {k} ELSE {})
    /\ UNCHANGED <<recorded, registered, sessions, accepted, unplaced>>

\* continue with 'to': the temporary breakpoint becomes the whole list.
RunTo(k, l, no, out) ==
    /\ AllowRunTo
    /\ Callable
    /\ adapter' = IF Applied(out) THEN Taken(k, {l}, no) ELSE adapter
    /\ conn' = After(out)
    /\ disturbed' = IF Applied(out) THEN disturbed \cup {k} ELSE disturbed
    /\ UNCHANGED <<recorded, registered, sessions, accepted, unplaced>>

-----------------------------------------------------------------------------
Next ==
    \/ \E kept \in (IF KeepsBreakpoints THEN BOOLEAN ELSE {FALSE}) :
           \/ Redial(kept)
           \/ \E bps \in InitialInputs : \E no \in SUBSET DOMAIN bps :
                  Debug(bps, kept, no) \/ DebugFails(bps, kept, no)
    \/ Stop \/ Lose
    \/ \E nowhere \in Nowheres :
           \/ Reinitialize(nowhere)
           \/ \E done \in SUBSET Lists :
                  ReinitLost(done, nowhere) \/ ReinitFailed(done, nowhere)
    \/ \E k \in Lists, l \in Locs, no \in SUBSET Locs, out \in Outcomes :
           SetBreakpoint(k, l, no, out) \/ RunTo(k, l, no, out)
    \/ \E f \in Files, l \in Locs, no \in SUBSET Locs : Unverified(f, l, no)
    \/ \E f \in Files, out \in ClearOutcomes : ClearFile(f, out)
    \/ ClearAll
    \/ \E done \in SUBSET Lists, k \in Lists, out \in ClearOutcomes :
           ClearSome(done, k, out)

Spec == Init /\ [][Next]_vars

-----------------------------------------------------------------------------
(* Properties.                                                             *)

\* On every list that nothing has disturbed since its last answered request
\* the adapter has what is recorded, less what it could not place when it
\* answered that request: no tool but breakpoint asks that of an answer, and
\* it only of the new line.  What disturbs a list: a run-to, a request without an
\* answer, a line that is not verified but stays pending, a clear that stopped
\* half-way, an initial breakpoint, a fresh adapter.  The next answered
\* request for the list, or a reconnect, settles it again.
AgreesUnlessDisturbed ==
    conn = "healthy" => \A k \in Lists \ disturbed : adapter[k] = recorded[k] \ unplaced[k]

\* A breakpoint is remembered exactly when it was confirmed to the client
\* and not cleared since ("Persist state only after successful DAP call").
RecordedIsConfirmed ==
    accepted = {a \in Lists \X Locs : a[2] \in recorded[a[1]]}

-----------------------------------------------------------------------------
(* What a document says, and the code does not do.                         *)

\* mcp-tool-api.md:76: what is remembered is installed, whenever the
\* connection is healthy.  continue with 'to' breaks it, among others.
RecordedIsInstalled ==
    conn = "healthy" => \A k \in Lists : recorded[k] \subseteq adapter[k]
=============================================================================
