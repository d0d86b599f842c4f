-------------------------- MODULE HouseholdProofs --------------------------
(***************************************************************************)
(* For every set of people, every sheet and every number of edits and      *)
(* drinks:                                                                 *)
(*                                                                         *)
(* A terminal that is at the backend's revision has the backend's list of  *)
(* people.  The argument follows a revision through the slot: a sync under *)
(* way asks for what is newer than the terminal's revision, and an answer  *)
(* with the backend's revision carries the sheet as it is, because every   *)
(* later write is followed by another revision, unless it is done by hand  *)
(* or its execution dies.                                                  *)
(*                                                                         *)
(* An overview that no earlier one is late for shows the person it was     *)
(* opened for, and no fewer drinks than the sheet had then.  The argument  *)
(* follows the request from the screen through the wait for the slot, the  *)
(* backend and the redraw; the sheet only grows, and so does the largest   *)
(* sum of as many products as an overview has room for.                    *)
(*                                                                         *)
(* Lists and queue stay within their arrays, no transaction gets two rows, *)
(* and an overview whose request has ended is drawn as it ended.           *)
(***************************************************************************)
EXTENDS Household, FiniteSetTheorems, WellFoundedInduction, TLAPS

RevisionsGrow == revision \in Nat /\ seen \in Nat /\ seen <= revision

AskedSince == slot.op = "Sync" => slot.request.since = seen

\* What handleSync_() has read so far is not newer than the sheet.
RevisionRead ==
    slot.op = "Sync" /\ slot.net \in {"reading", "answered"} =>
        slot.answer.revision \in Nat /\ slot.answer.revision <= revision

\* An answer that is still up to date carries the sheet, unless it says that
\* nothing has changed.
AnswerFollows ==
    slot.op = "Sync" /\ slot.net = "answered" /\ slot.answer.revision = revision
        /\ ~saving /\ ~unbumped =>
    slot.answer.people = IF seen = revision THEN <<>> ELSE Served

RevisionInv ==
    /\ RevisionsGrow
    /\ AskedSince
    /\ RevisionRead
    /\ AnswerFollows
    /\ ResidentsFollowRevision

sheetVars == <<listed, revision, saving, unbumped>>

LEMMA ServedStays == UNCHANGED listed => UNCHANGED Served
  BY DEF Served

LEMMA RevisionInit == Init => RevisionInv
  BY DEF Init, Free, NoRequest, RevisionInv, RevisionsGrow, AskedSince,
         RevisionRead, AnswerFollows, ResidentsFollowRevision

----------------------------------------------------------------------------
(* Steps that concern neither the sheet nor the terminal's list *)

\* The slot keeps what it has, is freed, moves on without an answer, or starts.
SlotQuiet ==
    \/ UNCHANGED slot
    \/ slot' = Free
    \/ GetsTo("sent", NoRequest) \/ GetsTo("failed", NoRequest)
    \/ \E op \in {"Purchase", "MySummary"} : \E r : Start(op, r)
    \/ Start("Sync", [since |-> seen])

LEMMA QuietSteps ==
    ASSUME RevisionInv, UNCHANGED <<sheetVars, residents, seen>>, SlotQuiet
    PROVE  RevisionInv'
<1>1. UNCHANGED Served
  BY ServedStays DEF sheetVars
<1>2. (RevisionsGrow /\ ResidentsFollowRevision)'
  BY <1>1 DEF RevisionInv, RevisionsGrow, ResidentsFollowRevision, sheetVars
<1>3. (AskedSince /\ RevisionRead /\ AnswerFollows)'
  BY <1>1 DEF SlotQuiet, GetsTo, Start, Free, NoRequest, sheetVars, RevisionInv,
              AskedSince, RevisionRead, AnswerFollows
<1> QED BY <1>2, <1>3 DEF RevisionInv

\* The slot holds another request than a sync, before and after.
LEMMA OtherRequests ==
    ASSUME RevisionInv, UNCHANGED <<sheetVars, residents, seen>>,
           slot.op # "Sync", NEW n, NEW a, GetsTo(n, a)
    PROVE  RevisionInv'
<1>1. UNCHANGED Served
  BY ServedStays DEF sheetVars
<1>2. (RevisionsGrow /\ ResidentsFollowRevision)'
  BY <1>1 DEF RevisionInv, RevisionsGrow, ResidentsFollowRevision, sheetVars
<1>3. slot'.op # "Sync"
  BY DEF GetsTo
<1> QED BY <1>2, <1>3 DEF RevisionInv, AskedSince, RevisionRead, AnswerFollows

----------------------------------------------------------------------------
(* The sheet is edited *)

LEMMA EditSteps == RevisionInv /\ EditResidents => RevisionInv'
<1> SUFFICES ASSUME RevisionInv, EditResidents PROVE RevisionInv'
  OBVIOUS
<1>1. CASE SaveResident
  <2>1. saving' = TRUE /\ UNCHANGED <<revision, seen, slot>>
    BY <1>1 DEF SaveResident, EditResidents, deviceVars
  <2> QED BY <2>1 DEF RevisionInv, RevisionsGrow, AskedSince, RevisionRead,
                      AnswerFollows, ResidentsFollowRevision
<1>2. CASE BumpRevision \/ ProductSaved
  <2>1. revision' = revision + 1 /\ UNCHANGED <<seen, slot>>
    BY <1>2 DEF BumpRevision, ProductSaved, EditResidents, deviceVars
  <2> QED BY <2>1 DEF RevisionInv, RevisionsGrow, AskedSince, RevisionRead,
                      AnswerFollows, ResidentsFollowRevision
<1>3. CASE EditByHand \/ SaveDies
  <2>1. unbumped' = TRUE /\ UNCHANGED <<revision, seen, slot>>
    BY <1>3 DEF EditByHand, SaveDies, EditResidents, deviceVars
  <2> QED BY <2>1 DEF RevisionInv, RevisionsGrow, AskedSince, RevisionRead,
                      AnswerFollows, ResidentsFollowRevision
<1> QED BY <1>1, <1>2, <1>3 DEF EditResidents

----------------------------------------------------------------------------
(* A sync is answered and applied *)

LEMMA ServeRevisionStep == RevisionInv /\ ServeRevision => RevisionInv'
<1> SUFFICES ASSUME RevisionInv, ServeRevision PROVE RevisionInv'
  OBVIOUS
<1>1. /\ UNCHANGED <<listed, revision, saving, unbumped, residents, seen>>
      /\ GetsTo("reading", [revision |-> revision])
  BY DEF ServeRevision, Remote, householdVars, deviceVars
<1>2. UNCHANGED Served
  BY <1>1, ServedStays
<1> QED BY <1>1, <1>2 DEF RevisionInv, RevisionsGrow, AskedSince, RevisionRead,
                          AnswerFollows, ResidentsFollowRevision, GetsTo

LEMMA ServeListsStep == RevisionInv /\ ServeLists => RevisionInv'
<1> SUFFICES ASSUME RevisionInv, ServeLists PROVE RevisionInv'
  OBVIOUS
<1> DEFINE read == slot.answer.revision
           people == IF slot.request.since = read THEN <<>> ELSE Served
<1>1. /\ UNCHANGED <<listed, revision, saving, unbumped, residents, seen>>
      /\ slot.op = "Sync" /\ slot.net = "reading"
      /\ GetsTo("answered", [revision |-> read, summary |-> ConsumptionSummary,
                             people |-> people])
  BY DEF ServeLists, Reply, Remote, householdVars, deviceVars
<1>2. UNCHANGED Served
  BY <1>1, ServedStays
<1>3. /\ slot'.op = "Sync" /\ slot'.net = "answered" /\ slot'.request = slot.request
      /\ slot'.answer.revision = read /\ slot'.answer.people = people
  BY <1>1 DEF GetsTo
<1>4. slot.request.since = seen
  BY <1>1 DEF RevisionInv, AskedSince
<1>5. AnswerFollows'
  BY <1>1, <1>2, <1>3, <1>4 DEF AnswerFollows
<1>6. RevisionRead' /\ AskedSince'
  BY <1>1, <1>3 DEF RevisionInv, RevisionRead, AskedSince
<1>7. (RevisionsGrow /\ ResidentsFollowRevision)'
  BY <1>1, <1>2 DEF RevisionInv, RevisionsGrow, ResidentsFollowRevision
<1> QED BY <1>3, <1>5, <1>6, <1>7 DEF RevisionInv

LEMMA SyncArrivesStep == RevisionInv /\ SyncArrives => RevisionInv'
<1> SUFFICES ASSUME RevisionInv, SyncArrives PROVE RevisionInv'
  OBVIOUS
<1> DEFINE a == slot.answer
<1>1. /\ UNCHANGED <<listed, revision, saving, unbumped>>
      /\ slot.op = "Sync" /\ slot.net = "answered" /\ slot' = Free
      /\ residents' = IF a.revision # seen /\ a.people # <<>> THEN a.people ELSE residents
      /\ seen' = a.revision
  BY DEF SyncArrives, Answered, ApplySync, Finish, householdVars
<1>2. UNCHANGED Served
  BY <1>1, ServedStays
<1>3. (AskedSince /\ RevisionRead /\ AnswerFollows)'
  BY <1>1 DEF Free, AskedSince, RevisionRead, AnswerFollows
<1>4. RevisionsGrow'
  BY <1>1 DEF RevisionInv, RevisionRead, RevisionsGrow
<1>5. ResidentsFollowRevision'
  <2> SUFFICES ASSUME a.revision = revision, ~saving, ~unbumped, Served # <<>>
               PROVE  residents' = Served
    BY <1>1, <1>2 DEF ResidentsFollowRevision
  <2>1. CASE seen = revision
    BY <2>1, <1>1 DEF RevisionInv, ResidentsFollowRevision
  <2>2. CASE seen # revision
    BY <2>2, <1>1 DEF RevisionInv, AnswerFollows
  <2> QED BY <2>1, <2>2
<1> QED BY <1>3, <1>4, <1>5 DEF RevisionInv

----------------------------------------------------------------------------
(* All steps *)

LEMMA RevisionNext == RevisionInv /\ [Next]_vars => RevisionInv'
<1> SUFFICES ASSUME RevisionInv, [Next]_vars PROVE RevisionInv'
  OBVIOUS
<1> USE DEF sheetVars, householdVars, deviceVars
<1>1. CASE UpdateIdle
  <2>1. SlotQuiet
    BY <1>1 DEF UpdateIdle, StartWaitingSummary, StartPurchase, StartSync, NotYet,
                AskMySummary, SendQueuedNow, SlotQuiet
  <2> QED BY <1>1, <2>1, QuietSteps DEF UpdateIdle
<1>2. CASE UpdateWaits
  BY <1>2, QuietSteps DEF UpdateWaits, SlotQuiet
<1>3. CASE Post
  BY <1>3, QuietSteps DEF Post, SlotQuiet, RevisionInv
<1>4. CASE UpdateFailed
  BY <1>4, QuietSteps DEF UpdateFailed, Failed, Finish, SlotQuiet
<1>5. CASE MySummaryArrives
  BY <1>5, QuietSteps DEF MySummaryArrives, Finish, SlotQuiet
<1>6. CASE SyncArrives
  BY <1>6, SyncArrivesStep
<1>7. CASE PurchaseArrives
  BY <1>7, QuietSteps DEF PurchaseArrives, Finish, SlotQuiet
<1>8. CASE AppUpdate \/ SubmissionEnds \/ NoTouch \/ ProductSelected \/ Leave
  BY <1>8, QuietSteps DEF AppUpdate, SubmissionEnds, NoTouch, ProductSelected, Leave, Touch,
                          SlotQuiet
<1>9. CASE ResidentSelected \/ Retry
  <2>1. PICK t, i : EnqueuePurchase(t, i) /\ UNCHANGED <<sheetVars, residents, seen>>
    BY <1>9 DEF ResidentSelected, Retry, Touch
  <2>2. SlotQuiet
    BY <2>1 DEF EnqueuePurchase, SendQueuedNow, SlotQuiet
  <2> QED BY <2>1, <2>2, QuietSteps
<1>10. CASE ShowSummary
  <2>1. SlotQuiet
    BY <1>10 DEF ShowSummary, RequestMySummary, AskMySummary, SlotQuiet
  <2> QED BY <1>10, <2>1, QuietSteps DEF ShowSummary, Touch
<1>11. CASE ServeRevision
  BY <1>11, ServeRevisionStep
<1>12. CASE ServeLists
  BY <1>12, ServeListsStep
<1>13. CASE ServePerson \/ ServePurchase \/ ServeBusy \/ ServeMySummary
  <2>1. /\ slot.op # "Sync" /\ UNCHANGED <<sheetVars, residents, seen>>
        /\ \E n, a : GetsTo(n, a)
    BY <1>13 DEF ServePerson, ServePurchase, ServeBusy, ServeMySummary, Reply, Remote
  <2> QED BY <2>1, OtherRequests
<1>14. CASE LinkFails
  BY <1>14, QuietSteps DEF LinkFails, Remote, SlotQuiet
<1>15. CASE EditResidents
  BY <1>15, EditSteps
<1>16. CASE UNCHANGED vars
  BY <1>16, QuietSteps DEF vars, SlotQuiet
<1> QED BY <1>1, <1>2, <1>3, <1>4, <1>5, <1>6, <1>7, <1>8, <1>9, <1>10, <1>11, <1>12,
           <1>13, <1>14, <1>15, <1>16 DEF Next, LoopStep, BackendUpdate, Serve

\* When the terminal's revision is the backend's, so is its list of people,
\* unless the sheet was edited by hand, or by an execution that died, since.
THEOREM PeopleFollowRevision == Spec => []ResidentsFollowRevision
<1>1. RevisionInv => ResidentsFollowRevision
  BY DEF RevisionInv
<1> QED BY <1>1, RevisionInit, RevisionNext, PTL DEF Spec

----------------------------------------------------------------------------
(* The overview *)

RowsAreSequence == \E S : rows \in Seq(S)

Uncrossed == screen = "Summary" /\ ~crossed

\* The sheet has what it had when the overview was opened.
FloorHolds == Uncrossed => floor \in Nat /\ Drinks(asked) >= floor

\* A request that waits, that is in the slot, and its answer are asked's.
WaitsForAsked == Uncrossed /\ my.state = "Loading" => my.asks = asked

RequestForAsked == Uncrossed /\ slot.op = "MySummary" => slot.request.who = asked

AnswerForAsked ==
    Uncrossed /\ slot.op = "MySummary" /\ slot.net = "answered" =>
        slot.answer.who = asked /\ slot.answer.drinks >= floor

FiguresForAsked ==
    Uncrossed /\ my.state = "Ready" => my.who = asked /\ my.drinks >= floor

OverviewInv ==
    /\ RowsAreSequence
    /\ FloorHolds
    /\ WaitsForAsked
    /\ RequestForAsked
    /\ AnswerForAsked
    /\ FiguresForAsked
    /\ OverviewIsTheirs

ofOverview == <<my, screen, drawn, asked, floor, crossed>>

LEMMA OverviewInit == Init => OverviewInv
<1> SUFFICES ASSUME Init PROVE OverviewInv
  OBVIOUS
<1>1. RowsAreSequence /\ screen # "Summary"
  BY InitialAssumption DEF Init, RowsAreSequence
<1> QED BY <1>1 DEF OverviewInv, RowsAreSequence, Uncrossed, FloorHolds, WaitsForAsked,
                    RequestForAsked, AnswerForAsked, FiguresForAsked, OverviewIsTheirs

\* The least number of a set, and the largest of one that is bounded.
LEMMA LeastElement ==
    ASSUME NEW T \in SUBSET Nat, T # {}
    PROVE  \E x \in T : \A y \in T : x <= y
<1> DEFINE R == OpToRel(<, Nat)
<1>1. IsWellFoundedOn(R, Nat)
  BY NatLessThanWellFounded
<1>2. \A x, y \in Nat : (<<y, x>> \in R) <=> y < x
  BY SMT DEF OpToRel
<1> HIDE DEF R
<1>3. PICK x \in T : \A y \in T : ~(<<y, x>> \in R)
  BY <1>1, WFMin
<1>4. \A y \in T : x \in Nat /\ y \in Nat /\ ~(y < x)
  BY <1>2, <1>3
<1> QED BY <1>3, <1>4

LEMMA LargestElement ==
    ASSUME NEW n \in Nat, NEW T \in SUBSET (0 .. n), T # {}
    PROVE  Max(T) \in T /\ \A y \in T : Max(T) >= y
<1> DEFINE gaps == {n - x : x \in T}
<1>1. gaps \in SUBSET Nat /\ gaps # {}
  <2>1. \A x \in T : x \in 0 .. n /\ n - x \in Nat
    OBVIOUS
  <2> QED BY <2>1
<1>2. PICK g \in gaps : \A h \in gaps : g <= h
  BY <1>1, LeastElement
<1>3. PICK x \in T : g = n - x
  BY <1>2
<1>4. \A y \in T : x >= y
  <2> TAKE y \in T
  <2>1. n - x <= n - y
    BY <1>2, <1>3
  <2>2. x \in 0 .. n /\ y \in 0 .. n
    BY <1>3
  <2> QED BY <2>1, <2>2
<1> QED BY <1>4 DEF Max

\* What the overview of p may add up to, for each choice of its products.
Sums(rs, p) == {DrinksOf(rs, p, beers) : beers \in Breakdowns}

LEMMA SumsAreBounded ==
    ASSUME NEW S, NEW rs \in Seq(S), NEW p
    PROVE  /\ Sums(rs, p) \subseteq 0 .. Len(rs) /\ Len(rs) \in Nat /\ Sums(rs, p) # {}
           /\ \A beers : IsFiniteSet({i \in DOMAIN rs : rs[i].who = p /\ rs[i].beer \in beers})
<1>1. DOMAIN rs = 1 .. Len(rs) /\ Len(rs) \in Nat
  OBVIOUS
<1>2. IsFiniteSet(1 .. Len(rs)) /\ Cardinality(1 .. Len(rs)) = Len(rs)
  BY <1>1, FS_Interval
<1>3. ASSUME NEW beers
      PROVE  /\ IsFiniteSet({i \in DOMAIN rs : rs[i].who = p /\ rs[i].beer \in beers})
             /\ DrinksOf(rs, p, beers) \in 0 .. Len(rs)
  <2> DEFINE T == {i \in DOMAIN rs : rs[i].who = p /\ rs[i].beer \in beers}
  <2>1. T \subseteq 1 .. Len(rs)
    BY <1>1
  <2> HIDE DEF T
  <2>2. IsFiniteSet(T) /\ Cardinality(T) <= Len(rs)
    BY <1>2, <2>1, FS_Subset
  <2>3. Cardinality(T) \in Nat
    BY <2>2, FS_CardinalityType
  <2>4. DrinksOf(rs, p, beers) = Cardinality(T)
    BY DEF DrinksOf, T
  <2> QED BY <1>1, <2>2, <2>3, <2>4 DEF T
<1>4. {} \in Breakdowns
  BY FS_EmptySet, LimitsAssumption DEF Breakdowns
<1> QED BY <1>1, <1>3, <1>4 DEF Sums

\* The drinks of a person are a number.
LEMMA DrinksAreCounted ==
    ASSUME RowsAreSequence, NEW p
    PROVE  Drinks(p) \in Nat
<1>1. PICK S : rows \in Seq(S)
  BY DEF RowsAreSequence
<1>2. /\ Sums(rows, p) \in SUBSET (0 .. Len(rows)) /\ Len(rows) \in Nat
      /\ Sums(rows, p) # {}
  BY <1>1, SumsAreBounded
<1>3. Max(Sums(rows, p)) \in Sums(rows, p)
  BY <1>2, LargestElement
<1> QED BY <1>2, <1>3 DEF Drinks, Sums

\* A row more takes nothing from anybody.
LEMMA DrinksGrow ==
    ASSUME RowsAreSequence, NEW e, rows' = Append(rows, e), NEW p
    PROVE  LET n == Max(Sums(rows', p))
           IN  RowsAreSequence' /\ n \in Nat /\ Drinks(p) \in Nat /\ n >= Drinks(p)
<1>1. PICK S : rows \in Seq(S)
  BY DEF RowsAreSequence
<1>2. rows \in Seq(S \cup {e}) /\ e \in S \cup {e}
  BY <1>1
<1>3. rows' \in Seq(S \cup {e})
  BY <1>2
<1>4. /\ DOMAIN rows = 1 .. Len(rows) /\ Len(rows) \in Nat
      /\ DOMAIN rows' = 1 .. (Len(rows) + 1)
      /\ \A i \in 1 .. Len(rows) : rows'[i] = rows[i]
  BY <1>2
<1>5. ASSUME NEW rs, rs \in {rows, rows'}
      PROVE  /\ Sums(rs, p) \in SUBSET (0 .. Len(rs)) /\ Len(rs) \in Nat
             /\ Max(Sums(rs, p)) \in Sums(rs, p)
             /\ \A y \in Sums(rs, p) : Max(Sums(rs, p)) >= y
  <2>1. rs \in Seq(S \cup {e})
    BY <1>2, <1>3, <1>5
  <2>2. /\ Sums(rs, p) \in SUBSET (0 .. Len(rs)) /\ Len(rs) \in Nat /\ Sums(rs, p) # {}
    BY <2>1, SumsAreBounded
  <2> QED BY <2>2, LargestElement
<1>6. PICK beers \in Breakdowns : Max(Sums(rows, p)) = DrinksOf(rows, p, beers)
  BY <1>5 DEF Sums
<1> DEFINE old == {i \in DOMAIN rows : rows[i].who = p /\ rows[i].beer \in beers}
           new == {i \in DOMAIN rows' : rows'[i].who = p /\ rows'[i].beer \in beers}
<1>7. old \subseteq new
  BY <1>4
<1>8. IsFiniteSet(new)
  <2> DEFINE chosen(rs) == {i \in DOMAIN rs : rs[i].who = p /\ rs[i].beer \in beers}
  <2>1. \A rs \in Seq(S \cup {e}) : IsFiniteSet(chosen(rs))
    BY SumsAreBounded
  <2> QED BY <1>3, <2>1
<1>9. /\ Cardinality(old) <= Cardinality(new)
      /\ Cardinality(old) \in Nat /\ Cardinality(new) \in Nat
  BY <1>7, <1>8, FS_Subset, FS_CardinalityType
<1>10. Cardinality(new) \in Sums(rows', p) /\ Max(Sums(rows, p)) = Cardinality(old)
  BY <1>6 DEF Sums, DrinksOf
<1>11. Max(Sums(rows', p)) \in Nat /\ Max(Sums(rows', p)) >= Cardinality(new)
  <2>1. /\ Sums(rows', p) \in SUBSET (0 .. Len(rows')) /\ Len(rows') \in Nat
        /\ Max(Sums(rows', p)) \in Sums(rows', p)
        /\ \A y \in Sums(rows', p) : Max(Sums(rows', p)) >= y
    BY <1>5
  <2>2. Max(Sums(rows', p)) \in 0 .. Len(rows')
    BY <2>1
  <2> HIDE DEF new
  <2> QED BY <1>10, <2>1, <2>2
<1>12. Drinks(p) = Cardinality(old)
  BY <1>10 DEF Drinks, Sums
<1> HIDE DEF old, new
<1> QED BY <1>3, <1>9, <1>11, <1>12 DEF RowsAreSequence

LEMMA DrinksStay ==
    ASSUME UNCHANGED <<rows, asked>>
    PROVE  Drinks(asked)' = Drinks(asked)
  BY DEF Drinks

LEMMA Elsewhere ==
    ASSUME OverviewInv, UNCHANGED rows, screen' # "Summary"
    PROVE  OverviewInv'
  BY DEF OverviewInv, RowsAreSequence, Uncrossed, FloorHolds, WaitsForAsked,
         RequestForAsked, AnswerForAsked, FiguresForAsked, OverviewIsTheirs

\* The slot keeps what it has, is freed, is asked about something else, or
\* takes the overview that waits.
SlotOverview ==
    \/ UNCHANGED slot
    \/ slot' = Free
    \/ GetsTo("sent", NoRequest) \/ GetsTo("failed", NoRequest)
    \/ slot.op # "MySummary" /\ slot'.op = slot.op
    \/ slot'.op \in {"Purchase", "Sync"}
    \/ OverviewWaits /\ AskMySummary(my.asks)

LEMMA OverviewQuiet ==
    ASSUME OverviewInv, UNCHANGED <<rows, ofOverview>>, SlotOverview
    PROVE  OverviewInv'
<1>1. (RowsAreSequence /\ FloorHolds)'
  BY DrinksStay DEF OverviewInv, RowsAreSequence, FloorHolds, Uncrossed, ofOverview
<1>2. (WaitsForAsked /\ FiguresForAsked /\ OverviewIsTheirs)'
  BY DEF OverviewInv, WaitsForAsked, FiguresForAsked, OverviewIsTheirs, Uncrossed, ofOverview
<1>3. (RequestForAsked /\ AnswerForAsked)'
  BY DEF OverviewInv, WaitsForAsked, RequestForAsked, AnswerForAsked, Uncrossed, ofOverview,
         SlotOverview, Free, GetsTo, OverviewWaits, AskMySummary, Start
<1> QED BY <1>1, <1>2, <1>3 DEF OverviewInv

----------------------------------------------------------------------------
(* The overview is asked for, answered and drawn *)

LEMMA ShowSummaryStep == OverviewInv /\ ShowSummary => OverviewInv'
<1> SUFFICES ASSUME OverviewInv, ShowSummary PROVE OverviewInv'
  OBVIOUS
<1> DEFINE p == At(index)
<1>1. /\ UNCHANGED rows /\ asked' = p /\ floor' = Drinks(p)
      /\ crossed' = (my.state = "Loading" \/ slot.op = "MySummary")
      /\ RequestMySummary(p) /\ drawn' = Picture(my', index)
  BY DEF ShowSummary, Touch, householdVars
<1>2. RowsAreSequence' /\ FloorHolds'
  <2>1. Drinks(p) \in Nat
    BY DrinksAreCounted DEF OverviewInv
  <2>2. Drinks(asked)' = Drinks(p)
    BY <1>1 DEF Drinks
  <2> QED BY <1>1, <2>1, <2>2 DEF OverviewInv, RowsAreSequence, FloorHolds
<1>3. /\ my'.state \in {"Loading", "Unavailable"}
      /\ my'.state = "Loading" => my'.asks = p
      /\ slot' = slot \/ (AskMySummary(p) /\ my'.state = "Loading")
  BY <1>1 DEF RequestMySummary, NoFigures
<1>4. WaitsForAsked' /\ FiguresForAsked'
  BY <1>1, <1>3 DEF WaitsForAsked, FiguresForAsked
<1>5. RequestForAsked' /\ AnswerForAsked'
  <2>1. CASE slot' = slot
    <3>1. Uncrossed' => slot.op # "MySummary"
      BY <1>1 DEF Uncrossed
    <3> QED BY <2>1, <3>1 DEF RequestForAsked, AnswerForAsked
  <2>2. CASE AskMySummary(p)
    BY <1>1, <2>2 DEF RequestForAsked, AnswerForAsked, AskMySummary, Start
  <2> QED BY <1>3, <2>1, <2>2
<1>6. OverviewIsTheirs'
  BY <1>1, <1>3 DEF OverviewIsTheirs, Picture
<1> QED BY <1>2, <1>4, <1>5, <1>6 DEF OverviewInv

LEMMA ServeMySummaryStep == OverviewInv /\ ServeMySummary => OverviewInv'
<1> SUFFICES ASSUME OverviewInv, ServeMySummary PROVE OverviewInv'
  OBVIOUS
<1>1. /\ UNCHANGED <<rows, ofOverview>> /\ slot.op = "MySummary"
      /\ GetsTo("answered", [who |-> slot.request.who, drinks |-> Drinks(slot.request.who)])
  BY DEF ServeMySummary, Reply, Remote, householdVars, uiVars, screenVars, historyVars,
         ofOverview
<1>2. (RowsAreSequence /\ FloorHolds)'
  BY <1>1, DrinksStay DEF OverviewInv, RowsAreSequence, FloorHolds, Uncrossed, ofOverview
<1>3. (WaitsForAsked /\ FiguresForAsked /\ OverviewIsTheirs)'
  BY <1>1 DEF OverviewInv, WaitsForAsked, FiguresForAsked, OverviewIsTheirs, Uncrossed,
              ofOverview
<1>4. (RequestForAsked /\ AnswerForAsked)'
  BY <1>1 DEF OverviewInv, FloorHolds, RequestForAsked, AnswerForAsked, Uncrossed, ofOverview,
              GetsTo
<1> QED BY <1>2, <1>3, <1>4 DEF OverviewInv

LEMMA MySummaryArrivesStep == OverviewInv /\ MySummaryArrives => OverviewInv'
<1> SUFFICES ASSUME OverviewInv, MySummaryArrives PROVE OverviewInv'
  OBVIOUS
<1>1. /\ UNCHANGED <<rows, screen, drawn, asked, floor, crossed>> /\ slot' = Free
      /\ slot.op = "MySummary" /\ slot.net = "answered"
      /\ my'.state = "Ready" /\ my'.who = slot.answer.who /\ my'.drinks = slot.answer.drinks
  BY DEF MySummaryArrives, Answered, Finish, householdVars, screenVars, historyVars
<1>2. (RowsAreSequence /\ FloorHolds)'
  BY <1>1, DrinksStay DEF OverviewInv, RowsAreSequence, FloorHolds, Uncrossed
<1>3. (RequestForAsked /\ AnswerForAsked /\ WaitsForAsked)'
  BY <1>1 DEF RequestForAsked, AnswerForAsked, WaitsForAsked, Free
<1>4. (FiguresForAsked /\ OverviewIsTheirs)'
  BY <1>1 DEF OverviewInv, AnswerForAsked, FiguresForAsked, OverviewIsTheirs, Uncrossed
<1> QED BY <1>2, <1>3, <1>4 DEF OverviewInv

LEMMA UpdateFailedStep == OverviewInv /\ UpdateFailed => OverviewInv'
<1> SUFFICES ASSUME OverviewInv, UpdateFailed PROVE OverviewInv'
  OBVIOUS
<1>1. /\ UNCHANGED <<rows, screen, drawn, asked, floor, crossed>> /\ slot' = Free
      /\ my' = my \/ my'.state = "Unavailable"
  BY DEF UpdateFailed, Failed, Finish, NoFigures, householdVars, screenVars, historyVars
<1>2. (RowsAreSequence /\ FloorHolds)'
  BY <1>1, DrinksStay DEF OverviewInv, RowsAreSequence, FloorHolds, Uncrossed
<1>3. (RequestForAsked /\ AnswerForAsked)'
  BY <1>1 DEF RequestForAsked, AnswerForAsked, Free
<1>4. (WaitsForAsked /\ FiguresForAsked /\ OverviewIsTheirs)'
  BY <1>1 DEF OverviewInv, WaitsForAsked, FiguresForAsked, OverviewIsTheirs, Uncrossed
<1> QED BY <1>2, <1>3, <1>4 DEF OverviewInv

LEMMA AppUpdateStep == OverviewInv /\ AppUpdate => OverviewInv'
<1> SUFFICES ASSUME OverviewInv, AppUpdate PROVE OverviewInv'
  OBVIOUS
<1>1. /\ UNCHANGED <<rows, screen, my, slot, asked, floor, crossed>>
      /\ drawn' = drawn \/ drawn' = Picture(my, index)
  BY DEF AppUpdate, Redraw, householdVars, historyVars
<1>2. (RowsAreSequence /\ FloorHolds)'
  BY <1>1, DrinksStay DEF OverviewInv, RowsAreSequence, FloorHolds, Uncrossed
<1>3. (WaitsForAsked /\ RequestForAsked /\ AnswerForAsked /\ FiguresForAsked)'
  BY <1>1 DEF OverviewInv, WaitsForAsked, RequestForAsked, AnswerForAsked, FiguresForAsked,
              Uncrossed
<1>4. OverviewIsTheirs'
  BY <1>1 DEF OverviewInv, FiguresForAsked, OverviewIsTheirs, Uncrossed, Picture
<1> QED BY <1>2, <1>3, <1>4 DEF OverviewInv

LEMMA ServePurchaseStep == OverviewInv /\ ServePurchase => OverviewInv'
<1> SUFFICES ASSUME OverviewInv, ServePurchase PROVE OverviewInv'
  OBVIOUS
<1>1. /\ UNCHANGED ofOverview /\ slot.op = "Purchase" /\ slot'.op = "Purchase"
      /\ rows' = rows \/ \E e : rows' = Append(rows, e)
  BY DEF ServePurchase, RecordPurchase, Reply, GetsTo, Remote, uiVars, screenVars,
         historyVars, ofOverview
<1>2. CASE rows' = rows
  BY <1>1, <1>2, OverviewQuiet DEF SlotOverview
<1>3. CASE \E e : rows' = Append(rows, e)
  <2>1. RowsAreSequence' /\ FloorHolds'
    <3>1. PICK e : rows' = Append(rows, e)
      BY <1>3
    <3>2. asked' = asked
      BY <1>1 DEF ofOverview
    <3>3. /\ RowsAreSequence' /\ Drinks(asked)' \in Nat /\ Drinks(asked) \in Nat
          /\ Drinks(asked)' >= Drinks(asked)
      BY <3>1, <3>2, DrinksGrow DEF OverviewInv, Drinks, Sums
    <3> QED BY <1>1, <3>3 DEF OverviewInv, FloorHolds, Uncrossed, ofOverview
  <2>2. (WaitsForAsked /\ RequestForAsked /\ AnswerForAsked /\ FiguresForAsked)'
    BY <1>1 DEF OverviewInv, WaitsForAsked, RequestForAsked, AnswerForAsked, FiguresForAsked,
                Uncrossed, ofOverview
  <2>3. OverviewIsTheirs'
    BY <1>1 DEF OverviewInv, OverviewIsTheirs, ofOverview
  <2> QED BY <2>1, <2>2, <2>3 DEF OverviewInv
<1> QED BY <1>1, <1>2, <1>3

LEMMA OverviewNext == OverviewInv /\ [Next]_vars => OverviewInv'
<1> SUFFICES ASSUME OverviewInv, [Next]_vars PROVE OverviewInv'
  OBVIOUS
<1> USE DEF householdVars, deviceVars, uiVars, screenVars, historyVars, ofOverview
<1>1. CASE UpdateIdle
  <2>1. SlotOverview
    BY <1>1 DEF UpdateIdle, StartWaitingSummary, StartPurchase, StartSync, NotYet,
                SendQueuedNow, Start, SlotOverview
  <2> QED BY <1>1, <2>1, OverviewQuiet DEF UpdateIdle
<1>2. CASE UpdateWaits
  BY <1>2, OverviewQuiet DEF UpdateWaits, SlotOverview
<1>3. CASE Post
  BY <1>3, OverviewQuiet DEF Post, SlotOverview
<1>4. CASE UpdateFailed
  BY <1>4, UpdateFailedStep
<1>5. CASE MySummaryArrives
  BY <1>5, MySummaryArrivesStep
<1>6. CASE SyncArrives \/ PurchaseArrives
  BY <1>6, OverviewQuiet DEF SyncArrives, PurchaseArrives, Finish, SlotOverview
<1>7. CASE AppUpdate
  BY <1>7, AppUpdateStep
<1>8. CASE SubmissionEnds \/ ProductSelected \/ ResidentSelected \/ Retry \/ Leave
  BY <1>8, Elsewhere DEF SubmissionEnds, ProductSelected, ResidentSelected, Retry, Leave,
                         EnqueuePurchase, Touch
<1>9. CASE NoTouch
  BY <1>9, OverviewQuiet DEF NoTouch, Touch, SlotOverview
<1>10. CASE ShowSummary
  BY <1>10, ShowSummaryStep
<1>11. CASE ServeRevision \/ ServeLists \/ ServePerson \/ ServeBusy
  <2>1. SlotOverview /\ UNCHANGED <<rows, ofOverview>>
    BY <1>11 DEF ServeRevision, ServeLists, ServePerson, ServeBusy, Reply, GetsTo, Remote,
                 SlotOverview
  <2> QED BY <2>1, OverviewQuiet
<1>12. CASE ServePurchase
  BY <1>12, ServePurchaseStep
<1>13. CASE ServeMySummary
  BY <1>13, ServeMySummaryStep
<1>14. CASE LinkFails
  BY <1>14, OverviewQuiet DEF LinkFails, Remote, SlotOverview
<1>15. CASE EditResidents
  BY <1>15, OverviewQuiet DEF EditResidents, SaveResident, BumpRevision, SaveDies,
                               ProductSaved, EditByHand, SlotOverview
<1>16. CASE UNCHANGED vars
  BY <1>16, OverviewQuiet DEF vars, SlotOverview
<1> QED BY <1>1, <1>2, <1>3, <1>4, <1>5, <1>6, <1>7, <1>8, <1>9, <1>10, <1>11, <1>12,
           <1>13, <1>14, <1>15, <1>16 DEF Next, LoopStep, BackendUpdate, Serve

\* An overview shows whose it is, and at least what was in the sheet when it
\* was opened, unless an earlier one was still on its way.
THEOREM OverviewCorrect == Spec => []OverviewIsTheirs
<1>1. OverviewInv => OverviewIsTheirs
  BY DEF OverviewInv
<1> QED BY <1>1, OverviewInit, OverviewNext, PTL DEF Spec

----------------------------------------------------------------------------
(* The redraw *)

PhaseOK == phase \in {"backend", "app", "ui"}

\* The overview was opened by the touch before, and nothing can have ended yet.
JustOpened ==
    /\ screen = "Summary" /\ my.state = "Loading" /\ phase # "ui"
    /\ (phase = "backend" /\ slot.op = "MySummary") => slot.net = "waiting"

\* A request for an overview is waited for, and app_state::update() has seen so.
LateIsLoading == ~blank /\ slot.op = "MySummary" => my.state = "Loading"

LoadingIsSeen == ~blank /\ my.state = "Loading" => last = "Loading" \/ JustOpened

\* What is drawn is the state there is, or update() will find out.
DrawnFollows ==
    screen = "Summary" /\ ~blank =>
        /\ my.state \in {"Loading", "Ready", "Unavailable"}
        /\ my.state = "Loading" => drawn.state = "Loading"
        /\ phase \in {"backend", "ui"} => drawn.state = my.state
        /\ phase = "app" => drawn.state = my.state \/ my.state # last

RedrawInv == PhaseOK /\ LateIsLoading /\ LoadingIsSeen /\ DrawnFollows

LEMMA RedrawInit == Init => RedrawInv
BY DEF Init, Free, NoRequest, NoFigures, RedrawInv, PhaseOK, JustOpened, LateIsLoading,
       LoadingIsSeen, DrawnFollows

\* backend::update() goes on with a request, or begins the next.
LEMMA BackendGoesOn ==
    ASSUME RedrawInv, Turn("backend", "app"), UNCHANGED <<my, screen, drawn, last, blank>>,
           slot'.op = "MySummary" => slot.op = "MySummary" \/ OverviewWaits
    PROVE  RedrawInv'
BY DEF RedrawInv, PhaseOK, JustOpened, LateIsLoading, LoadingIsSeen, DrawnFollows, Turn,
       OverviewWaits

\* A request has ended: what waits for it was loading, and seen to be.
LEMMA BackendEnds ==
    ASSUME RedrawInv, Turn("backend", "app"), UNCHANGED <<screen, drawn, last, blank>>,
           slot' = Free, slot.op = "MySummary", slot.net # "waiting",
           my'.state \in {"Ready", "Unavailable"}
    PROVE  RedrawInv'
<1>1. ~blank => last = "Loading"
  BY DEF RedrawInv, LateIsLoading, LoadingIsSeen, JustOpened, Turn
<1> QED BY <1>1 DEF RedrawInv, PhaseOK, JustOpened, LateIsLoading, LoadingIsSeen,
                    DrawnFollows, Turn, Free

\* app_state::update() looks.
LEMMA AppLooks == RedrawInv /\ AppUpdate => RedrawInv'
<1> SUFFICES ASSUME RedrawInv, AppUpdate PROVE RedrawInv'
  OBVIOUS
<1>1. UNCHANGED <<my, slot, screen, blank>> /\ phase = "app" /\ phase' = "ui" /\ Redraw
  BY DEF AppUpdate, Turn, historyVars
<1>2. screen = "Summary" /\ ~blank => drawn'.state = my.state
  BY <1>1 DEF RedrawInv, DrawnFollows, Redraw, Picture
<1>3. ~blank /\ my.state = "Loading" => last' = "Loading"
  BY <1>1 DEF RedrawInv, LoadingIsSeen, JustOpened, Redraw
<1> QED BY <1>1, <1>2, <1>3 DEF RedrawInv, PhaseOK, LateIsLoading, LoadingIsSeen,
                                DrawnFollows

\* A touch, or the end of a submission, that opens no overview.
LEMMA OtherScreens ==
    ASSUME RedrawInv, UNCHANGED <<my, last, blank>>, phase # "backend", PhaseOK',
           \/ screen' = screen /\ drawn' = drawn /\ phase = "ui" /\ phase' = "backend"
           \/ screen # "Summary" /\ screen' # "Summary"
           \/ phase = "ui" /\ screen' # "Summary",
           slot' = slot \/ slot'.op = "Purchase"
    PROVE  RedrawInv'
BY DEF RedrawInv, JustOpened, LateIsLoading, LoadingIsSeen, DrawnFollows

\* An overview is opened.
LEMMA OverviewOpens == RedrawInv /\ ShowSummary => RedrawInv'
<1> SUFFICES ASSUME RedrawInv, ShowSummary PROVE RedrawInv'
  OBVIOUS
<1> DEFINE p == At(index)
<1>1. /\ phase = "ui" /\ phase' = "backend" /\ screen' = "Summary" /\ last' = last
      /\ RequestMySummary(p) /\ drawn' = Picture(my', index)
      /\ ~blank' => ~blank /\ ~(p = NoOne /\ slot.op = "MySummary")
  BY DEF ShowSummary, Touch, Turn
<1>2. my'.state \in {"Loading", "Unavailable"} /\ drawn'.state = my'.state
  BY <1>1 DEF RequestMySummary, NoFigures, Picture
<1>3. CASE p = NoOne
  <2>1. my'.state = "Unavailable" /\ slot' = slot
    BY <1>1, <1>3 DEF RequestMySummary, NoFigures
  <2> QED BY <1>1, <1>2, <2>1, <1>3 DEF RedrawInv, PhaseOK, LateIsLoading, LoadingIsSeen, DrawnFollows
<1>4. CASE p # NoOne
  <2>1. /\ my'.state = "Loading"
        /\ IF slot.op = "None" THEN AskMySummary(p) ELSE slot' = slot
    BY <1>1, <1>4 DEF RequestMySummary, NoFigures
  <2>2. slot.op = "MySummary" /\ ~blank => last = "Loading"
    BY <1>1 DEF RedrawInv, LateIsLoading, LoadingIsSeen, JustOpened
  <2>3. slot.op # "MySummary" => JustOpened'
    BY <1>1, <2>1 DEF JustOpened, AskMySummary, Start
  <2>4. LateIsLoading' /\ LoadingIsSeen'
    BY <1>1, <2>1, <2>2, <2>3 DEF LateIsLoading, LoadingIsSeen
  <2> QED BY <1>1, <1>2, <2>4 DEF RedrawInv, PhaseOK, DrawnFollows
<1> QED BY <1>3, <1>4

\* The backend and the network: a request that was sent gets somewhere.
LEMMA RequestGetsOn ==
    ASSUME RedrawInv, UNCHANGED <<phase, my, screen, drawn, last, blank>>,
           slot' = slot \/ (slot'.op = slot.op /\ slot.net # "waiting")
    PROVE  RedrawInv'
BY DEF RedrawInv, PhaseOK, JustOpened, LateIsLoading, LoadingIsSeen, DrawnFollows

LEMMA RedrawNext == RedrawInv /\ [Next]_vars => RedrawInv'
<1> SUFFICES ASSUME RedrawInv, [Next]_vars PROVE RedrawInv'
  OBVIOUS
<1> USE DEF uiVars, screenVars, historyVars
<1>1. CASE UpdateIdle \/ UpdateWaits \/ Post
  <2>1. slot'.op = "MySummary" => slot.op = "MySummary" \/ OverviewWaits
    BY <1>1 DEF UpdateIdle, StartWaitingSummary, StartPurchase, StartSync, NotYet,
                SendQueuedNow, AskMySummary, Start, UpdateWaits, Post, GetsTo
  <2> QED BY <1>1, <2>1, BackendGoesOn DEF UpdateIdle, UpdateWaits, Post
<1>2. CASE UpdateFailed
  <2>1. /\ Turn("backend", "app") /\ slot' = Free /\ slot.net = "failed"
        /\ UNCHANGED <<screen, drawn, last, blank>>
        /\ my' = IF slot.op = "MySummary" THEN NoFigures("Unavailable", NoOne) ELSE my
    BY <1>2 DEF UpdateFailed, Failed, Finish
  <2>2. CASE slot.op = "MySummary"
    BY <2>1, <2>2, BackendEnds DEF NoFigures
  <2>3. CASE slot.op # "MySummary"
    BY <2>1, <2>3, BackendGoesOn DEF Free
  <2> QED BY <2>2, <2>3
<1>3. CASE MySummaryArrives
  BY <1>3, BackendEnds DEF MySummaryArrives, Answered, Finish
<1>4. CASE SyncArrives \/ PurchaseArrives
  BY <1>4, BackendGoesOn DEF SyncArrives, PurchaseArrives, Answered, Finish, Free
<1>5. CASE AppUpdate
  BY <1>5, AppLooks
<1>6. CASE SubmissionEnds
  BY <1>6, OtherScreens DEF SubmissionEnds, Turn, PhaseOK
<1>7. CASE NoTouch
  <2>1. /\ UNCHANGED <<my, last, blank>> /\ UNCHANGED slot
        /\ screen' = screen /\ drawn' = drawn
        /\ phase = "ui" /\ phase' = "backend"
    BY <1>7 DEF NoTouch, Touch, Turn
  <2> QED BY <2>1, OtherScreens DEF PhaseOK
<1>8. CASE ProductSelected \/ Leave \/ ResidentSelected \/ Retry
  <2>1. UNCHANGED <<my, last, blank>> /\ phase = "ui" /\ phase' = "backend"
    BY <1>8 DEF ProductSelected, Leave, ResidentSelected, Retry, Touch, Turn
  <2>2. screen' # "Summary"
    BY <1>8 DEF ProductSelected, Leave, ResidentSelected, Retry, EnqueuePurchase
  <2>3. slot' = slot \/ slot'.op = "Purchase"
    <3>1. CASE ProductSelected \/ Leave
      BY <3>1 DEF ProductSelected, Leave
    <3>2. CASE ResidentSelected \/ Retry
      <4>1. PICK t, i : EnqueuePurchase(t, i)
        BY <3>2 DEF ResidentSelected, Retry
      <4> QED BY <4>1 DEF EnqueuePurchase, SendQueuedNow, Start
    <3> QED BY <1>8, <3>1, <3>2
  <2> QED BY <2>1, <2>2, <2>3, OtherScreens DEF PhaseOK
<1>9. CASE ShowSummary
  BY <1>9, OverviewOpens
<1>10. CASE Serve
  <2>1. slot'.op = slot.op /\ slot.net # "waiting"
    BY <1>10 DEF Serve, ServeRevision, ServeLists, ServePerson, ServePurchase,
                 ServeBusy, ServeMySummary, Reply, GetsTo
  <2>2. Remote
    BY <1>10 DEF Serve, ServeRevision, ServeLists, ServePerson, ServePurchase, ServeBusy,
                 ServeMySummary
  <2> QED BY <2>1, <2>2, RequestGetsOn DEF Remote
<1>11. CASE LinkFails
  <2>1. slot'.op = slot.op /\ slot.net # "waiting"
    BY <1>11 DEF LinkFails, GetsTo
  <2> QED BY <1>11, <2>1, RequestGetsOn DEF LinkFails, Remote
<1>12. CASE EditResidents
  BY <1>12, RequestGetsOn DEF EditResidents
<1>13. CASE UNCHANGED vars
  BY <1>13, RequestGetsOn DEF vars
<1> QED BY <1>1, <1>2, <1>3, <1>4, <1>5, <1>6, <1>7, <1>8, <1>9, <1>10, <1>11, <1>12, <1>13
        DEF Next, LoopStep, BackendUpdate

\* The overview never shows the spinner once there is an answer, nor figures of
\* before: app_state::update() finds every change of the state, also when a
\* request for an earlier overview ends in front of it.
THEOREM RedrawCorrect == Spec => []OverviewIsDrawn
<1>1. RedrawInv => OverviewIsDrawn
  BY DEF RedrawInv, DrawnFollows, OverviewIsDrawn
<1> QED BY <1>1, RedrawInit, RedrawNext, PTL DEF Spec

----------------------------------------------------------------------------
(* Types, and that everything fits *)

Ranges ==
    /\ phase \in {"backend", "app", "ui"}
    /\ submission \in {"none", "watched", "stored", "refused",
                       "Success", "Unreachable", "Rejected"}
    /\ my.state \in {"Idle", "Loading", "Ready", "Unavailable"}
    /\ screen \in {"SelectingProduct", "SelectingUser", "Submitting",
                   "Success", "Error", "Summary"}

\* What is watched is a drink: finish() reports a sync and an overview as Idle,
\* which the submitting screen does not know.
SlotShape ==
    /\ slot.op \in {"None", "Sync", "Purchase", "MySummary"}
    /\ slot.net \in {"idle", "waiting", "sent", "reading", "answered", "failed"}
    /\ slot.op = "None" <=> slot.net = "idle"
    /\ submission = "watched" => slot.op = "Purchase"

ListsFit ==
    /\ Len(residents) <= MaxResidents
    /\ slot.op = "Sync" /\ slot.net = "answered" => Len(slot.answer.people) <= MaxResidents

QueueFits == (\E S : queue \in Seq(S)) /\ Len(queue) <= MaxQueued

OneRow == RowsAreSequence /\ \A i, j \in DOMAIN rows : rows[i].tx = rows[j].tx => i = j

FitInv == Ranges /\ SlotShape /\ ListsFit /\ QueueFits /\ OneRow

LEMMA FitInit == Init => FitInv
<1> SUFFICES ASSUME Init PROVE FitInv
  OBVIOUS
<1>1. Ranges /\ SlotShape /\ ListsFit
  BY InitialAssumption DEF Init, Ranges, SlotShape, ListsFit, Free, NoRequest, NoFigures
<1>2. QueueFits /\ OneRow
  <2>1. queue \in Seq({}) /\ queue = <<>> /\ rows = OldRows
    BY DEF Init
  <2> QED BY <2>1, InitialAssumption DEF QueueFits, OneRow, RowsAreSequence
<1> QED BY <1>1, <1>2 DEF FitInv

LEMMA RangesKept == FitInv /\ [Next]_vars => Ranges'
<1> SUFFICES ASSUME FitInv, [Next]_vars PROVE Ranges'
  OBVIOUS
<1> USE DEF Ranges, uiVars, screenVars
<1>1. CASE UpdateIdle \/ UpdateWaits \/ Post
  BY <1>1 DEF FitInv, UpdateIdle, UpdateWaits, Post, Turn
<1>2. CASE UpdateFailed
  BY <1>2 DEF FitInv, UpdateFailed, Failed, Finish, NoFigures, Turn
<1>3. CASE MySummaryArrives
  BY <1>3 DEF FitInv, SlotShape, MySummaryArrives, Answered, Finish, Turn
<1>4. CASE SyncArrives
  BY <1>4 DEF FitInv, SlotShape, SyncArrives, Answered, Finish, Turn
<1>5. CASE PurchaseArrives
  BY <1>5 DEF FitInv, PurchaseArrives, Answered, Finish, Turn
<1>6. CASE AppUpdate \/ SubmissionEnds
  BY <1>6 DEF FitInv, AppUpdate, SubmissionEnds, Turn
<1>7. CASE NoTouch \/ ProductSelected \/ Leave
  BY <1>7 DEF FitInv, NoTouch, ProductSelected, Leave, Touch, Turn
<1>8. CASE ResidentSelected \/ Retry
  <2>1. PICK t, i : EnqueuePurchase(t, i)
    BY <1>8 DEF ResidentSelected, Retry
  <2> QED BY <1>8, <2>1 DEF FitInv, ResidentSelected, Retry, EnqueuePurchase, Touch, Turn
<1>9. CASE ShowSummary
  BY <1>9 DEF FitInv, ShowSummary, RequestMySummary, NoFigures, Touch, Turn
<1>10. CASE Serve
  BY <1>10 DEF FitInv, Serve, ServeRevision, ServeLists, ServePerson, ServePurchase,
               ServeBusy, ServeMySummary, Remote
<1>11. CASE LinkFails \/ EditResidents \/ UNCHANGED vars
  BY <1>11 DEF FitInv, LinkFails, Remote, EditResidents, vars
<1> QED BY <1>1, <1>2, <1>3, <1>4, <1>5, <1>6, <1>7, <1>8, <1>9, <1>10, <1>11
        DEF Next, LoopStep, BackendUpdate

LEMMA SlotShapeKept == FitInv /\ [Next]_vars => SlotShape'
<1> SUFFICES ASSUME FitInv, [Next]_vars PROVE SlotShape'
  OBVIOUS
<1> USE DEF SlotShape, uiVars
<1>1. CASE UpdateIdle
  BY <1>1 DEF FitInv, UpdateIdle, StartWaitingSummary, StartPurchase, StartSync, NotYet,
              SendQueuedNow, AskMySummary, Start
<1>2. CASE UpdateWaits \/ Post
  BY <1>2 DEF FitInv, UpdateWaits, Post, GetsTo
<1>3. CASE UpdateFailed \/ MySummaryArrives \/ SyncArrives \/ PurchaseArrives
  <2>1. PICK r \in {"Idle", "Success", "Rejected", "Unreachable"} : Finish(r)
    BY <1>3 DEF UpdateFailed, Failed, MySummaryArrives, SyncArrives, PurchaseArrives
  <2>2. slot' = Free /\ submission' # "watched"
    BY <2>1 DEF Finish
  <2> QED BY <2>2 DEF Free
<1>4. CASE AppUpdate \/ SubmissionEnds
  BY <1>4 DEF FitInv, AppUpdate, SubmissionEnds
<1>5. CASE NoTouch \/ ProductSelected \/ Leave
  BY <1>5 DEF FitInv, NoTouch, ProductSelected, Leave
<1>6. CASE ResidentSelected \/ Retry
  <2>1. PICK t, i : EnqueuePurchase(t, i)
    BY <1>6 DEF ResidentSelected, Retry
  <2> QED BY <2>1 DEF FitInv, EnqueuePurchase, SendQueuedNow, Start
<1>7. CASE ShowSummary
  BY <1>7 DEF FitInv, ShowSummary, RequestMySummary, AskMySummary, Start
<1>8. CASE Serve
  <2>1. submission' = submission
    BY <1>8 DEF Serve, ServeRevision, ServeLists, ServePerson, ServePurchase, ServeBusy,
                ServeMySummary, Remote
  <2>2. slot'.op = slot.op /\ slot.net # "idle" /\ slot'.net \in {"reading", "answered"}
    BY <1>8 DEF Serve, ServeRevision, ServeLists, ServePerson, ServePurchase, ServeBusy,
                ServeMySummary, Reply, GetsTo
  <2> QED BY <2>1, <2>2 DEF FitInv
<1>9. CASE LinkFails
  BY <1>9 DEF FitInv, LinkFails, GetsTo, Remote
<1>10. CASE EditResidents \/ UNCHANGED vars
  BY <1>10 DEF FitInv, EditResidents, vars
<1> QED BY <1>1, <1>2, <1>3, <1>4, <1>5, <1>6, <1>7, <1>8, <1>9, <1>10
        DEF Next, LoopStep, BackendUpdate

\* handleSync_() cuts the list to what the terminal can hold.
LEMMA ServedFits == Len(Served) <= MaxResidents
<1> DEFINE active == ActiveRows(listed)
           n == IF Len(active) < MaxResidents THEN Len(active) ELSE MaxResidents
           S == {active[i].who : i \in 1 .. n}
<1>1. Len(active) \in Nat
  BY DEF ActiveRows
<1>2. n \in Nat /\ n <= MaxResidents
  BY <1>1, LimitsAssumption
<1> HIDE DEF active, n
<1>3. [i \in 1 .. n |-> active[i].who] \in Seq(S)
  BY <1>2
<1>4. Len([i \in 1 .. n |-> active[i].who]) = n
  BY <1>2, <1>3
<1> QED BY <1>2, <1>4 DEF Served, ServedOf, active, n

LEMMA ListsFitKept == FitInv /\ [Next]_vars => ListsFit'
<1> SUFFICES ASSUME FitInv, [Next]_vars PROVE ListsFit'
  OBVIOUS
<1> USE DEF ListsFit, deviceVars
<1>1. CASE UpdateIdle \/ UpdateWaits \/ Post
  <2>1. UNCHANGED residents /\ (slot' = slot \/ slot'.net # "answered")
    BY <1>1 DEF UpdateIdle, StartWaitingSummary, StartPurchase, StartSync, NotYet,
                SendQueuedNow, AskMySummary, Start, UpdateWaits, Post, GetsTo
  <2> QED BY <2>1 DEF FitInv
<1>2. CASE UpdateFailed \/ MySummaryArrives \/ PurchaseArrives
  BY <1>2 DEF FitInv, UpdateFailed, Failed, MySummaryArrives, PurchaseArrives, Finish, Free
<1>3. CASE SyncArrives
  BY <1>3 DEF FitInv, SyncArrives, Answered, ApplySync, Finish, Free
<1>4. CASE AppUpdate \/ SubmissionEnds
  BY <1>4 DEF FitInv, AppUpdate, SubmissionEnds
<1>5. CASE NoTouch \/ ProductSelected \/ Leave
  BY <1>5 DEF FitInv, NoTouch, ProductSelected, Leave, Touch
<1>6. CASE ResidentSelected \/ Retry
  <2>1. PICK t, i : EnqueuePurchase(t, i)
    BY <1>6 DEF ResidentSelected, Retry
  <2>2. UNCHANGED residents
    BY <1>6 DEF ResidentSelected, Retry, Touch
  <2> QED BY <2>1, <2>2 DEF FitInv, EnqueuePurchase, SendQueuedNow, Start
<1>7. CASE ShowSummary
  BY <1>7 DEF FitInv, ShowSummary, RequestMySummary, AskMySummary, Start, Touch
<1>8. CASE ServeLists
  <2>1. Len(<<>>) <= MaxResidents
    BY LimitsAssumption
  <2>2. Len(slot'.answer.people) <= MaxResidents
    BY <1>8, <2>1, ServedFits DEF ServeLists, Reply, GetsTo
  <2> QED BY <1>8, <2>2 DEF FitInv, ServeLists, Remote
<1>9. CASE \/ ServeRevision \/ ServePerson \/ ServePurchase \/ ServeBusy
           \/ ServeMySummary \/ LinkFails
  <2>1. UNCHANGED residents /\ ~(slot'.op = "Sync" /\ slot'.net = "answered")
    BY <1>9 DEF ServeRevision, ServePerson, ServePurchase, ServeBusy, ServeMySummary, LinkFails,
                Reply, GetsTo, Remote
  <2> QED BY <2>1 DEF FitInv
<1>10. CASE EditResidents \/ UNCHANGED vars
  BY <1>10 DEF FitInv, EditResidents, vars
<1> QED BY <1>1, <1>2, <1>3, <1>4, <1>5, <1>6, <1>7, <1>8, <1>9, <1>10
        DEF Next, LoopStep, BackendUpdate, Serve

LEMMA QueueFitsKept == FitInv /\ [Next]_vars => QueueFits'
<1> SUFFICES ASSUME FitInv, [Next]_vars PROVE QueueFits'
  OBVIOUS
<1> USE DEF QueueFits, deviceVars
<1>1. PICK S : queue \in Seq(S)
  BY DEF FitInv
<1>2. CASE UNCHANGED queue
  BY <1>2 DEF FitInv
<1>3. CASE PurchaseArrives
  <2>1. queue' = queue \/ (queue # <<>> /\ queue' = Tail(queue))
    BY <1>3 DEF PurchaseArrives
  <2>2. queue # <<>> => Tail(queue) \in Seq(S) /\ Len(Tail(queue)) = Len(queue) - 1
    BY <1>1
  <2>3. Len(queue) \in Nat /\ MaxQueued \in Nat
    BY <1>1, InitialAssumption
  <2> QED BY <2>1, <2>2, <2>3, <1>2 DEF FitInv
<1>4. CASE ResidentSelected \/ Retry
  <2>1. PICK t, i : EnqueuePurchase(t, i)
    BY <1>4 DEF ResidentSelected, Retry
  <2> DEFINE e == [tx |-> t, who |-> At(i)]
  <2>2. CASE Len(queue) >= MaxQueued
    BY <2>1, <2>2, <1>2 DEF EnqueuePurchase
  <2>3. CASE ~(Len(queue) >= MaxQueued)
    <3>1. queue' = Append(queue, e)
      BY <2>1, <2>3 DEF EnqueuePurchase
    <3>2. queue \in Seq(S \cup {e}) /\ e \in S \cup {e}
      BY <1>1
    <3>3. queue' \in Seq(S \cup {e}) /\ Len(queue') = Len(queue) + 1 /\ Len(queue) \in Nat
      BY <3>1, <3>2
    <3> QED BY <2>3, <3>3, InitialAssumption
  <2> QED BY <2>2, <2>3
<1>5. BackendUpdate /\ ~PurchaseArrives => UNCHANGED queue
  BY DEF BackendUpdate, UpdateIdle, UpdateWaits, Post, UpdateFailed, MySummaryArrives,
         SyncArrives
<1>6. AppUpdate \/ SubmissionEnds \/ NoTouch \/ ProductSelected \/ ShowSummary \/ Leave
          => UNCHANGED queue
  BY DEF AppUpdate, SubmissionEnds, NoTouch, ProductSelected, ShowSummary, Leave
<1>7. Serve \/ LinkFails \/ EditResidents \/ UNCHANGED vars => UNCHANGED queue
  BY DEF Serve, ServeRevision, ServeLists, ServePerson, ServePurchase, ServeBusy,
         ServeMySummary, LinkFails, Remote, EditResidents, vars
<1> QED BY <1>2, <1>3, <1>4, <1>5, <1>6, <1>7 DEF Next, LoopStep

\* handleRecordPurchase_() looks for the transaction under the lock.
LEMMA OneRowKept == FitInv /\ [Next]_vars => OneRow'
<1> SUFFICES ASSUME FitInv, [Next]_vars PROVE OneRow'
  OBVIOUS
<1> USE DEF OneRow, householdVars
<1>1. CASE UNCHANGED rows
  BY <1>1 DEF FitInv, RowsAreSequence
<1>2. CASE ServePurchase
  <2>1. \/ rows' = rows
        \/ \E e : rows' = Append(rows, e) /\ \A i \in DOMAIN rows : rows[i].tx # e.tx
    BY <1>2 DEF ServePurchase, RecordPurchase, RowOf
  <2>2. CASE \E e : rows' = Append(rows, e) /\ \A i \in DOMAIN rows : rows[i].tx # e.tx
    <3>1. PICK e : rows' = Append(rows, e) /\ \A i \in DOMAIN rows : rows[i].tx # e.tx
      BY <2>2
    <3>2. PICK S : rows \in Seq(S)
      BY DEF FitInv, RowsAreSequence
    <3>3. rows \in Seq(S \cup {e}) /\ e \in S \cup {e}
      BY <3>2
    <3>4. rows' \in Seq(S \cup {e})
      BY <3>1, <3>3
    <3>5. /\ DOMAIN rows = 1 .. Len(rows) /\ Len(rows) \in Nat
          /\ DOMAIN rows' = 1 .. (Len(rows) + 1)
          /\ \A i \in 1 .. Len(rows) : rows'[i] = rows[i]
          /\ rows'[Len(rows) + 1] = e
      BY <3>1, <3>3
    <3>6. \A i \in DOMAIN rows' : i \in DOMAIN rows \/ i = Len(rows) + 1
      BY <3>5
    <3>7. \A i, j \in DOMAIN rows' : rows'[i].tx = rows'[j].tx => i = j
      BY <3>1, <3>5, <3>6 DEF FitInv
    <3> QED BY <3>4, <3>7 DEF RowsAreSequence
  <2> QED BY <2>1, <2>2, <1>1
<1>3. BackendUpdate \/ AppUpdate \/ SubmissionEnds => UNCHANGED rows
  BY DEF BackendUpdate, UpdateIdle, UpdateWaits, Post, UpdateFailed, MySummaryArrives,
         SyncArrives, PurchaseArrives, AppUpdate, SubmissionEnds
<1>4. NoTouch \/ ProductSelected \/ ResidentSelected \/ Retry \/ ShowSummary \/ Leave
          => UNCHANGED rows
  BY DEF NoTouch, ProductSelected, ResidentSelected, Retry, ShowSummary, Leave, Touch
<1>5. ServeRevision \/ ServeLists \/ ServePerson \/ ServeBusy \/ ServeMySummary \/ LinkFails
          => UNCHANGED rows
  BY DEF ServeRevision, ServeLists, ServePerson, ServeBusy, ServeMySummary, LinkFails
<1>6. EditResidents \/ UNCHANGED vars => UNCHANGED rows
  BY DEF EditResidents, SaveResident, BumpRevision, SaveDies, ProductSaved, EditByHand, vars
<1> QED BY <1>1, <1>2, <1>3, <1>4, <1>5, <1>6 DEF Next, LoopStep, Serve

\* Lists and queue never outgrow their arrays, the slot is taken as long as a
\* request is under way, and a transaction has one row at most, for any number of
\* people, edits, drinks and retries.
THEOREM HouseholdTypes == Spec => []TypeOK
<1>1. FitInv /\ [Next]_vars => FitInv'
  BY RangesKept, SlotShapeKept, ListsFitKept, QueueFitsKept, OneRowKept DEF FitInv
<1>2. FitInv => TypeOK
  BY DEF FitInv, Ranges, SlotShape, ListsFit, QueueFits, OneRow, TypeOK
<1> QED BY <1>1, <1>2, FitInit, PTL DEF Spec

=============================================================================
