--------------------------- MODULE TerminalSafety ---------------------------
(***************************************************************************)
(* What holds of the terminal whatever its surroundings do, for every set  *)
(* of transactions, every capacity of the queue and every choice of events *)
(* around the program.                                                     *)
(*                                                                         *)
(* First the lemmas about the operators of TransactionQueue that all       *)
(* proofs about the terminal use: what they return is a queue of the same  *)
(* entries, no longer than it was, and what they keep is kept in order.    *)
(* Then type correctness.  TypeOK is not inductive: the confirmation, the  *)
(* error and the waiting screens use the transaction they are about, so    *)
(* the invariant also says that there is one while such a screen is up.    *)
(*                                                                         *)
(* Then what the layers of the loop do to the slot and to the queue, and   *)
(* from it the safety of the slot: an outcome is that of the operation     *)
(* that holds it, a screen that waits never reads an earlier attempt's     *)
(* result, and Undo always finds room for its reversal.                    *)
(***************************************************************************)
EXTENDS Terminal, SequenceTheorems, WellFoundedInduction, TLAPS

----------------------------------------------------------------------------
(* What the operators of TransactionQueue return *)

\* Every non-empty set of natural numbers has a least element: what lets
\* remove_purchase() speak of the first matching entry.
LEMMA LeastElement ==
    ASSUME NEW T \in SUBSET Nat, T # {}
    PROVE  \E x \in T : \A y \in T : x <= y
<1> DEFINE R == OpToRel(<, Nat)
<1>1. IsWellFoundedOn(R, Nat)
  BY NatLessThanWellFounded
<1>2. \A x, y \in Nat : (<<y, x>> \in R) <=> y < x
  BY SMT DEF OpToRel
<1>3. \E x \in T : \A y \in T : ~ (<<y, x>> \in R)
  <2> HIDE DEF R
  <2> QED BY <1>1, WFMin
<1> HIDE DEF R
<1>4. PICK x \in T : \A y \in T : ~ (<<y, x>> \in R)
  BY <1>3
<1>5. \A y \in T : x <= y
  <2> TAKE y \in T
  <2>1. x \in Nat /\ y \in Nat
    OBVIOUS
  <2>2. ~ (y < x)
    BY <1>2, <1>4, <2>1
  <2> QED BY <2>1, <2>2
<1> QED BY <1>5

\* Dropping a position leaves a queue of the same entries, one shorter.
LEMMA WithoutProperties ==
    ASSUME NEW S, NEW q \in Seq(S), NEW i \in 1 .. Len(q)
    PROVE  /\ Without(q, i) \in Seq(S)
           /\ Len(Without(q, i)) = Len(q) - 1
           /\ \A j \in 1 .. Len(q) - 1 :
                Without(q, i)[j] = IF j < i THEN q[j] ELSE q[j + 1]
<1>1. Len(q) \in Nat /\ Len(q) - 1 \in Nat /\ \A j \in 1 .. Len(q) : q[j] \in S
  BY LenProperties, ElementOfSeq
<1> DEFINE w == [j \in 1 .. (Len(q) - 1) |-> IF j < i THEN q[j] ELSE q[j + 1]]
<1>2. w \in [1 .. (Len(q) - 1) -> S]
  BY <1>1
<1>3. w \in Seq(S)
  BY <1>1, <1>2, SeqDef
<1>4. Len(w) = Len(q) - 1
  BY <1>1, <1>3, LenProperties
<1> QED BY <1>3, <1>4 DEF Without

\* pop() keeps everything behind the head, in order.
LEMMA PoppedProperties ==
    ASSUME NEW S, NEW q \in Seq(S)
    PROVE  /\ Popped(q) \in Seq(S)
           /\ Len(Popped(q)) <= Len(q)
           /\ q # <<>> => /\ Len(Popped(q)) = Len(q) - 1
                          /\ \A j \in 1 .. Len(q) - 1 : Popped(q)[j] = q[j + 1]
<1>1. CASE q = <<>>
  BY <1>1, EmptySeq DEF Popped
<1>2. CASE q # <<>>
  <2>1. Len(q) \in Nat /\ 1 \in 1 .. Len(q)
    BY <1>2, EmptySeq, LenProperties
  <2>2. Popped(q) = Without(q, 1)
    BY <1>2 DEF Popped
  <2>3. /\ Without(q, 1) \in Seq(S)
        /\ Len(Without(q, 1)) = Len(q) - 1
        /\ \A j \in 1 .. Len(q) - 1 :
             Without(q, 1)[j] = IF j < 1 THEN q[j] ELSE q[j + 1]
    BY <2>1, WithoutProperties
  <2>4. \A j \in 1 .. Len(q) - 1 : Without(q, 1)[j] = q[j + 1]
    BY <2>1, <2>3
  <2> QED BY <2>1, <2>2, <2>3, <2>4
<1> QED BY <1>1, <1>2

\* remove_purchase() finds the first matching entry if there is one.
LEMMA FirstPurchaseProperties ==
    ASSUME NEW S, NEW q \in Seq(S), NEW t, HoldsPurchase(q, t)
    PROVE  /\ FirstPurchase(q, t) \in 1 .. Len(q)
           /\ q[FirstPurchase(q, t)] = Purchase(t)
           /\ \A j \in 1 .. (FirstPurchase(q, t) - 1) : q[j] # Purchase(t)
<1>1. DOMAIN q = 1 .. Len(q) /\ Len(q) \in Nat
  BY LenProperties
<1> DEFINE T == {i \in 1 .. Len(q) : q[i] = Purchase(t)}
<1>2. T # {} /\ T \in SUBSET Nat
  BY <1>1 DEF HoldsPurchase
<1>3. PICK i \in T : \A j \in T : i <= j
  <2> HIDE DEF T
  <2> QED BY <1>2, LeastElement
<1>4. \A j \in 1 .. (i - 1) : q[j] # Purchase(t)
  BY <1>1, <1>3
<1>5. \E k \in DOMAIN q : q[k] = Purchase(t) /\ \A j \in 1 .. (k - 1) : q[j] # Purchase(t)
  BY <1>1, <1>3, <1>4
<1> QED BY <1>1, <1>5 DEF FirstPurchase

\* So what it leaves is again a queue of the same entries, one shorter.
LEMMA WithoutPurchaseProperties ==
    ASSUME NEW S, NEW q \in Seq(S), NEW t, HoldsPurchase(q, t)
    PROVE  /\ WithoutPurchase(q, t) \in Seq(S)
           /\ Len(WithoutPurchase(q, t)) = Len(q) - 1
BY FirstPurchaseProperties, WithoutProperties DEF WithoutPurchase

\* An entry that joins a queue that is not full fits.
LEMMA AppendFits ==
    ASSUME NEW S, NEW q \in Seq(S), NEW e \in S, ~Full(q)
    PROVE  /\ Append(q, e) \in Seq(S)
           /\ Append(q, e) # <<>>
           /\ Len(Append(q, e)) = Len(q) + 1
           /\ Len(Append(q, e)) <= MaxQueued
           /\ \A i \in 1 .. Len(q) : Append(q, e)[i] = q[i]
           /\ Append(q, e)[Len(q) + 1] = e
<1>1. Len(q) \in Nat /\ MaxQueued \in Nat
  BY LenProperties, MaxQueuedAssumption
<1>2. Len(q) < MaxQueued
  BY <1>1 DEF Full
<1> QED BY <1>1, <1>2, AppendProperties

----------------------------------------------------------------------------
(* The invariant *)

ScreenHasTx == screen \in {"Submitting", "Undoing", "Success", "Error"} => tx \in Tx

TypeInv == TypeOK /\ ScreenHasTx

----------------------------------------------------------------------------
(* What the shared operators do to the types *)

\* Variables that stay the same keep their types.
LEMMA Frames ==
    /\ SheetTypeOK /\ UNCHANGED sheetVars => SheetTypeOK'
    /\ ApiTypeOK /\ UNCHANGED apiVars => ApiTypeOK'
    /\ QueueTypeOK /\ UNCHANGED queueVars => QueueTypeOK'
    /\ SlotTypeOK /\ UNCHANGED slotVars => SlotTypeOK'
<1>1. SheetTypeOK /\ UNCHANGED sheetVars => SheetTypeOK'
  BY DEF SheetTypeOK, sheetVars
<1>2. ApiTypeOK /\ UNCHANGED apiVars => ApiTypeOK'
  BY DEF ApiTypeOK, apiVars
<1>3. QueueTypeOK /\ UNCHANGED queueVars => QueueTypeOK'
  BY DEF QueueTypeOK, queueVars
<1>4. SlotTypeOK /\ UNCHANGED slotVars => SlotTypeOK'
  BY DEF SlotTypeOK, slotVars
<1> QED BY <1>1, <1>2, <1>3, <1>4

\* backendVars is the slot and three flags.
LEMMA BackendFrame ==
    UNCHANGED backendVars => UNCHANGED slotVars /\ UNCHANGED <<backoff, wanted, active>>
BY DEF backendVars, slotVars

LEMMA BackendTypeFrame == BackendTypeOK /\ UNCHANGED backendVars => BackendTypeOK'
BY BackendFrame, Frames DEF BackendTypeOK

LEMMA AppFrame ==
    AppTypeOK /\ ScreenHasTx /\ UNCHANGED appVars => AppTypeOK' /\ ScreenHasTx'
BY DEF AppTypeOK, ScreenHasTx, appVars

\* A queue that is flushed, or waits for the flush, is well typed with its file.
LEMMA StoreType ==
    ASSUME QueueTypeOK,
           NEW q \in Seq(Entry), Len(q) <= MaxQueued,
           NEW faults,
           Store(q, faults) \/ ChangeInMemory(q)
    PROVE  QueueTypeOK'
<1>1. <<>> \in Seq(Entry) /\ Len(<<>>) <= MaxQueued
  BY EmptySeq, MaxQueuedAssumption
<1>2. CASE Store(q, faults)
  BY <1>1, <1>2 DEF Store, Flush, QueueTypeOK
<1>3. CASE ChangeInMemory(q)
  BY <1>3 DEF ChangeInMemory, QueueTypeOK
<1> QED BY <1>2, <1>3

\* pop() keeps the queue well typed.
LEMMA PopType ==
    ASSUME QueueTypeOK, ChangeInMemory(Popped(queue))
    PROVE  QueueTypeOK'
<1>1. Len(queue) \in Nat /\ Len(Popped(queue)) \in Nat /\ MaxQueued \in Nat
  BY LenProperties, PoppedProperties, MaxQueuedAssumption DEF QueueTypeOK
<1>2. Popped(queue) \in Seq(Entry) /\ Len(Popped(queue)) <= MaxQueued
  BY <1>1, PoppedProperties DEF QueueTypeOK
<1> QED BY <1>2, StoreType

\* An operation is started, or finished.
LEMMA StartType ==
    ASSUME NEW o \in Ops, NEW r \in Request, Start(o, r)
    PROVE  SlotTypeOK'
BY DEF Start, SlotTypeOK, Results

LEMMA StartSyncType ==
    ASSUME SlotTypeOK, StartSync
    PROVE  SlotTypeOK'
BY DEF StartSync, SlotTypeOK, Ops, Request

LEMMA FinishType ==
    ASSUME ApiTypeOK, NEW r \in Results, Finish(r)
    PROVE  SlotTypeOK' /\ ApiTypeOK'
BY DEF Finish, ResetClient, SlotTypeOK, ApiTypeOK, Ops, Results, Request, Answers

LEMMA SendQueuedNowType ==
    ASSUME SlotTypeOK, NEW q \in Seq(Entry), NEW r \in Results, SendQueuedNow(q, r)
    PROVE  SlotTypeOK'
<1>1. CASE op = "None" /\ q # <<>> /\ Start(OpFor(q[1]), q[1])
  <2>1. q[1] \in Entry
    BY <1>1, EmptySeq, ElementOfSeq
  <2>2. q[1] \in Request /\ OpFor(q[1]) \in Ops
    BY <2>1 DEF Request, OpFor, Ops
  <2> QED BY <1>1, <2>2, StartType
<1>2. CASE result' = r /\ UNCHANGED <<op, posted, request, expired>>
  BY <1>2 DEF SlotTypeOK
<1> QED BY <1>1, <1>2 DEF SendQueuedNow

\* An entry is pushed, stored and sent, or refused.
LEMMA EnqueueType ==
    ASSUME QueueTypeOK, SlotTypeOK, failNext \in BOOLEAN,
           NEW e \in Entry,
           NEW r \in Results,
           Enqueue(e, r)
    PROVE  /\ QueueTypeOK' /\ SlotTypeOK'
           /\ simulated' \in BOOLEAN /\ deferred' \in BOOLEAN /\ failNext' \in BOOLEAN
<1>1. CASE Full(queue)
  BY <1>1 DEF Enqueue, QueueTypeOK, SlotTypeOK, Refused, queueVars
<1>2. CASE ~Full(queue)
  <2>1. Append(queue, e) \in Seq(Entry) /\ Len(Append(queue, e)) <= MaxQueued
    BY <1>2, AppendFits DEF QueueTypeOK
  <2>2. Store(Append(queue, e), Env) /\ SendQueuedNow(Append(queue, e), r)
    BY <1>2 DEF Enqueue
  <2>3. QueueTypeOK'
    BY <2>1, <2>2, StoreType
  <2>4. SlotTypeOK'
    BY <2>1, <2>2, SendQueuedNowType
  <2> QED BY <1>2, <2>3, <2>4 DEF Enqueue, Watching, Deferred
<1> QED BY <1>1, <1>2

\* A reversal removes the queued purchase, or is pushed like a purchase.
LEMMA EnqueueUndoType ==
    ASSUME QueueTypeOK, SlotTypeOK, failNext \in BOOLEAN, tx \in Tx,
           EnqueueUndo
    PROVE  /\ QueueTypeOK' /\ SlotTypeOK'
           /\ simulated' \in BOOLEAN /\ deferred' \in BOOLEAN /\ failNext' \in BOOLEAN
<1>1. CASE HoldsPurchase(queue, tx)
  <2>1. /\ WithoutPurchase(queue, tx) \in Seq(Entry)
        /\ Len(WithoutPurchase(queue, tx)) = Len(queue) - 1
    BY <1>1, WithoutPurchaseProperties DEF QueueTypeOK
  <2>2. Len(queue) \in Nat /\ MaxQueued \in Nat
    BY LenProperties, MaxQueuedAssumption DEF QueueTypeOK
  <2>3. Len(WithoutPurchase(queue, tx)) <= MaxQueued
    BY <2>1, <2>2 DEF QueueTypeOK
  <2>4. Store(WithoutPurchase(queue, tx), Env) /\ NoBackend /\ UNCHANGED slotVars
    BY <1>1 DEF EnqueueUndo
  <2>5. QueueTypeOK'
    BY <2>1, <2>3, <2>4, StoreType
  <2> QED BY <2>4, <2>5 DEF NoBackend, slotVars, SlotTypeOK
<1>2. CASE ~HoldsPurchase(queue, tx)
  <2>1. Void(tx) \in Entry
    BY DEF Void, Entry, Transaction
  <2>2. Enqueue(Void(tx), result)
    BY <1>2 DEF EnqueueUndo
  <2> QED BY <2>1, <2>2, EnqueueType DEF SlotTypeOK
<1> QED BY <1>1, <1>2

----------------------------------------------------------------------------
(* Every step keeps the types *)

LEMMA InitTypeInv == Init => TypeInv
<1> SUFFICES ASSUME Init PROVE TypeInv
  OBVIOUS
<1>1. <<>> \in Seq(Entry) /\ Len(<<>>) <= MaxQueued
  BY EmptySeq, MaxQueuedAssumption
<1>2. QueueTypeOK
  BY <1>1 DEF Init, QueueInit, QueueTypeOK
<1>3. SheetTypeOK /\ ApiTypeOK /\ BackendTypeOK
  BY DEF Init, SheetInit, ApiInit, BackendInit, SheetTypeOK, ApiTypeOK, BackendTypeOK,
         SlotTypeOK, Ops, Results, Request, SyncRequest, NoRequest, Answers
<1>4. AppTypeOK /\ phase \in Phases
  BY DEF Init, AppInit, AppTypeOK, Screens, Phases
<1> QED BY <1>2, <1>3, <1>4 DEF TypeInv, TypeOK, ScreenHasTx, Init, AppInit

LEMMA StutterTypeInv == TypeInv /\ UNCHANGED vars => TypeInv'
<1> SUFFICES ASSUME TypeInv, UNCHANGED vars PROVE TypeInv'
  OBVIOUS
<1>1. /\ UNCHANGED appVars /\ UNCHANGED backendVars /\ UNCHANGED apiVars
      /\ UNCHANGED sheetVars /\ UNCHANGED queueVars /\ phase' = phase
  BY DEF vars
<1> QED BY <1>1, Frames, BackendTypeFrame, AppFrame DEF TypeInv, TypeOK

LEMMA BackendUpdateKeepsTypeInv == TypeInv /\ BackendUpdate => TypeInv'
<1> SUFFICES ASSUME TypeInv, BackendUpdate PROVE TypeInv'
  OBVIOUS
<1> USE DEF BackendTurn
<1>1. UNCHANGED appVars /\ phase' \in Phases
  BY DEF BackendUpdate, BackendTurn, Turn, Phases
<1>2. SheetTypeOK /\ ApiTypeOK /\ QueueTypeOK /\ SlotTypeOK /\ BackendTypeOK
  BY DEF TypeInv, TypeOK, BackendTypeOK
<1>3. "Idle" \in Results /\ "Success" \in Results /\ "Rejected" \in Results /\ "Unreachable" \in Results
      /\ "MySummary" \in Ops /\ SummaryRequest \in Request
  BY DEF Results, Ops, Request
<1>4. SheetTypeOK' /\ ApiTypeOK' /\ QueueTypeOK' /\ BackendTypeOK'
  <2>1. CASE BackendTurn(FetchSummary)
    BY <2>1, Frames, <1>2, <1>3, StartType DEF FetchSummary, BackendTypeOK
  <2>2. CASE BackendTurn(DrainQueue)
    <3>1. SlotTypeOK'
      BY <2>2, <1>2, SendQueuedNowType DEF DrainQueue, QueueTypeOK, SlotTypeOK
    <3> QED BY <2>2, <1>2, <3>1, Frames DEF DrainQueue, BackendTypeOK
  <2>3. CASE BackendTurn(PeriodicSync)
    BY <2>3, Frames, <1>2, StartSyncType DEF PeriodicSync, BackendTypeOK
  <2>4. CASE BackendTurn(PostRequest)
    <3>1. ApiTypeOK' /\ SlotTypeOK'
      BY <2>4, <1>2 DEF PostRequest, Post, ApiTypeOK, SlotTypeOK, Answers
    <3> QED BY <2>4, <1>2, <3>1, Frames DEF PostRequest, BackendTypeOK
  <2>5. CASE BackendTurn(PostRefused)
    BY <2>5, Frames, <1>2, <1>3, FinishType DEF PostRefused, NoteSendFailure, BackendTypeOK
  <2>6. CASE BackendTurn(GiveUpOnRadio)
    BY <2>6, Frames, <1>2, <1>3, FinishType DEF GiveUpOnRadio, NoteSendFailure, SummaryUnavailable, BackendTypeOK
  <2>7. CASE BackendTurn(RequestFailed)
    BY <2>7, Frames, <1>2, <1>3, FinishType DEF RequestFailed, NoteSendFailure, SummaryUnavailable, BackendTypeOK
  <2>8. CASE BackendTurn(SummaryArrives)
    BY <2>8, Frames, <1>2, <1>3, FinishType DEF SummaryArrives, BackendTypeOK
  <2>9. CASE BackendTurn(SyncArrives)
    BY <2>9, Frames, <1>2, <1>3, FinishType DEF SyncArrives, BackendTypeOK
  <2>10. CASE BackendTurn(AckOk)
    BY <2>10, Frames, <1>2, <1>3, FinishType, PopType DEF AckOk, BackendTypeOK
  <2>11. CASE BackendTurn(AckRejected)
    BY <2>11, Frames, <1>2, <1>3, FinishType, PopType DEF AckRejected, BackendTypeOK
  <2>12. CASE BackendTurn(AckUnreadable)
    BY <2>12, Frames, <1>2, <1>3, FinishType DEF AckUnreadable, NoteSendFailure, BackendTypeOK
  <2>13. CASE BackendTurn(BackendIdle)
    BY <2>13, Frames, <1>2, BackendTypeFrame DEF BackendIdle, BackendTypeOK
  <2> QED BY <2>1, <2>2, <2>3, <2>4, <2>5, <2>6, <2>7, <2>8, <2>9, <2>10, <2>11, <2>12, <2>13 DEF BackendUpdate
<1> QED BY <1>1, <1>2, <1>3, <1>4, AppFrame DEF TypeInv, TypeOK

LEMMA AppUpdateKeepsTypeInv == TypeInv /\ AppUpdate => TypeInv'
<1> SUFFICES ASSUME TypeInv, AppUpdate PROVE TypeInv'
  OBVIOUS
<1> USE DEF AppTurn
<1>1. /\ phase' \in Phases
      /\ UNCHANGED apiVars /\ UNCHANGED sheetVars /\ UNCHANGED queueVars
      /\ UNCHANGED <<backoff, wanted, active>>
  BY BackendFrame DEF AppUpdate, AppTurn, Turn, Phases, PollSucceeds, PollFails, SubmitTimer, UndoTimer,
         Dwell, AppIdle, restVars
<1>2. SlotTypeOK /\ AppTypeOK /\ ScreenHasTx /\ BackendTypeOK
  BY DEF TypeInv, TypeOK, BackendTypeOK
<1>3. SlotTypeOK' /\ AppTypeOK' /\ ScreenHasTx'
  <2>1. CASE AppTurn(PollSucceeds)
    BY <2>1, <1>2 DEF PollSucceeds, AwaitsResult, ShowBooked, ShowUndone, Tell, AppTypeOK, ScreenHasTx, Screens, SlotTypeOK, Results
  <2>2. CASE AppTurn(PollFails)
    BY <2>2, <1>2 DEF PollFails, AwaitsResult, historyVars, AppTypeOK, ScreenHasTx, Screens, SlotTypeOK, Results
  <2>3. CASE AppTurn(SubmitTimer)
    BY <2>3, <1>2, Frames DEF SubmitTimer, ShowBooked, Tell, AppTypeOK, ScreenHasTx, Screens
  <2>4. CASE AppTurn(UndoTimer)
    BY <2>4, <1>2, Frames DEF UndoTimer, ShowUndone, Tell, AppTypeOK, ScreenHasTx, Screens
  <2>5. CASE AppTurn(Dwell)
    BY <2>5, <1>2, Frames DEF Dwell, BackToCatalog, historyVars, AppTypeOK, ScreenHasTx, Screens
  <2>6. CASE AppTurn(AppIdle)
    BY <2>6, <1>2, Frames, BackendFrame, AppFrame DEF AppIdle
  <2> QED BY <2>1, <2>2, <2>3, <2>4, <2>5, <2>6 DEF AppUpdate
<1> QED BY <1>1, <1>2, <1>3, Frames DEF TypeInv, TypeOK, BackendTypeOK

LEMMA UiEventKeepsTypeInv == TypeInv /\ UiEvent => TypeInv'
<1> SUFFICES ASSUME TypeInv, UiEvent PROVE TypeInv'
  OBVIOUS
<1> USE DEF UiTurn
<1>1. phase' \in Phases
  BY DEF UiEvent, UiTurn, Turn, Phases
<1>2. /\ SheetTypeOK /\ ApiTypeOK /\ QueueTypeOK /\ SlotTypeOK /\ BackendTypeOK
      /\ AppTypeOK /\ ScreenHasTx /\ failNext \in BOOLEAN
  BY DEF TypeInv, TypeOK, BackendTypeOK, AppTypeOK
<1>3. /\ SheetTypeOK' /\ ApiTypeOK' /\ QueueTypeOK' /\ BackendTypeOK'
      /\ AppTypeOK' /\ ScreenHasTx'
  <2>1. CASE UiTurn(TapProduct)
    BY <2>1, <1>2, Frames DEF TapProduct, AppTypeOK, ScreenHasTx, Screens, contextVars, historyVars, restVars, BackendTypeOK
  <2>2. CASE \E t \in Tx : UiTurn(TapResident(t))
    <3>1. PICK t \in Tx : UiTurn(TapResident(t))
      BY <2>2
    <3>2. Enqueue(Purchase(t), "Idle") /\ Purchase(t) \in Entry /\ "Idle" \in Results
      BY <3>1 DEF TapResident, EnqueuePurchase, Purchase, Entry, Transaction, Results
    <3>3. /\ QueueTypeOK' /\ SlotTypeOK'
          /\ simulated' \in BOOLEAN /\ deferred' \in BOOLEAN /\ failNext' \in BOOLEAN
      BY <1>2, <3>2, EnqueueType
    <3>4. AppTypeOK' /\ ScreenHasTx'
      BY <1>2, <3>1, <3>3 DEF TapResident, AppTypeOK, ScreenHasTx, Screens
    <3> QED BY <1>2, <3>1, <3>3, <3>4, Frames DEF TapResident, restVars, BackendTypeOK
  <2>3. CASE UiTurn(TapBack)
    BY <2>3, <1>2, Frames DEF TapBack, AppTypeOK, ScreenHasTx, Screens, contextVars, historyVars, BackToCatalog, restVars, BackendTypeOK
  <2>4. CASE UiTurn(TapUndo)
    <3>1. tx \in Tx
      BY <2>4, <1>2 DEF TapUndo, ScreenHasTx
    <3>2. /\ QueueTypeOK' /\ SlotTypeOK'
          /\ simulated' \in BOOLEAN /\ deferred' \in BOOLEAN /\ failNext' \in BOOLEAN
      BY <2>4, <1>2, <3>1, EnqueueUndoType DEF TapUndo
    <3>3. AppTypeOK' /\ ScreenHasTx'
      BY <2>4, <1>2, <3>1, <3>2 DEF TapUndo, AppTypeOK, ScreenHasTx, Screens
    <3> QED BY <2>4, <1>2, <3>2, <3>3, Frames DEF TapUndo, restVars, BackendTypeOK
  <2>5. CASE UiTurn(TapRetry)
    <3>1. tx \in Tx /\ Purchase(tx) \in Entry /\ result \in Results
      BY <2>5, <1>2 DEF TapRetry, ScreenHasTx, Purchase, Entry, Transaction, SlotTypeOK
    <3>2. /\ QueueTypeOK' /\ SlotTypeOK'
          /\ simulated' \in BOOLEAN /\ deferred' \in BOOLEAN /\ failNext' \in BOOLEAN
      BY <2>5, <1>2, <3>1, EnqueueUndoType, EnqueueType DEF TapRetry, RetryAgain, EnqueuePurchase
    <3>3. AppTypeOK' /\ ScreenHasTx'
      BY <2>5, <1>2, <3>1, <3>2 DEF TapRetry, RetryAgain, historyVars, AppTypeOK, ScreenHasTx, Screens
    <3> QED BY <2>5, <1>2, <3>2, <3>3, Frames DEF TapRetry, restVars, BackendTypeOK
  <2>6. CASE UiTurn(TapSummary)
    <3>1. SlotTypeOK'
      BY <2>6, <1>2, StartType, Frames DEF TapSummary, Ops, Request
    <3>2. AppTypeOK' /\ ScreenHasTx'
      BY <2>6, <1>2 DEF TapSummary, AppTypeOK, ScreenHasTx, Screens, contextVars, historyVars
    <3> QED BY <2>6, <1>2, <3>1, <3>2, Frames DEF TapSummary, BackendTypeOK
  <2>7. CASE UiTurn(TapEditor)
    BY <2>7, <1>2, Frames DEF TapEditor, AppTypeOK, ScreenHasTx, Screens, contextVars, historyVars, restVars, BackendTypeOK
  <2>8. CASE UiTurn(ConfirmEdit)
    <3>1. QueueTypeOK' /\ SlotTypeOK'
      <4>1. CASE UNCHANGED <<slotVars, queueVars>>
        BY <1>2, <4>1, Frames
      <4>2. CASE /\ ~Full(queue)
                 /\ Store(Append(queue, Change), Env)
                 /\ SendQueuedNow(Append(queue, Change), result)
        <5>1. Change \in Entry /\ result \in Results
          BY <1>2 DEF Entry, SlotTypeOK
        <5>2. Append(queue, Change) \in Seq(Entry) /\ Len(Append(queue, Change)) <= MaxQueued
          BY <1>2, <4>2, <5>1, AppendFits DEF QueueTypeOK
        <5> QED BY <1>2, <4>2, <5>1, <5>2, StoreType, SendQueuedNowType
      <4> QED BY <2>8, <4>1, <4>2 DEF ConfirmEdit
    <3>2. AppTypeOK' /\ ScreenHasTx'
      BY <2>8, <1>2 DEF ConfirmEdit, AppTypeOK, ScreenHasTx, Screens, contextVars, historyVars
    <3> QED BY <2>8, <1>2, <3>1, <3>2, Frames DEF ConfirmEdit, restVars, BackendTypeOK
  <2>9. CASE UiTurn(TapAdmin)
    BY <2>9, <1>2, Frames DEF TapAdmin, AppTypeOK, ScreenHasTx, Screens, contextVars, historyVars, restVars, BackendTypeOK
  <2>10. CASE UiTurn(ToggleFailure)
    BY <2>10, <1>2, Frames DEF ToggleFailure, AppTypeOK, ScreenHasTx, Screens, contextVars, historyVars, restVars, BackendTypeOK
  <2>11. CASE UiTurn(Sleep)
    BY <2>11, <1>2, Frames DEF Sleep, AppTypeOK, ScreenHasTx, Screens, contextVars, historyVars, restVars, BackendTypeOK
  <2>12. CASE UiTurn(Wake)
    <3>1. SlotTypeOK'
      BY <2>12, <1>2, StartSyncType, Frames DEF Wake
    <3>2. AppTypeOK' /\ ScreenHasTx'
      BY <2>12, <1>2 DEF Wake, AppTypeOK, ScreenHasTx, Screens, contextVars, historyVars
    <3> QED BY <2>12, <1>2, <3>1, <3>2, Frames DEF Wake, BackendTypeOK
  <2>13. CASE UiTurn(UiIdle)
    BY <2>13, <1>2, Frames, BackendTypeFrame, AppFrame DEF UiIdle
  <2> QED BY <2>1, <2>2, <2>3, <2>4, <2>5, <2>6, <2>7, <2>8, <2>9, <2>10, <2>11, <2>12, <2>13 DEF UiEvent
<1> QED BY <1>1, <1>2, <1>3 DEF TypeInv, TypeOK

LEMMA FlushQueueKeepsTypeInv == TypeInv /\ FlushQueue => TypeInv'
<1> SUFFICES ASSUME TypeInv, FlushQueue PROVE TypeInv'
  OBVIOUS
<1>1. QueueTypeOK'
  <2>1. CASE dirty
    BY <2>1, StoreType DEF FlushQueue, TypeInv, TypeOK, QueueTypeOK
  <2>2. CASE ~dirty
    BY <2>2, Frames DEF FlushQueue, TypeInv, TypeOK
  <2> QED BY <2>1, <2>2
<1>2. phase' \in Phases
  BY DEF FlushQueue, Turn, Phases
<1> QED BY <1>1, <1>2, Frames, BackendTypeFrame, AppFrame DEF FlushQueue, TypeInv, TypeOK

LEMMA TaskEndsKeepsTypeInv == TypeInv /\ TaskEnds => TypeInv'
<1> SUFFICES ASSUME TypeInv, TaskEnds PROVE TypeInv'
  OBVIOUS
<1>1. /\ UNCHANGED appVars /\ UNCHANGED backendVars /\ UNCHANGED queueVars
      /\ UNCHANGED sheetVars /\ phase' = phase
  BY DEF TaskEnds, NetworkStep, PerformDone, PerformUnreadable, PerformFails
<1>2. ApiTypeOK
  BY DEF TypeInv, TypeOK
<1>3. ApiTypeOK'
  <2>1. CASE NetworkStep(PerformDone)
    BY <1>2, <2>1 DEF NetworkStep, PerformDone, ApiTypeOK
  <2>2. CASE NetworkStep(PerformUnreadable)
    BY <1>2, <2>2 DEF NetworkStep, PerformUnreadable, ApiTypeOK, Answers
  <2>3. CASE NetworkStep(PerformFails)
    BY <1>2, <2>3 DEF NetworkStep, PerformFails, ApiTypeOK, Answers
  <2> QED BY <2>1, <2>2, <2>3 DEF TaskEnds
<1> QED BY <1>1, <1>3, Frames, BackendTypeFrame, AppFrame DEF TypeInv, TypeOK

\* The backend executes a request: the sheet keeps its type.
LEMMA DoPostType ==
    ASSUME SheetTypeOK, NEW r \in Request, NEW a, DoPost(r, a)
    PROVE  SheetTypeOK'
<1>1. r.kind \in {"purchase", "void"} => r.tx \in Tx
  BY DEF Request, Entry, Transaction, Change, SyncRequest, SummaryRequest, NoRequest
<1>2. CASE UNCHANGED sheetVars
  BY <1>2, Frames
<1>3. CASE r.kind = "purchase" /\ RecordPurchase(r.tx, a)
  BY <1>1, <1>2, <1>3 DEF RecordPurchase, AppendRow, SheetTypeOK, sheetVars
<1>4. CASE r.kind = "void" /\ VoidPurchase(r.tx, a)
  BY <1>1, <1>2, <1>4 DEF VoidPurchase, MarkRow, SheetTypeOK, sheetVars
<1> QED BY <1>2, <1>3, <1>4 DEF DoPost

LEMMA ServerKeepsTypeInv ==
    TypeInv /\ (ServerStep(BackendAnswers) \/ ServerStep(LateExecution)) => TypeInv'
<1> SUFFICES ASSUME TypeInv, ServerStep(BackendAnswers) \/ ServerStep(LateExecution)
             PROVE  TypeInv'
  OBVIOUS
<1>1. /\ UNCHANGED appVars /\ UNCHANGED backendVars /\ UNCHANGED queueVars
      /\ phase' = phase
  BY DEF ServerStep
<1>2. SheetTypeOK /\ ApiTypeOK
  BY DEF TypeInv, TypeOK
<1>3. SheetTypeOK' /\ ApiTypeOK'
  <2>1. CASE ServerStep(BackendAnswers)
    <3>1. PICK a \in Answers : DoPost(wire, a) /\ answer' = a
      BY <2>1 DEF ServerStep, BackendAnswers
    <3>2. SheetTypeOK'
      BY <1>2, <3>1, DoPostType DEF ApiTypeOK
    <3> QED BY <1>2, <2>1, <3>1, <3>2 DEF ServerStep, BackendAnswers, ApiTypeOK
  <2>2. CASE ServerStep(LateExecution)
    <3>1. PICK r \in late : (\E a \in Answers : DoPost(r, a)) /\ late' = late \ {r}
      BY <2>2 DEF ServerStep, LateExecution
    <3>2. r \in Request
      BY <1>2, <3>1 DEF ApiTypeOK, Request, Entry
    <3>3. SheetTypeOK'
      BY <1>2, <3>1, <3>2, DoPostType
    <3> QED BY <1>2, <2>2, <3>1, <3>3 DEF ServerStep, LateExecution, ApiTypeOK
  <2> QED BY <2>1, <2>2
<1> QED BY <1>1, <1>3, Frames, BackendTypeFrame, AppFrame DEF TypeInv, TypeOK

LEMMA ClockKeepsTypeInv ==
    TypeInv /\ (ClockStep(DeadlinePasses) \/ ClockStep(BackoffElapses)) => TypeInv'
<1> SUFFICES ASSUME TypeInv, ClockStep(DeadlinePasses) \/ ClockStep(BackoffElapses)
             PROVE  TypeInv'
  OBVIOUS
<1>1. /\ UNCHANGED appVars /\ UNCHANGED apiVars /\ UNCHANGED sheetVars
      /\ UNCHANGED queueVars /\ phase' = phase
  BY DEF ClockStep, DeadlinePasses, BackoffElapses
<1>2. BackendTypeOK'
  BY Frames DEF ClockStep, DeadlinePasses, BackoffElapses, TypeInv, TypeOK, BackendTypeOK,
                SlotTypeOK
<1> QED BY <1>1, <1>2, Frames, AppFrame DEF TypeInv, TypeOK

LEMMA RestartKeepsTypeInv == TypeInv /\ Restart => TypeInv'
<1> SUFFICES ASSUME TypeInv, Restart PROVE TypeInv'
  OBVIOUS
<1>1. QueueTypeOK'
  BY DEF Restart, LoadQueue, TypeInv, TypeOK, QueueTypeOK
<1>2. ApiTypeOK'
  BY DEF Restart, AbandonClient, TypeInv, TypeOK, ApiTypeOK, Answers, Request
<1>3. SheetTypeOK'
  BY Frames DEF Restart, TypeInv, TypeOK
<1>4. BackendTypeOK'
  BY DEF Restart, BackendTypeOK, SlotTypeOK, Ops, Results, Request
<1>5. AppTypeOK' /\ ScreenHasTx'
  BY DEF Restart, TypeInv, TypeOK, AppTypeOK, ScreenHasTx, historyVars, Screens
<1>6. phase' \in Phases
  BY DEF Restart, Phases
<1> QED BY <1>1, <1>2, <1>3, <1>4, <1>5, <1>6 DEF TypeInv, TypeOK

LEMMA NextKeepsTypeInv == TypeInv /\ [Next]_vars => TypeInv'
BY BackendUpdateKeepsTypeInv, AppUpdateKeepsTypeInv, UiEventKeepsTypeInv,
   FlushQueueKeepsTypeInv, TaskEndsKeepsTypeInv, ServerKeepsTypeInv, ClockKeepsTypeInv,
   RestartKeepsTypeInv, StutterTypeInv
   DEF Next, LoopStep, PowerCut, PowerReturns

\* In every behaviour, whatever the surroundings do, every variable has its
\* type; the queue and its file never outgrow the array of transaction_queue.cpp.
THEOREM TypeCorrect == Spec => [](TypeOK /\ ScreenHasTx)
<1>1. TypeInv => TypeOK /\ ScreenHasTx
  BY DEF TypeInv
<1> QED BY <1>1, InitTypeInv, NextKeepsTypeInv, PTL DEF Spec

----------------------------------------------------------------------------
(* What a queue holds *)

LEMMA HasAppend ==
    ASSUME NEW q \in Seq(Entry), NEW e \in Entry, ~Full(q), NEW x
    PROVE  Has(Append(q, e), x) <=> Has(q, x) \/ x = e
<1>1. /\ DOMAIN q = 1 .. Len(q) /\ Len(q) \in Nat
      /\ DOMAIN Append(q, e) = 1 .. (Len(q) + 1)
      /\ \A i \in 1 .. Len(q) : Append(q, e)[i] = q[i]
      /\ Append(q, e)[Len(q) + 1] = e
  BY AppendFits, LenProperties
<1> HIDE DEF Entry
<1> QED BY <1>1 DEF Has

LEMMA HasPopped ==
    ASSUME NEW q \in Seq(Entry), NEW x, Has(q, x), x # q[1]
    PROVE  Has(Popped(q), x)
<1>1. PICK i \in 1 .. Len(q) : q[i] = x
  BY LenProperties DEF Has
<1>2. i # 1 /\ Len(q) \in Nat /\ q # <<>>
  BY <1>1, EmptySeq, LenProperties
<1>3. /\ i - 1 \in 1 .. (Len(q) - 1)
      /\ Popped(q)[i - 1] = q[(i - 1) + 1]
      /\ DOMAIN Popped(q) = 1 .. (Len(q) - 1)
  BY <1>1, <1>2, PoppedProperties, LenProperties
<1> QED BY <1>1, <1>3 DEF Has

\* Undoing a purchase leaves every other entry where it was, or one further up.
LEMMA WithoutPurchaseShape ==
    ASSUME NEW q \in Seq(Entry), NEW u, HoldsPurchase(q, u)
    PROVE  LET k == FirstPurchase(q, u)
           IN  /\ k \in 1 .. Len(q) /\ q[k] = Purchase(u) /\ Len(q) \in Nat
               /\ DOMAIN WithoutPurchase(q, u) = 1 .. (Len(q) - 1)
               /\ \A j \in 1 .. (Len(q) - 1) :
                    WithoutPurchase(q, u)[j] = IF j < k THEN q[j] ELSE q[j + 1]
<1> DEFINE k == FirstPurchase(q, u)
<1>1. k \in 1 .. Len(q) /\ q[k] = Purchase(u)
  BY FirstPurchaseProperties
<1> HIDE DEF k
<1>2. /\ Without(q, k) \in Seq(Entry)
      /\ Len(Without(q, k)) = Len(q) - 1
      /\ \A j \in 1 .. Len(q) - 1 :
           Without(q, k)[j] = IF j < k THEN q[j] ELSE q[j + 1]
  BY <1>1, WithoutProperties
<1>3. WithoutPurchase(q, u) = Without(q, k)
  BY DEF WithoutPurchase, k
<1>4. Len(q) \in Nat /\ DOMAIN Without(q, k) = 1 .. (Len(q) - 1)
  BY <1>2, LenProperties
<1> QED BY <1>1, <1>2, <1>3, <1>4 DEF k

LEMMA HasWithoutPurchase ==
    ASSUME NEW q \in Seq(Entry), NEW u, HoldsPurchase(q, u),
           NEW x, x # Purchase(u), Has(q, x)
    PROVE  Has(WithoutPurchase(q, u), x)
<1> DEFINE k == FirstPurchase(q, u)
<1>1. /\ k \in 1 .. Len(q) /\ q[k] = Purchase(u) /\ Len(q) \in Nat
      /\ DOMAIN WithoutPurchase(q, u) = 1 .. (Len(q) - 1)
      /\ \A j \in 1 .. (Len(q) - 1) :
           WithoutPurchase(q, u)[j] = IF j < k THEN q[j] ELSE q[j + 1]
  BY WithoutPurchaseShape
<1> HIDE DEF k
<1>2. PICK i \in 1 .. Len(q) : q[i] = x
  BY LenProperties DEF Has
<1>3. i # k
  BY <1>1, <1>2
<1>4. CASE i < k
  <2>1. i \in 1 .. (Len(q) - 1) /\ WithoutPurchase(q, u)[i] = x
    BY <1>1, <1>2, <1>4
  <2> QED BY <1>1, <2>1 DEF Has
<1>5. CASE k < i
  <2>1. i - 1 \in 1 .. (Len(q) - 1) /\ WithoutPurchase(q, u)[i - 1] = x
    BY <1>1, <1>2, <1>5
  <2> QED BY <1>1, <2>1 DEF Has
<1> QED BY <1>1, <1>2, <1>3, <1>4, <1>5

\* pop() and remove_purchase() bring nothing in.
LEMMA HeldBefore ==
    ASSUME NEW q \in Seq(Entry), NEW x
    PROVE  /\ Has(Popped(q), x) => Has(q, x)
           /\ \A u : HoldsPurchase(q, u) /\ Has(WithoutPurchase(q, u), x) => Has(q, x)
<1>1. Len(q) \in Nat /\ DOMAIN q = 1 .. Len(q)
  BY LenProperties
<1>2. Has(Popped(q), x) => Has(q, x)
  <2>1. CASE q = <<>>
    BY <2>1 DEF Popped
  <2>2. CASE q # <<>>
    <3>1. /\ DOMAIN Popped(q) = 1 .. (Len(q) - 1)
          /\ \A j \in 1 .. (Len(q) - 1) : Popped(q)[j] = q[j + 1]
      BY <2>2, PoppedProperties, LenProperties
    <3>2. \A j \in 1 .. (Len(q) - 1) : j + 1 \in 1 .. Len(q)
      BY <1>1
    <3> QED BY <1>1, <3>1, <3>2 DEF Has
  <2> QED BY <2>1, <2>2
<1>3. ASSUME NEW u, HoldsPurchase(q, u), Has(WithoutPurchase(q, u), x)
      PROVE  Has(q, x)
  <2> DEFINE k == FirstPurchase(q, u)
  <2>1. /\ DOMAIN WithoutPurchase(q, u) = 1 .. (Len(q) - 1)
        /\ \A j \in 1 .. (Len(q) - 1) :
             WithoutPurchase(q, u)[j] = IF j < k THEN q[j] ELSE q[j + 1]
    BY <1>3, WithoutPurchaseShape
  <2> HIDE DEF k
  <2>2. PICK j \in 1 .. (Len(q) - 1) : WithoutPurchase(q, u)[j] = x
    BY <1>3, <2>1 DEF Has
  <2>3. j \in 1 .. Len(q) /\ j + 1 \in 1 .. Len(q) /\ (q[j] = x \/ q[j + 1] = x)
    BY <1>1, <2>1, <2>2
  <2> QED BY <1>1, <2>3 DEF Has
<1> QED BY <1>2, <1>3

----------------------------------------------------------------------------
(* What the loop's layers do to the slot and to the queue *)

\* Enqueueing takes a free slot for the head of the new queue, or leaves it.
TakesSlot ==
    \/ UNCHANGED <<op, posted, request>>
    \/ /\ op = "None" /\ posted' = FALSE
       /\ \/ op' = "Sync" /\ request' = SyncRequest
          \/ op' = "MySummary" /\ request' = SummaryRequest
          \/ queue' # <<>> /\ request' = queue'[1] /\ op' = OpFor(queue'[1])

\* Where Undo, or Retry of a failed undo, may be tapped.
MayUndo ==
    \/ screen = "Success" /\ ~undone
    \/ screen = "Error" /\ undoInFlight

\* What a touch may push: a change of the catalog, the submission that the
\* screen now shows, or the reversal somebody asked for of a purchase that is
\* no longer queued.
Offered(e) ==
    \/ e = Change
    \/ e = Purchase(tx') /\ screen' = "Submitting"
    \/ e = Void(tx) /\ tx \in undoAsked' /\ MayUndo /\ ~HoldsPurchase(queue, tx)

\* A touch leaves the queue alone, pushes an entry, or drops the purchase on
\* the screen, which somebody has asked to undo.
TouchesQueue ==
    \/ UNCHANGED queueVars
    \/ \E e \in Entry : Offered(e) /\ ~Full(queue) /\ Store(Append(queue, e), Env)
    \/ /\ HoldsPurchase(queue, tx)
       /\ Store(WithoutPurchase(queue, tx), Env)
       /\ "early_undo" \in Env \/ ~BeingSent
       /\ tx \in undoAsked'
       /\ UNCHANGED slotVars

LEMMA EnqueueEffect ==
    ASSUME NEW e \in Entry, NEW r, Enqueue(e, r)
    PROVE  TakesSlot /\ (\/ UNCHANGED queueVars
                         \/ ~Full(queue) /\ Store(Append(queue, e), Env))
<1>1. CASE Full(queue)
  BY <1>1 DEF Enqueue, TakesSlot
<1>2. CASE ~Full(queue)
  <2>1. Store(Append(queue, e), Env) /\ SendQueuedNow(Append(queue, e), r)
    BY <1>2 DEF Enqueue
  <2>2. queue' = Append(queue, e)
    BY <2>1 DEF Store
  <2> QED BY <1>2, <2>1, <2>2 DEF SendQueuedNow, Start, TakesSlot
<1> QED BY <1>1, <1>2

LEMMA EnqueueUndoEffect ==
    ASSUME tx \in Tx, EnqueueUndo, tx \in undoAsked', MayUndo,
           "early_undo" \in Env \/ ~BeingSent
    PROVE  TakesSlot /\ TouchesQueue
<1>1. CASE HoldsPurchase(queue, tx)
  BY <1>1 DEF EnqueueUndo, TakesSlot, TouchesQueue, slotVars
<1>2. CASE ~HoldsPurchase(queue, tx)
  <2>1. Void(tx) \in Entry
    BY DEF Void, Entry, Transaction
  <2> QED BY <1>2, <2>1, EnqueueEffect DEF EnqueueUndo, TouchesQueue, Offered
<1> QED BY <1>1, <1>2

\* An undo that failed and may be retried is one the user asked for.
UndoInv == undoInFlight => screen \in {"Undoing", "Error"} /\ tx \in undoAsked

LEMMA UiEffect ==
    ASSUME TypeInv, UndoInv, UiEvent
    PROVE  UNCHANGED apiVars /\ UNCHANGED sheetVars /\ TakesSlot /\ TouchesQueue
<1> USE DEF UiTurn
<1>1. CASE UiTurn(TapProduct)
  BY <1>1 DEF TapProduct, restVars, TakesSlot, TouchesQueue, slotVars
<1>2. CASE \E t \in Tx : UiTurn(TapResident(t))
  <2>1. PICK t \in Tx : UiTurn(TapResident(t))
    BY <1>2
  <2>2. Enqueue(Purchase(t), "Idle") /\ Purchase(t) \in Entry
    BY <2>1 DEF TapResident, EnqueuePurchase, Purchase, Entry, Transaction
  <2> QED BY <2>1, <2>2, EnqueueEffect DEF TapResident, restVars, TouchesQueue, Offered
<1>3. CASE UiTurn(TapBack)
  BY <1>3 DEF TapBack, restVars, TakesSlot, TouchesQueue, slotVars
<1>4. CASE UiTurn(TapUndo)
  <2>1. tx \in Tx /\ EnqueueUndo /\ tx \in undoAsked'
        /\ ("early_undo" \in Env \/ ~BeingSent) /\ MayUndo
    BY <1>4 DEF TapUndo, MayUndo, TypeInv, ScreenHasTx
  <2> QED BY <1>4, <2>1, EnqueueUndoEffect DEF TapUndo, restVars
<1>5. CASE UiTurn(TapRetry)
  <2>1. tx \in Tx /\ Purchase(tx) \in Entry
    BY <1>5 DEF TapRetry, TypeInv, ScreenHasTx, Purchase, Entry, Transaction
  <2>2. UNCHANGED apiVars /\ UNCHANGED sheetVars
    BY <1>5 DEF TapRetry, restVars
  <2>3. CASE undoInFlight
    <3>1. EnqueueUndo /\ tx \in undoAsked' /\ ("early_undo" \in Env \/ ~BeingSent) /\ MayUndo
      BY <1>5, <2>3 DEF TapRetry, RetryAgain, MayUndo, UndoInv, historyVars
    <3> QED BY <2>1, <2>2, <3>1, EnqueueUndoEffect
  <2>4. CASE ~undoInFlight
    <3>1. Enqueue(Purchase(tx), result) /\ screen' = "Submitting" /\ tx' = tx
      BY <1>5, <2>4 DEF TapRetry, RetryAgain, EnqueuePurchase
    <3> QED BY <2>1, <2>2, <3>1, EnqueueEffect DEF TouchesQueue, Offered
  <2> QED BY <2>3, <2>4
<1>6. CASE UiTurn(TapSummary)
  BY <1>6 DEF TapSummary, Start, TakesSlot, TouchesQueue, slotVars
<1>7. CASE UiTurn(TapEditor)
  BY <1>7 DEF TapEditor, restVars, TakesSlot, TouchesQueue, slotVars
<1>8. CASE UiTurn(ConfirmEdit)
  <2>1. UNCHANGED apiVars /\ UNCHANGED sheetVars
    BY <1>8 DEF ConfirmEdit, restVars
  <2>2. CASE UNCHANGED <<slotVars, queueVars>>
    BY <2>1, <2>2 DEF TakesSlot, TouchesQueue, slotVars
  <2>3. CASE /\ ~Full(queue)
             /\ Store(Append(queue, Change), Env)
             /\ SendQueuedNow(Append(queue, Change), result)
    <3>1. queue' = Append(queue, Change)
      BY <2>3 DEF Store
    <3>2. TakesSlot
      BY <2>3, <3>1 DEF SendQueuedNow, Start, TakesSlot
    <3>3. Change \in Entry
      BY DEF Entry
    <3> QED BY <2>1, <2>3, <3>2, <3>3 DEF TouchesQueue, Offered
  <2> QED BY <1>8, <2>2, <2>3 DEF ConfirmEdit
<1>9. CASE UiTurn(TapAdmin)
  BY <1>9 DEF TapAdmin, restVars, TakesSlot, TouchesQueue, slotVars
<1>10. CASE UiTurn(ToggleFailure)
  BY <1>10 DEF ToggleFailure, restVars, TakesSlot, TouchesQueue, slotVars
<1>11. CASE UiTurn(Sleep)
  BY <1>11 DEF Sleep, TakesSlot, TouchesQueue, slotVars
<1>12. CASE UiTurn(Wake)
  BY <1>12 DEF Wake, StartSync, TakesSlot, TouchesQueue, slotVars
<1>13. CASE UiTurn(UiIdle)
  BY <1>13 DEF UiIdle, backendVars, TakesSlot, TouchesQueue
<1> QED BY <1>1, <1>2, <1>3, <1>4, <1>5, <1>6, <1>7, <1>8, <1>9, <1>10, <1>11, <1>12,
           <1>13 DEF UiEvent

LEMMA AppUpdateEffect ==
    ASSUME AppUpdate
    PROVE  /\ UNCHANGED apiVars /\ UNCHANGED sheetVars /\ UNCHANGED queueVars
           /\ UNCHANGED <<op, posted, request>>
           /\ submitted' = submitted /\ undoAsked' = undoAsked
BY DEF AppUpdate, AppTurn, PollSucceeds, PollFails, SubmitTimer, UndoTimer, Dwell, AppIdle,
       restVars, slotVars, backendVars, historyVars, appVars

----------------------------------------------------------------------------
(* The slot *)

SlotInv == OutcomeBelongsToSlot

LEMMA TakesSlotKeepsSlotInv ==
    ASSUME SlotInv, UNCHANGED apiVars, TakesSlot
    PROVE  SlotInv'
BY DEF SlotInv, OutcomeBelongsToSlot, apiVars, TakesSlot

LEMMA BackendUpdateKeepsSlotInv == SlotInv /\ BackendUpdate => SlotInv'
<1> SUFFICES ASSUME SlotInv, BackendUpdate PROVE SlotInv'
  OBVIOUS
<1> USE DEF BackendTurn, SlotInv, OutcomeBelongsToSlot
<1>1. CASE BackendTurn(FetchSummary)
  BY <1>1 DEF FetchSummary, Start, apiVars
<1>2. CASE BackendTurn(DrainQueue)
  BY <1>2 DEF DrainQueue, SendQueuedNow, Start, apiVars
<1>3. CASE BackendTurn(PeriodicSync)
  BY <1>3 DEF PeriodicSync, StartSync, apiVars
<1>4. CASE BackendTurn(PostRequest)
  BY <1>4 DEF PostRequest, Post
<1>5. CASE \E r \in Results : Finish(r)
  BY <1>5 DEF Finish, ResetClient
<1>6. CASE BackendTurn(BackendIdle)
  BY <1>6 DEF BackendIdle, backendVars, apiVars
<1> QED BY <1>1, <1>2, <1>3, <1>4, <1>5, <1>6
        DEF BackendUpdate, PostRefused, GiveUpOnRadio, RequestFailed, SummaryArrives,
            SyncArrives, AckOk, AckRejected, AckUnreadable, Results

LEMMA NextKeepsSlotInv == TypeInv /\ UndoInv /\ SlotInv /\ [Next]_vars => SlotInv'
<1> SUFFICES ASSUME TypeInv, UndoInv, SlotInv, [Next]_vars PROVE SlotInv'
  OBVIOUS
<1>1. CASE BackendUpdate
  BY <1>1, BackendUpdateKeepsSlotInv
<1>2. CASE AppUpdate
  BY <1>2, AppUpdateEffect, TakesSlotKeepsSlotInv DEF TakesSlot
<1>3. CASE UiEvent
  BY <1>3, UiEffect, TakesSlotKeepsSlotInv
<1>4. CASE FlushQueue \/ UNCHANGED vars
  BY <1>4 DEF FlushQueue, vars, SlotInv, OutcomeBelongsToSlot, backendVars, apiVars
<1>5. CASE TaskEnds
  BY <1>5 DEF TaskEnds, NetworkStep, PerformDone, PerformUnreadable, PerformFails,
              SlotInv, OutcomeBelongsToSlot, backendVars
<1>6. CASE ServerStep(BackendAnswers) \/ ServerStep(LateExecution)
  BY <1>6 DEF ServerStep, BackendAnswers, LateExecution, SlotInv, OutcomeBelongsToSlot,
              backendVars
<1>7. CASE ClockStep(DeadlinePasses) \/ ClockStep(BackoffElapses)
  BY <1>7 DEF ClockStep, DeadlinePasses, BackoffElapses, SlotInv, OutcomeBelongsToSlot,
              slotVars, apiVars
<1>8. CASE Restart
  BY <1>8 DEF Restart, AbandonClient, SlotInv, OutcomeBelongsToSlot
<1> QED BY <1>1, <1>2, <1>3, <1>4, <1>5, <1>6, <1>7, <1>8
        DEF Next, LoopStep, PowerCut, PowerReturns

LEMMA NextKeepsUndoInv == TypeInv /\ UndoInv /\ [Next]_vars => UndoInv'
<1> SUFFICES ASSUME TypeInv, UndoInv, [Next]_vars PROVE UndoInv'
  OBVIOUS
<1> USE DEF UndoInv
<1>1. CASE UNCHANGED appVars
  BY <1>1 DEF appVars
<1>2. CASE AppUpdate
  <2> USE DEF AppTurn
  <2>1. CASE AppTurn(PollSucceeds)
    BY <2>1 DEF PollSucceeds, ShowBooked, ShowUndone, AwaitsResult
  <2>2. CASE AppTurn(PollFails)
    BY <2>2 DEF PollFails, AwaitsResult, historyVars
  <2>3. CASE AppTurn(SubmitTimer)
    BY <2>3 DEF SubmitTimer, ShowBooked
  <2>4. CASE AppTurn(UndoTimer)
    BY <2>4 DEF UndoTimer, ShowUndone
  <2>5. CASE AppTurn(Dwell)
    BY <2>5 DEF Dwell, BackToCatalog
  <2>6. CASE AppTurn(AppIdle)
    BY <2>6 DEF AppIdle, appVars
  <2> QED BY <1>2, <2>1, <2>2, <2>3, <2>4, <2>5, <2>6 DEF AppUpdate
<1>3. CASE UiEvent
  <2>1. CASE UiTurn(TapRetry)
    BY <2>1 DEF UiTurn, TapRetry, RetryAgain, historyVars
  <2>2. CASE UiTurn(TapUndo)
    BY <2>2 DEF UiTurn, TapUndo
  <2>3. CASE \E t \in Tx : UiTurn(TapResident(t))
    BY <2>3 DEF UiTurn, TapResident
  <2>4. CASE UiTurn(TapBack)
    BY <2>4 DEF UiTurn, TapBack, BackToCatalog
  <2>5. CASE UiTurn(ToggleFailure)
    BY <2>5 DEF UiTurn, ToggleFailure, contextVars, historyVars
  <2>6. CASE UiTurn(UiIdle)
    BY <2>6 DEF UiTurn, UiIdle, appVars
  <2>7. CASE screen \notin {"Undoing", "Error"} /\ UNCHANGED contextVars
    BY <2>7 DEF contextVars
  <2> QED BY <1>3, <2>1, <2>2, <2>3, <2>4, <2>5, <2>6, <2>7
          DEF UiEvent, UiTurn, TapProduct, TapSummary, TapEditor, ConfirmEdit, TapAdmin,
              Sleep, Wake
<1>4. CASE Restart
  BY <1>4 DEF Restart
<1> QED BY <1>1, <1>2, <1>3, <1>4
        DEF Next, LoopStep, BackendUpdate, BackendTurn, FlushQueue, TaskEnds, NetworkStep,
            ServerStep, ClockStep, PowerCut, PowerReturns, vars

LEMMA InitSlotInv == Init => SlotInv /\ UndoInv
BY DEF Init, BackendInit, ApiInit, AppInit, SlotInv, OutcomeBelongsToSlot, UndoInv

\* Whatever the surroundings do, an outcome is that of the operation in the
\* slot: backend.cpp never hands one request's answer to another operation.
THEOREM SlotCorrect == Spec => []OutcomeBelongsToSlot
<1>1. SlotInv => OutcomeBelongsToSlot
  BY DEF SlotInv
<1> QED BY <1>1, InitTypeInv, NextKeepsTypeInv, InitSlotInv, NextKeepsSlotInv,
           NextKeepsUndoInv, PTL DEF Spec

----------------------------------------------------------------------------
(* The result the screen waits for *)

\* Watching what was enqueued means that it has just taken the slot.
LEMMA EnqueueWatched ==
    ASSUME TypeInv, NEW e \in Entry, NEW r, Enqueue(e, r), ~simulated'
    PROVE  result' = "Pending" /\ op' \in {"Purchase", "Void"}
<1>1. ~Full(queue) /\ op = "None" /\ SendQueuedNow(Append(queue, e), r)
  BY DEF Enqueue, Refused, Deferred
<1>2. Append(queue, e) # <<>>
  BY <1>1, AppendFits DEF TypeInv, TypeOK, QueueTypeOK
<1> QED BY <1>1, <1>2 DEF SendQueuedNow, Start, OpFor

LEMMA BackendUpdateKeepsFresh ==
    WatchedResultIsFresh /\ BackendUpdate => WatchedResultIsFresh'
<1> SUFFICES ASSUME WatchedResultIsFresh, BackendUpdate PROVE WatchedResultIsFresh'
  OBVIOUS
<1>1. phase = "backend" /\ phase' = "app" /\ UNCHANGED appVars
  BY DEF BackendUpdate, BackendTurn, Turn
<1>2. AwaitsResult' <=> AwaitsResult
  BY <1>1 DEF AwaitsResult, appVars
<1> SUFFICES ASSUME AwaitsResult
             PROVE  \/ result' = "Pending" /\ op' \in {"Purchase", "Void"}
                    \/ result' \in {"Success", "Unreachable", "Rejected"}
  BY <1>1, <1>2 DEF WatchedResultIsFresh
<1>3. result = "Pending" /\ op \in {"Purchase", "Void"}
  BY <1>1 DEF WatchedResultIsFresh
<1> QED BY <1>3 DEF BackendUpdate, BackendTurn, FetchSummary, DrainQueue, PeriodicSync,
        PostRequest, PostRefused, GiveUpOnRadio, RequestFailed, SummaryArrives, SyncArrives,
        AckOk, AckRejected, AckUnreadable, BackendIdle, Finish, backendVars

LEMMA UiKeepsFresh ==
    TypeInv /\ UndoInv /\ WatchedResultIsFresh /\ UiEvent => WatchedResultIsFresh'
<1> SUFFICES ASSUME TypeInv, UndoInv, WatchedResultIsFresh, UiEvent, AwaitsResult'
             PROVE  WatchedResultIsFresh'
  BY DEF WatchedResultIsFresh
<1>1. ASSUME NEW t \in Tx, NEW r, EnqueuePurchase(t, r)
      PROVE  WatchedResultIsFresh'
  <2>1. Purchase(t) \in Entry
    BY DEF Purchase, Entry, Transaction
  <2> QED BY <1>1, <2>1, EnqueueWatched DEF EnqueuePurchase, AwaitsResult, WatchedResultIsFresh
<1>2. ASSUME tx \in Tx, EnqueueUndo
      PROVE  WatchedResultIsFresh'
  <2>1. Void(tx) \in Entry
    BY <1>2 DEF Void, Entry, Transaction
  <2> QED BY <1>2, <2>1, EnqueueWatched DEF EnqueueUndo, NoBackend, AwaitsResult, WatchedResultIsFresh
<1>3. CASE \E t \in Tx : UiTurn(TapResident(t))
  BY <1>1, <1>3 DEF UiTurn, TapResident
<1>4. CASE UiTurn(TapUndo)
  BY <1>2, <1>4 DEF UiTurn, TapUndo, TypeInv, ScreenHasTx
<1>5. CASE UiTurn(TapRetry)
  BY <1>1, <1>2, <1>5 DEF UiTurn, TapRetry, RetryAgain, TypeInv, ScreenHasTx
<1>6. CASE UiTurn(UiIdle)
  BY <1>6 DEF UiTurn, Turn, UiIdle, WatchedResultIsFresh, AwaitsResult, appVars, backendVars
<1>7. CASE screen' \notin {"Submitting", "Undoing"}
  BY <1>7 DEF AwaitsResult
<1> QED BY <1>3, <1>4, <1>5, <1>6, <1>7
        DEF UiEvent, UiTurn, TapProduct, TapBack, BackToCatalog, TapSummary, TapEditor,
            ConfirmEdit, TapAdmin, ToggleFailure, Sleep, Wake

LEMMA NextKeepsFresh ==
    TypeInv /\ UndoInv /\ WatchedResultIsFresh /\ [Next]_vars => WatchedResultIsFresh'
<1> SUFFICES ASSUME TypeInv, UndoInv, WatchedResultIsFresh, [Next]_vars PROVE WatchedResultIsFresh'
  OBVIOUS
<1>1. CASE BackendUpdate
  BY <1>1, BackendUpdateKeepsFresh
<1>2. CASE AppUpdate
  BY <1>2 DEF AppUpdate, AppTurn, Turn, PollSucceeds, PollFails, SubmitTimer, UndoTimer,
              Dwell, AppIdle, ShowBooked, ShowUndone, BackToCatalog, AwaitsResult,
              WatchedResultIsFresh,
              appVars, backendVars
<1>3. CASE UiEvent
  BY <1>3, UiKeepsFresh
<1>4. CASE FlushQueue
  BY <1>4 DEF FlushQueue, Turn, WatchedResultIsFresh, AwaitsResult, appVars, backendVars
<1>5. CASE \/ TaskEnds \/ ServerStep(BackendAnswers) \/ ServerStep(LateExecution)
           \/ ClockStep(DeadlinePasses) \/ ClockStep(BackoffElapses) \/ UNCHANGED vars
  <2>1. UNCHANGED <<phase, appVars, result, op>>
    BY <1>5 DEF TaskEnds, NetworkStep, ServerStep, ClockStep, DeadlinePasses, BackoffElapses,
                vars, backendVars, slotVars
  <2> QED BY <2>1 DEF WatchedResultIsFresh, AwaitsResult, appVars
<1>6. CASE Restart
  BY <1>6 DEF Restart, WatchedResultIsFresh, AwaitsResult
<1> QED BY <1>1, <1>2, <1>3, <1>4, <1>5, <1>6
        DEF Next, LoopStep, PowerCut, PowerReturns

LEMMA InitFresh == Init => WatchedResultIsFresh
BY DEF Init, AppInit, WatchedResultIsFresh, AwaitsResult

\* Whatever the surroundings do, a screen that waits for a result waits for the
\* entry in the slot or reads the outcome that update() has just left: start()
\* and backend::clear() leave it nothing of an earlier attempt to read.
THEOREM WatchedResultsAreFresh == Spec => []WatchedResultIsFresh
<1> QED BY InitTypeInv, NextKeepsTypeInv, InitSlotInv, NextKeepsUndoInv, InitFresh,
           NextKeepsFresh, PTL DEF Spec

----------------------------------------------------------------------------
(* Room for an undo *)

Room == ~Full(queue) \/ HoldsPurchase(queue, tx)

\* A submission that will be confirmed is in the queue or has left it, and a
\* reversal that was refused has left it: either way the next one fits.
RoomInv ==
    /\ \/ screen = "Submitting" /\ ~(simulated /\ failNext)
       \/ screen = "Success" /\ ~undone
       \/ screen = "Error" /\ undoInFlight
       => Room
    /\ phase = "app" /\ screen = "Undoing" /\ AwaitsResult /\ result = "Rejected"
       => ~Full(queue)

LEMMA PoppedHasRoom ==
    ASSUME TypeInv
    PROVE  ~Full(Popped(queue))
<1>1. queue \in Seq(Entry) /\ Len(queue) \in Nat /\ Len(queue) <= MaxQueued
      /\ MaxQueued \in Nat \ {0}
  BY LenProperties, MaxQueuedAssumption DEF TypeInv, TypeOK, QueueTypeOK
<1>2. CASE queue = <<>>
  <2>1. Len(Popped(queue)) = 0
    BY <1>2, EmptySeq DEF Popped
  <2> QED BY <1>1, <2>1 DEF Full
<1>3. CASE queue # <<>>
  <2>1. Len(Popped(queue)) = Len(queue) - 1
    BY <1>1, <1>3, PoppedProperties
  <2> QED BY <1>1, <2>1 DEF Full
<1> QED BY <1>2, <1>3

LEMMA BackendUpdateKeepsRoomInv == TypeInv /\ WatchedResultIsFresh /\ RoomInv /\ BackendUpdate => RoomInv'
<1> SUFFICES ASSUME TypeInv, WatchedResultIsFresh, RoomInv, BackendUpdate PROVE RoomInv'
  OBVIOUS
<1>1. phase = "backend" /\ UNCHANGED appVars
  BY DEF BackendUpdate, BackendTurn, Turn
<1>2. CASE queue' = Popped(queue)
  <2>1. ~Full(queue')
    BY <1>2, PoppedHasRoom
  <2> QED BY <2>1 DEF RoomInv, Room
<1>3. CASE queue' = queue /\ ~BackendTurn(AckRejected)
  <2>1. AwaitsResult => result = "Pending" /\ op \in {"Purchase", "Void"}
    BY <1>1 DEF WatchedResultIsFresh
  <2>2. AwaitsResult => result' # "Rejected"
    BY <1>3, <2>1 DEF BackendUpdate, BackendTurn, FetchSummary, DrainQueue, PeriodicSync,
       PostRequest, PostRefused, GiveUpOnRadio, RequestFailed, SummaryArrives, SyncArrives,
       AckOk, AckUnreadable, BackendIdle, Finish, backendVars
  <2>3. AwaitsResult' <=> AwaitsResult
    BY <1>1 DEF AwaitsResult, appVars
  <2> QED BY <1>1, <1>3, <2>2, <2>3 DEF RoomInv, Room, appVars
<1> QED BY <1>2, <1>3 DEF BackendUpdate, BackendTurn, FetchSummary, DrainQueue, PeriodicSync,
        PostRequest, PostRefused, GiveUpOnRadio, RequestFailed, SummaryArrives, SyncArrives,
        AckOk, AckRejected, AckUnreadable, BackendIdle, ChangeInMemory, queueVars

LEMMA AppUpdateKeepsRoomInv ==
    UndoInv /\ WatchedResultIsFresh /\ RoomInv /\ AppUpdate => RoomInv'
<1> SUFFICES ASSUME UndoInv, WatchedResultIsFresh, RoomInv, AppUpdate PROVE RoomInv'
  OBVIOUS
<1>1. phase = "app" /\ phase' = "ui" /\ queue' = queue
  BY AppUpdateEffect DEF AppUpdate, AppTurn, Turn, queueVars
<1>2. CASE AppTurn(PollSucceeds) \/ AppTurn(SubmitTimer) \/ AppTurn(UndoTimer)
  BY <1>1, <1>2 DEF AppTurn, PollSucceeds, SubmitTimer, UndoTimer, ShowBooked, ShowUndone,
                    AwaitsResult, RoomInv, Room, UndoInv
<1>3. CASE AppTurn(PollFails)
  <2>1. AwaitsResult /\ result = "Rejected" /\ screen' = "Error" /\ undoInFlight' = undoInFlight
    BY <1>3 DEF AppTurn, PollFails, PollOk, WatchedResultIsFresh
  <2>2. undoInFlight' => ~Full(queue')
    BY <1>1, <2>1 DEF RoomInv, UndoInv, AwaitsResult
  <2> QED BY <1>1, <2>1, <2>2 DEF RoomInv, Room
<1>4. CASE AppTurn(Dwell)
  BY <1>4 DEF AppTurn, Dwell, BackToCatalog, RoomInv
<1>5. CASE AppTurn(AppIdle)
  BY <1>1, <1>5 DEF AppTurn, AppIdle, appVars, RoomInv, Room
<1> QED BY <1>2, <1>3, <1>4, <1>5 DEF AppUpdate

LEMMA UiKeepsRoomInv == TypeInv /\ RoomInv /\ UiEvent => RoomInv'
<1> SUFFICES ASSUME TypeInv, RoomInv, UiEvent PROVE RoomInv'
  OBVIOUS
<1>1. phase' = "flush"
  BY DEF UiEvent, UiTurn, Turn
<1>2. ASSUME NEW t \in Tx, NEW r, EnqueuePurchase(t, r), tx' = t, screen' = "Submitting"
      PROVE  RoomInv'
  <2>1. CASE Full(queue)
    BY <1>1, <1>2, <2>1 DEF EnqueuePurchase, Enqueue, Refused, RoomInv
  <2>2. CASE ~Full(queue)
    <3>1. queue' = Append(queue, Purchase(t))
      BY <1>2, <2>2 DEF EnqueuePurchase, Enqueue, Store
    <3>2. Purchase(t) \in Entry /\ queue \in Seq(Entry)
      BY DEF Purchase, Entry, Transaction, TypeInv, TypeOK, QueueTypeOK
    <3>3. Has(queue', Purchase(tx'))
      BY <1>2, <2>2, <3>1, <3>2, HasAppend
    <3> QED BY <1>1, <3>3 DEF Has, HoldsPurchase, RoomInv, Room
  <2> QED BY <2>1, <2>2
<1>3. CASE \E t \in Tx : UiTurn(TapResident(t))
  BY <1>2, <1>3 DEF UiTurn, TapResident
<1>4. CASE UiTurn(TapRetry)
  BY <1>1, <1>2, <1>4 DEF UiTurn, TapRetry, RetryAgain, TypeInv, ScreenHasTx, RoomInv
<1>5. CASE UiTurn(UiIdle)
  BY <1>1, <1>5 DEF UiTurn, UiIdle, RoomInv, Room, appVars, queueVars
<1>6. CASE screen' \notin {"Submitting", "Success", "Error"}
  BY <1>1, <1>6 DEF RoomInv
<1> QED BY <1>3, <1>4, <1>5, <1>6
        DEF UiEvent, UiTurn, TapProduct, TapBack, BackToCatalog, TapUndo, TapSummary,
            TapEditor, ConfirmEdit, TapAdmin, ToggleFailure, Sleep, Wake

LEMMA NextKeepsRoomInv ==
    TypeInv /\ UndoInv /\ WatchedResultIsFresh /\ RoomInv /\ [Next]_vars => RoomInv'
<1> SUFFICES ASSUME TypeInv, UndoInv, WatchedResultIsFresh, RoomInv, [Next]_vars PROVE RoomInv'
  OBVIOUS
<1>1. CASE BackendUpdate
  BY <1>1, BackendUpdateKeepsRoomInv
<1>2. CASE AppUpdate
  BY <1>2, AppUpdateKeepsRoomInv
<1>3. CASE UiEvent
  BY <1>3, UiKeepsRoomInv
<1>4. CASE FlushQueue
  BY <1>4 DEF FlushQueue, Turn, Store, RoomInv, Room, appVars, queueVars
<1>5. CASE \/ TaskEnds \/ ServerStep(BackendAnswers) \/ ServerStep(LateExecution)
           \/ ClockStep(DeadlinePasses) \/ ClockStep(BackoffElapses) \/ UNCHANGED vars
  <2>1. UNCHANGED <<phase, appVars, result, queue>>
    BY <1>5 DEF TaskEnds, NetworkStep, ServerStep, ClockStep, DeadlinePasses, BackoffElapses,
                vars, backendVars, slotVars, queueVars
  <2> QED BY <2>1 DEF RoomInv, Room, AwaitsResult, appVars
<1>6. CASE Restart
  BY <1>6 DEF Restart, RoomInv, AwaitsResult
<1> QED BY <1>1, <1>2, <1>3, <1>4, <1>5, <1>6
        DEF Next, LoopStep, PowerCut, PowerReturns

LEMMA InitRoomInv == Init => RoomInv
BY DEF Init, AppInit, RoomInv, AwaitsResult

\* Whatever the surroundings do, enqueue_undo() finds room: the purchase it
\* takes back is still queued, or it, or its refused reversal, has left the
\* queue.  So the timer's success after an undo never covers up a refusal.
THEOREM UndoAlwaysFits == Spec => []UndoHasRoom
<1>1. RoomInv => UndoHasRoom
  BY DEF RoomInv, Room, UndoHasRoom
<1> QED BY <1>1, InitTypeInv, NextKeepsTypeInv, InitSlotInv, NextKeepsUndoInv, InitFresh,
           NextKeepsFresh, InitRoomInv, NextKeepsRoomInv, PTL DEF Spec

=============================================================================
