--------------------------- MODULE TerminalDrinks ---------------------------
(***************************************************************************)
(* Proofs about what is booked.  First, about the entry being sent: it is  *)
(* the head of the queue, so that an acknowledgement pops what it          *)
(* acknowledges, and it is on flash while the network task works on it.    *)
(* Then that no booked drink is lost, for every set of transactions and    *)
(* capacity of the queue, when storage works, the backend gives no verdict *)
(* of its own, and Undo is not tapped while that purchase is being sent.   *)
(* Lost, late and unreadable answers, retries, catalog edits, a missing    *)
(* network task and power cuts between any two steps are all covered.      *)
(* Last, in the same surroundings, that a reversal is queued only for a    *)
(* purchase that is in the sheet already.                                  *)
(***************************************************************************)
EXTENDS TerminalSafety

NoEarlyUndo == "early_undo" \notin Env

StorageWorks == "write_fails" \notin Env /\ "cut_in_write" \notin Env

----------------------------------------------------------------------------
(* The head of the queue *)

\* A purchase or void in the slot was built from the head, which is still there.
HeadInv ==
    op \in {"Purchase", "Void"} =>
        queue # <<>> /\ queue[1] = request /\ op = OpFor(request)

LEMMA TouchKeepsHeadInv ==
    ASSUME TypeInv, HeadInv, TakesSlot, TouchesQueue, NoEarlyUndo
    PROVE  HeadInv'
<1>1. queue \in Seq(Entry) /\ Len(queue) \in Nat
  BY LenProperties DEF TypeInv, TypeOK, QueueTypeOK
<1>2. CASE op = "None"
  BY <1>2 DEF TakesSlot, HeadInv
<1>3. CASE op # "None"
  <2>1. UNCHANGED <<op, request>>
    BY <1>3 DEF TakesSlot
  <2>2. CASE UNCHANGED queueVars
    BY <2>1, <2>2 DEF HeadInv, queueVars
  <2>3. CASE \E e \in Entry : ~Full(queue) /\ Store(Append(queue, e), Env)
    <3>1. PICK e \in Entry : ~Full(queue) /\ queue' = Append(queue, e)
      BY <2>3 DEF Store
    <3>2. queue # <<>> => queue' # <<>> /\ queue'[1] = queue[1]
      BY <1>1, <3>1, AppendFits, EmptySeq
    <3> QED BY <2>1, <3>2 DEF HeadInv
  <2>4. CASE HoldsPurchase(queue, tx) /\ Store(WithoutPurchase(queue, tx), Env) /\ ~BeingSent
    <3> DEFINE k == FirstPurchase(queue, tx)
    <3>1. /\ k \in 1 .. Len(queue) /\ queue[k] = Purchase(tx)
          /\ DOMAIN queue' = 1 .. (Len(queue) - 1)
          /\ \A j \in 1 .. (Len(queue) - 1) :
               queue'[j] = IF j < k THEN queue[j] ELSE queue[j + 1]
      BY <1>1, <2>4, WithoutPurchaseShape DEF Store
    <3> HIDE DEF k
    <3> SUFFICES ASSUME op \in {"Purchase", "Void"} PROVE HeadInv'
      BY <2>1 DEF HeadInv
    <3>2. queue[1] = request /\ op = OpFor(request)
      BY DEF HeadInv
    <3>3. k # 1
      BY <2>4, <3>1, <3>2 DEF BeingSent, OpFor, Purchase
    <3>4. 1 \in 1 .. (Len(queue) - 1) /\ 1 < k
      BY <1>1, <3>1, <3>3
    <3>5. queue'[1] = queue[1] /\ 1 \in DOMAIN queue'
      BY <3>1, <3>4
    <3>6. queue' # <<>>
      BY <3>5
    <3> QED BY <2>1, <3>2, <3>5, <3>6 DEF HeadInv
  <2> QED BY <2>2, <2>3, <2>4 DEF TouchesQueue, NoEarlyUndo
<1> QED BY <1>2, <1>3

LEMMA BackendUpdateKeepsHeadInv == HeadInv /\ BackendUpdate => HeadInv'
<1> SUFFICES ASSUME HeadInv, BackendUpdate PROVE HeadInv'
  OBVIOUS
<1> USE DEF BackendTurn, HeadInv
<1>1. CASE BackendTurn(FetchSummary)
  BY <1>1 DEF FetchSummary, Start
<1>2. CASE BackendTurn(DrainQueue)
  BY <1>2 DEF DrainQueue, SendQueuedNow, Start, queueVars
<1>3. CASE BackendTurn(PeriodicSync)
  BY <1>3 DEF PeriodicSync, StartSync
<1>4. CASE BackendTurn(PostRequest)
  BY <1>4 DEF PostRequest, queueVars
<1>5. CASE \E r \in Results : Finish(r)
  BY <1>5 DEF Finish
<1>6. CASE BackendTurn(BackendIdle)
  BY <1>6 DEF BackendIdle, backendVars, queueVars
<1> QED BY <1>1, <1>2, <1>3, <1>4, <1>5, <1>6
        DEF BackendUpdate, PostRefused, GiveUpOnRadio, RequestFailed, SummaryArrives,
            SyncArrives, AckOk, AckRejected, AckUnreadable, Results

LEMMA NextKeepsHeadInv ==
    ASSUME NoEarlyUndo
    PROVE  TypeInv /\ UndoInv /\ HeadInv /\ [Next]_vars => HeadInv'
<1> SUFFICES ASSUME TypeInv, UndoInv, HeadInv, [Next]_vars PROVE HeadInv'
  OBVIOUS
<1>1. CASE BackendUpdate
  BY <1>1, BackendUpdateKeepsHeadInv
<1>2. CASE AppUpdate
  BY <1>2, AppUpdateEffect DEF HeadInv, queueVars
<1>3. CASE UiEvent
  BY <1>3, UiEffect, TouchKeepsHeadInv
<1>4. CASE FlushQueue \/ UNCHANGED vars
  BY <1>4 DEF FlushQueue, Store, vars, HeadInv, backendVars, queueVars
<1>5. CASE TaskEnds \/ ServerStep(BackendAnswers) \/ ServerStep(LateExecution)
  BY <1>5 DEF TaskEnds, NetworkStep, ServerStep, HeadInv, backendVars, queueVars
<1>6. CASE ClockStep(DeadlinePasses) \/ ClockStep(BackoffElapses)
  BY <1>6 DEF ClockStep, DeadlinePasses, BackoffElapses, HeadInv, slotVars, queueVars
<1>7. CASE Restart
  BY <1>7 DEF Restart, HeadInv
<1> QED BY <1>1, <1>2, <1>3, <1>4, <1>5, <1>6, <1>7
        DEF Next, LoopStep, PowerCut, PowerReturns

LEMMA InitHeadInv == Init => HeadInv
BY DEF Init, BackendInit, HeadInv

\* Unless Undo is tapped while that very purchase is being sent, the entry in
\* the slot is the head of the queue, so backend::update() pops what was
\* acknowledged; storage, network, backend and power may do what they like.
THEOREM HeadCorrect ==
    ASSUME NoEarlyUndo
    PROVE  Spec => []HeadIsInFlight
<1>1. HeadInv => HeadIsInFlight
  BY DEF HeadInv, HeadIsInFlight
<1> QED BY <1>1, InitTypeInv, NextKeepsTypeInv, InitSlotInv, NextKeepsUndoInv, InitHeadInv,
           NextKeepsHeadInv, PTL DEF Spec

----------------------------------------------------------------------------
(* What is being sent is on flash *)

LEMMA StoredQueue ==
    ASSUME StorageWorks, NEW q, Store(q, Env)
    PROVE  queue' = q /\ file' = q /\ dirty' = FALSE
BY DEF StorageWorks, Store, Flush

LEMMA BackgroundRequests == SyncRequest \notin Entry /\ SummaryRequest \notin Entry
BY DEF SyncRequest, SummaryRequest, Entry, Transaction, Change

\* The file lags behind the queue only between a pop and the flush that ends
\* the iteration, and a request is posted only at the start of one.
FileFollows == (~dirty => file = queue) /\ (phase = "backend" => ~dirty)

SlotKind == op \in {"Sync", "MySummary"} => request \notin Entry

DurableInv == FileFollows /\ SlotKind /\ DurableBeforeSent

\* Wherever the queue is written out, the entry under way is in it.
Sending == status = "Busy" /\ wire \in Entry

LEMMA SendingIsQueued ==
    TypeInv /\ SlotInv /\ HeadInv /\ SlotKind /\ Sending => Has(queue, wire)
<1> SUFFICES ASSUME TypeInv, SlotInv, HeadInv, SlotKind, Sending PROVE Has(queue, wire)
  OBVIOUS
<1> USE DEF Sending
<1>1. posted /\ op # "None" /\ wire = request
  BY DEF SlotInv, OutcomeBelongsToSlot
<1>2. op \in {"Purchase", "Void"}
  BY <1>1 DEF SlotKind, TypeInv, TypeOK, BackendTypeOK, SlotTypeOK, Ops
<1>3. queue # <<>> /\ queue[1] = wire
  BY <1>1, <1>2 DEF HeadInv
<1>4. 1 \in DOMAIN queue
  BY <1>3, EmptySeq, LenProperties DEF TypeInv, TypeOK, QueueTypeOK
<1> QED BY <1>1, <1>3, <1>4 DEF Has

LEMMA BackendUpdateKeepsDurableInv ==
    TypeInv /\ HeadInv /\ DurableInv /\ BackendUpdate => DurableInv'
<1> SUFFICES ASSUME TypeInv, HeadInv, DurableInv, BackendUpdate PROVE DurableInv'
  OBVIOUS
<1>1. phase = "backend" /\ phase' = "app" /\ ~dirty /\ file = queue
  BY DEF BackendUpdate, BackendTurn, Turn, DurableInv, FileFollows
<1>2. FileFollows'
  <2>1. UNCHANGED queueVars \/ ChangeInMemory(Popped(queue))
    BY DEF BackendUpdate, BackendTurn, FetchSummary, DrainQueue, PeriodicSync, PostRequest,
           PostRefused, GiveUpOnRadio, RequestFailed, SummaryArrives, SyncArrives, AckOk,
           AckRejected, AckUnreadable, BackendIdle
  <2> QED BY <1>1, <2>1 DEF FileFollows, ChangeInMemory, queueVars
<1>3. file' = file
  BY DEF BackendUpdate, BackendTurn, FetchSummary, DrainQueue, PeriodicSync, PostRequest,
         PostRefused, GiveUpOnRadio, RequestFailed, SummaryArrives, SyncArrives, AckOk,
         AckRejected, AckUnreadable, BackendIdle, ChangeInMemory, queueVars
<1>4. SlotKind' /\ DurableBeforeSent'
  <2> USE <1>1, <1>3 DEF BackendTurn, DurableInv, SlotKind, DurableBeforeSent
  <2>1. CASE BackendTurn(FetchSummary)
    BY <2>1, BackgroundRequests DEF FetchSummary, Start, apiVars
  <2>2. CASE BackendTurn(DrainQueue)
    BY <2>2 DEF DrainQueue, SendQueuedNow, Start, OpFor, apiVars
  <2>3. CASE BackendTurn(PeriodicSync)
    BY <2>3, BackgroundRequests DEF PeriodicSync, StartSync, apiVars
  <2>4. CASE BackendTurn(PostRequest)
    <3>1. status' = "Busy" /\ wire' = request /\ op # "None" /\ op' = op /\ request' = request
      BY <2>4 DEF PostRequest, Post
    <3>2. CASE request \in Entry
      <4>1. op \in {"Purchase", "Void"}
        BY <3>1, <3>2 DEF TypeInv, TypeOK, BackendTypeOK, SlotTypeOK, Ops
      <4>2. queue # <<>> /\ queue[1] = request
        BY <4>1 DEF HeadInv
      <4>3. 1 \in DOMAIN queue
        BY <4>2, EmptySeq, LenProperties DEF TypeInv, TypeOK, QueueTypeOK
      <4>4. Has(queue, request)
        BY <4>2, <4>3 DEF Has
      <4>5. Has(file', wire')
        BY <3>1, <4>4
      <4> QED BY <3>1, <4>1, <4>5
    <3> QED BY <3>1, <3>2
  <2>5. CASE \E r \in Results : Finish(r)
    BY <2>5 DEF Finish, ResetClient
  <2>6. CASE BackendTurn(BackendIdle)
    BY <2>6 DEF BackendIdle, backendVars, apiVars
  <2> QED BY <2>1, <2>2, <2>3, <2>4, <2>5, <2>6
          DEF BackendUpdate, PostRefused, GiveUpOnRadio, RequestFailed, SummaryArrives,
              SyncArrives, AckOk, AckRejected, AckUnreadable, Results
<1> QED BY <1>2, <1>4 DEF DurableInv

\* A touch or the flush writes the queue out, and the entry under way is in it.
LEMMA WritingKeepsDurable ==
    ASSUME TypeInv', SlotInv', HeadInv', SlotKind', file' = queue', dirty' = FALSE
    PROVE  DurableInv'
<1>1. (TypeInv /\ SlotInv /\ HeadInv /\ SlotKind /\ Sending => Has(queue, wire))'
  BY SendingIsQueued, PTL
<1>2. Has(queue', wire') = Has(file', wire')
  OBVIOUS
<1> QED BY <1>1, <1>2 DEF Sending, DurableInv, FileFollows, DurableBeforeSent

LEMMA NextKeepsDurableInv ==
    ASSUME NoEarlyUndo, StorageWorks
    PROVE  TypeInv /\ UndoInv /\ SlotInv /\ HeadInv /\ DurableInv /\ [Next]_vars => DurableInv'
<1> SUFFICES ASSUME TypeInv, UndoInv, SlotInv, HeadInv, DurableInv, [Next]_vars
             PROVE  DurableInv'
  OBVIOUS
<1>0. TypeInv' /\ SlotInv' /\ HeadInv'
  BY NextKeepsTypeInv, NextKeepsSlotInv, NextKeepsHeadInv
<1>1. CASE BackendUpdate
  BY <1>1, BackendUpdateKeepsDurableInv
<1>2. CASE AppUpdate
  <2>1. phase' = "ui"
    BY <1>2 DEF AppUpdate, AppTurn, Turn
  <2> QED BY <1>2, <2>1, AppUpdateEffect
          DEF DurableInv, FileFollows, SlotKind, DurableBeforeSent, queueVars, apiVars
<1>3. CASE UiEvent
  <2>1. phase' = "flush" /\ UNCHANGED apiVars /\ TakesSlot /\ TouchesQueue
    BY <1>3, UiEffect DEF UiEvent, UiTurn, Turn
  <2>2. SlotKind'
    BY <2>1, BackgroundRequests DEF TakesSlot, OpFor, DurableInv, SlotKind
  <2>3. CASE UNCHANGED queueVars
    BY <2>1, <2>2, <2>3 DEF DurableInv, FileFollows, DurableBeforeSent, queueVars, apiVars
  <2>4. CASE \E q : Store(q, Env)
    BY <1>0, <2>2, <2>4, StoredQueue, WritingKeepsDurable
  <2> QED BY <2>1, <2>3, <2>4 DEF TouchesQueue
<1>4. CASE FlushQueue
  <2>1. SlotKind' /\ UNCHANGED apiVars
    BY <1>4 DEF FlushQueue, DurableInv, SlotKind, backendVars
  <2>2. CASE dirty
    BY <1>0, <1>4, <2>1, <2>2, StoredQueue, WritingKeepsDurable DEF FlushQueue
  <2>3. CASE ~dirty
    BY <1>4, <2>1, <2>3
       DEF FlushQueue, DurableInv, FileFollows, DurableBeforeSent, queueVars, apiVars
  <2> QED BY <2>2, <2>3
<1>5. CASE UNCHANGED vars
  BY <1>5 DEF vars, DurableInv, FileFollows, SlotKind, DurableBeforeSent, backendVars, apiVars,
              queueVars
<1>6. CASE TaskEnds
  BY <1>6 DEF TaskEnds, NetworkStep, PerformDone, PerformUnreadable, PerformFails,
              DurableInv, FileFollows, SlotKind, DurableBeforeSent, backendVars, queueVars
<1>7. CASE ServerStep(BackendAnswers) \/ ServerStep(LateExecution)
  BY <1>7 DEF ServerStep, BackendAnswers, LateExecution,
              DurableInv, FileFollows, SlotKind, DurableBeforeSent, backendVars, queueVars
<1>8. CASE ClockStep(DeadlinePasses) \/ ClockStep(BackoffElapses)
  BY <1>8 DEF ClockStep, DeadlinePasses, BackoffElapses, slotVars, apiVars, queueVars,
              DurableInv, FileFollows, SlotKind, DurableBeforeSent
<1>9. CASE Restart
  BY <1>9, BackgroundRequests DEF Restart, LoadQueue, AbandonClient,
              DurableInv, FileFollows, SlotKind, DurableBeforeSent
<1> QED BY <1>1, <1>2, <1>3, <1>4, <1>5, <1>6, <1>7, <1>8, <1>9
        DEF Next, LoopStep, PowerCut, PowerReturns

LEMMA InitDurableInv == Init => DurableInv
BY BackgroundRequests DEF Init, QueueInit, ApiInit, BackendInit, DurableInv, FileFollows,
   SlotKind, DurableBeforeSent

\* With storage that works and no Undo of what is being sent, every transaction
\* is on flash for as long as the network task works on it, which is what
\* flushing in enqueue_purchase() before the first attempt is for.
THEOREM DurableCorrect ==
    ASSUME NoEarlyUndo, StorageWorks
    PROVE  Spec => []DurableBeforeSent
<1>1. DurableInv => DurableBeforeSent
  BY DEF DurableInv
<1> QED BY <1>1, InitTypeInv, NextKeepsTypeInv, InitSlotInv, NextKeepsSlotInv,
           NextKeepsUndoInv, InitHeadInv, NextKeepsHeadInv, InitDurableInv,
           NextKeepsDurableInv, PTL DEF Spec

----------------------------------------------------------------------------
(* No booked drink is lost *)

Calm ==
    /\ NoEarlyUndo /\ StorageWorks
    /\ "lock_busy" \notin Env /\ "throws" \notin Env
    /\ Refusable = {}

\* A submission that will be reported as booked is stored, or recorded already.
BookedIsStored ==
    screen = "Submitting" /\ ~(simulated /\ failNext) =>
        rows[tx] > 0 \/ Has(file, Purchase(tx)) \/ tx \in undoAsked

\* What the file would bring back after a restart the running program still
\* has, unless the backend has it or the user has taken it back.
FileIsHeld ==
    \A t \in Tx \ undoAsked : Has(file, Purchase(t)) => rows[t] > 0 \/ Has(queue, Purchase(t))

\* An answer that can be read as an acknowledgement means the row is there.
AckTells ==
    \A t \in Tx : wire = Purchase(t) => rows[t] > 0 \/ answer \in {"none", "unreadable"}

DrinkInv == BookedIsStored /\ FileIsHeld /\ AckTells /\ DrinkNeverLost

----------------------------------------------------------------------------
(* The sheet and the link *)

LEMMA DoPostGrows ==
    ASSUME SheetTypeOK, NEW r, NEW a, DoPost(r, a), NEW t \in Tx, rows[t] > 0
    PROVE  rows'[t] > 0
<1>1. CASE UNCHANGED rows
  BY <1>1
<1>2. CASE \E u : rows' = [rows EXCEPT ![u] = @ + 1]
  <2>1. rows \in [Tx -> Nat]
    BY DEF SheetTypeOK
  <2> QED BY <1>2, <2>1
<1> QED BY <1>1, <1>2 DEF DoPost, RecordPurchase, VoidPurchase, AppendRow, MarkRow, sheetVars

\* In calm surroundings the backend answers a purchase with its row in place.
LEMMA CalmAnswer ==
    ASSUME Calm, SheetTypeOK, NEW t \in Tx, NEW a, DoPost(Purchase(t), a)
    PROVE  rows'[t] > 0
<1>1. RecordPurchase(t, a)
  BY DEF DoPost, Purchase
<1>2. rows \in [Tx -> Nat]
  BY DEF SheetTypeOK
<1> QED BY <1>1, <1>2 DEF RecordPurchase, AppendRow, FindPurchaseRow, sheetVars, Calm

\* The sheet only ever gains rows.
RowsStay == \A t \in Tx : rows[t] > 0 => rows'[t] > 0

LEMMA AckTellsOfLink ==
    ASSUME TypeInv, AckTells, Calm,
           \/ TaskEnds
           \/ ServerStep(BackendAnswers)
           \/ ServerStep(LateExecution)
    PROVE  RowsStay /\ AckTells'
<1>0. SheetTypeOK
  BY DEF TypeInv, TypeOK
<1>1. CASE TaskEnds
  BY <1>1 DEF TaskEnds, NetworkStep, PerformDone, PerformUnreadable, PerformFails, AckTells,
              RowsStay, sheetVars
<1>2. CASE ServerStep(BackendAnswers)
  <2>1. PICK a \in Answers : DoPost(wire, a) /\ answer' = a /\ wire' = wire
    BY <1>2 DEF ServerStep, BackendAnswers
  <2>2. RowsStay
    BY <1>0, <2>1, DoPostGrows DEF RowsStay
  <2>3. \A t \in Tx : wire = Purchase(t) => rows'[t] > 0
    BY <1>0, <2>1, CalmAnswer
  <2> QED BY <2>1, <2>2, <2>3 DEF AckTells
<1>3. CASE ServerStep(LateExecution)
  <2>1. PICK r \in late : \E a \in Answers : DoPost(r, a)
    BY <1>3 DEF ServerStep, LateExecution
  <2>2. RowsStay
    BY <1>0, <2>1, DoPostGrows DEF RowsStay
  <2> QED BY <1>3, <2>2 DEF ServerStep, LateExecution, AckTells, RowsStay
<1> QED BY <1>1, <1>2, <1>3

----------------------------------------------------------------------------
(* The loop *)

\* The queue in memory loses a purchase only to its acknowledgement.
LEMMA BackendUpdateKeepsDrinkInv ==
    TypeInv /\ SlotInv /\ HeadInv /\ DrinkInv /\ BackendUpdate => DrinkInv'
<1> SUFFICES ASSUME TypeInv, SlotInv, HeadInv, DrinkInv, BackendUpdate PROVE DrinkInv'
  OBVIOUS
<1>1. UNCHANGED appVars /\ UNCHANGED sheetVars /\ file' = file
  BY DEF BackendUpdate, BackendTurn, FetchSummary, DrainQueue, PeriodicSync, PostRequest,
         PostRefused, GiveUpOnRadio, RequestFailed, SummaryArrives, SyncArrives, AckOk,
         AckRejected, AckUnreadable, BackendIdle, ChangeInMemory, queueVars
<1>2. BookedIsStored' /\ DrinkNeverLost'
  BY <1>1 DEF DrinkInv, BookedIsStored, DrinkNeverLost, appVars, sheetVars
<1>3. AckTells'
  <2>1. \/ UNCHANGED apiVars
        \/ answer' = "none"
    BY DEF BackendUpdate, BackendTurn, FetchSummary, DrainQueue, PeriodicSync, PostRequest,
           PostRefused, GiveUpOnRadio, RequestFailed, SummaryArrives, SyncArrives, AckOk,
           AckRejected, AckUnreadable, BackendIdle, Post, Finish, ResetClient
  <2> QED BY <1>1, <2>1 DEF DrinkInv, AckTells, apiVars, sheetVars
<1>4. FileIsHeld'
  <2>1. CASE BackendTurn(AckOk) \/ BackendTurn(AckRejected)
    <3>1. /\ op \in {"Purchase", "Void"} /\ posted /\ queue' = Popped(queue)
          /\ answer \notin {"none", "unreadable"}
      BY <2>1 DEF BackendTurn, AckOk, AckRejected, AckArrives, ParseAck, ChangeInMemory
    <3>2. queue[1] = wire
      BY <3>1 DEF SlotInv, OutcomeBelongsToSlot, HeadInv
    <3>3. ASSUME NEW t \in Tx \ undoAsked, Has(file, Purchase(t))
          PROVE  rows[t] > 0 \/ Has(Popped(queue), Purchase(t))
      <4>1. CASE wire = Purchase(t)
        BY <3>1, <3>3, <4>1 DEF DrinkInv, AckTells
      <4>2. CASE wire # Purchase(t)
        BY <3>2, <3>3, <4>2, HasPopped DEF DrinkInv, FileIsHeld, TypeInv, TypeOK, QueueTypeOK
      <4> QED BY <4>1, <4>2
    <3> QED BY <1>1, <3>1, <3>3 DEF FileIsHeld, appVars, sheetVars
  <2>2. CASE UNCHANGED queueVars
    BY <1>1, <2>2 DEF DrinkInv, FileIsHeld, appVars, sheetVars, queueVars
  <2> QED BY <2>1, <2>2
          DEF BackendUpdate, BackendTurn, FetchSummary, DrainQueue, PeriodicSync, PostRequest,
              PostRefused, GiveUpOnRadio, RequestFailed, SummaryArrives, SyncArrives,
              AckUnreadable, BackendIdle
<1> QED BY <1>2, <1>3, <1>4 DEF DrinkInv

\* The terminal calls booked only what is stored or recorded.
LEMMA AppUpdateKeepsDrinkInv == TypeInv /\ DrinkInv /\ AppUpdate => DrinkInv'
<1> SUFFICES ASSUME TypeInv, DrinkInv, AppUpdate PROVE DrinkInv'
  OBVIOUS
<1>1. /\ UNCHANGED apiVars /\ UNCHANGED sheetVars /\ UNCHANGED queueVars
      /\ undoAsked' = undoAsked
  BY AppUpdateEffect
<1>2. AckTells' /\ FileIsHeld'
  BY <1>1 DEF DrinkInv, AckTells, FileIsHeld, apiVars, sheetVars, queueVars
<1>3. \/ screen' # "Submitting"
      \/ UNCHANGED <<screen, tx, simulated, failNext>>
  BY DEF AppUpdate, AppTurn, PollSucceeds, PollFails, SubmitTimer, UndoTimer, Dwell, AppIdle,
         ShowBooked, ShowUndone, BackToCatalog, appVars
<1>4. BookedIsStored'
  BY <1>1, <1>3 DEF DrinkInv, BookedIsStored, sheetVars, queueVars
<1>5. told \in [Tx -> {"nothing", "booked", "undone"}]
  BY DEF TypeInv, TypeOK, AppTypeOK
<1>6. \/ told' = told
      \/ Tell("undone")
      \/ Tell("booked") /\ screen = "Submitting" /\ ~(simulated /\ failNext)
  BY DEF AppUpdate, AppTurn, PollSucceeds, PollFails, SubmitTimer, UndoTimer, Dwell, AppIdle,
         ShowBooked, ShowUndone, AwaitsResult, historyVars, appVars
<1>7. DrinkNeverLost'
  <2>1. ASSUME NEW t \in Tx \ undoAsked, told'[t] = "booked"
        PROVE  rows[t] > 0 \/ Has(file, Purchase(t))
    <3>1. CASE told[t] = "booked"
      BY <2>1, <3>1 DEF DrinkInv, DrinkNeverLost
    <3>2. CASE told[t] # "booked"
      <4>1. t = tx /\ screen = "Submitting" /\ ~(simulated /\ failNext)
        BY <1>5, <1>6, <2>1, <3>2 DEF Tell
      <4> QED BY <2>1, <4>1 DEF DrinkInv, BookedIsStored
    <3> QED BY <3>1, <3>2
  <2> QED BY <1>1, <2>1 DEF DrinkNeverLost, sheetVars, queueVars
<1> QED BY <1>2, <1>4, <1>7 DEF DrinkInv

\* A submission enters the queue and the file in the step that shows it, unless
\* there is no room, and then the timer reports an error.
LEMMA UiSubmits ==
    ASSUME TypeInv, StorageWorks, UiEvent
    PROVE  /\ told' = told /\ undoAsked \subseteq undoAsked'
           /\ \/ screen' # "Submitting"
              \/ simulated' /\ failNext'
              \/ Has(file', Purchase(tx'))
              \/ UNCHANGED <<screen, tx, simulated, failNext, undoAsked, file>>
<1>1. ASSUME NEW t \in Tx, NEW r, EnqueuePurchase(t, r)
      PROVE  (simulated' /\ failNext') \/ Has(file', Purchase(t))
  <2>1. CASE Full(queue)
    BY <1>1, <2>1 DEF EnqueuePurchase, Enqueue, Refused
  <2>2. CASE ~Full(queue)
    <3>1. file' = Append(queue, Purchase(t))
      BY <1>1, <2>2, StoredQueue DEF EnqueuePurchase, Enqueue
    <3>2. Purchase(t) \in Entry /\ queue \in Seq(Entry)
      BY DEF Purchase, Entry, Transaction, TypeInv, TypeOK, QueueTypeOK
    <3> QED BY <2>2, <3>1, <3>2, HasAppend
  <2> QED BY <2>1, <2>2
<1>2. CASE \E t \in Tx : UiTurn(TapResident(t))
  <2>1. PICK t \in Tx : UiTurn(TapResident(t))
    BY <1>2
  <2>2. EnqueuePurchase(t, "Idle") /\ tx' = t /\ told' = told /\ undoAsked' = undoAsked
    BY <2>1 DEF UiTurn, TapResident
  <2> QED BY <1>1, <2>2
<1>3. CASE UiTurn(TapRetry)
  <2>1. /\ tx' = tx /\ tx \in Tx /\ told' = told /\ undoAsked' = undoAsked
        /\ screen' = "Undoing" \/ EnqueuePurchase(tx, result)
    BY <1>3 DEF UiTurn, TapRetry, RetryAgain, historyVars, TypeInv, ScreenHasTx
  <2> QED BY <1>1, <2>1
<1>4. CASE UiTurn(TapUndo)
  BY <1>4 DEF UiTurn, TapUndo
<1>5. CASE UiTurn(UiIdle)
  BY <1>5 DEF UiTurn, UiIdle, appVars, queueVars
<1>6. CASE screen' # "Submitting" /\ UNCHANGED historyVars
  BY <1>6 DEF historyVars
<1> QED BY <1>2, <1>3, <1>4, <1>5, <1>6
        DEF UiEvent, UiTurn, TapProduct, TapBack, BackToCatalog, TapSummary, TapEditor,
            ConfirmEdit, TapAdmin, ToggleFailure, Sleep, Wake

\* Writing out a queue that has lost nothing but what was taken back.
LEMMA WritingKeepsDrinks ==
    ASSUME DrinkInv, UNCHANGED sheetVars, told' = told, undoAsked \subseteq undoAsked',
           file' = queue',
           \A t \in Tx \ undoAsked' : Has(queue, Purchase(t)) => Has(queue', Purchase(t))
    PROVE  /\ FileIsHeld' /\ DrinkNeverLost'
           /\ \A t \in Tx \ undoAsked' :
                 rows[t] > 0 \/ Has(file, Purchase(t)) => rows[t] > 0 \/ Has(file', Purchase(t))
BY DEF DrinkInv, FileIsHeld, DrinkNeverLost, sheetVars

LEMMA UiEventKeepsDrinkInv ==
    ASSUME NoEarlyUndo, StorageWorks
    PROVE  TypeInv /\ UndoInv /\ DrinkInv /\ UiEvent => DrinkInv'
<1> SUFFICES ASSUME TypeInv, UndoInv, DrinkInv, UiEvent PROVE DrinkInv'
  OBVIOUS
<1>1. UNCHANGED apiVars /\ UNCHANGED sheetVars /\ TouchesQueue
  BY UiEffect
<1>2. told' = told /\ undoAsked \subseteq undoAsked'
  BY UiSubmits
<1>3. AckTells'
  BY <1>1 DEF DrinkInv, AckTells, apiVars, sheetVars
<1>4. queue \in Seq(Entry)
  BY DEF TypeInv, TypeOK, QueueTypeOK
<1>5. FileIsHeld' /\ DrinkNeverLost'
  <2>1. CASE UNCHANGED queueVars
    BY <1>1, <1>2, <2>1 DEF DrinkInv, FileIsHeld, DrinkNeverLost, sheetVars, queueVars
  <2>2. CASE \E e \in Entry : ~Full(queue) /\ Store(Append(queue, e), Env)
    <3>1. PICK e \in Entry : ~Full(queue) /\ Store(Append(queue, e), Env)
      BY <2>2
    <3>2. file' = queue' /\ queue' = Append(queue, e)
      BY <3>1, StoredQueue
    <3> QED BY <1>1, <1>2, <1>4, <3>1, <3>2, HasAppend, WritingKeepsDrinks
  <2>3. CASE /\ HoldsPurchase(queue, tx)
             /\ Store(WithoutPurchase(queue, tx), Env)
             /\ tx \in undoAsked'
    <3>1. file' = queue' /\ queue' = WithoutPurchase(queue, tx)
      BY <2>3, StoredQueue
    <3>2. \A t \in Tx \ undoAsked' : Purchase(t) # Purchase(tx)
      BY <2>3 DEF Purchase
    <3> QED BY <1>1, <1>2, <1>4, <2>3, <3>1, <3>2, HasWithoutPurchase, WritingKeepsDrinks
  <2> QED BY <1>1, <2>1, <2>2, <2>3 DEF TouchesQueue
<1>6. BookedIsStored'
  BY <1>1, UiSubmits DEF DrinkInv, BookedIsStored, sheetVars
<1> QED BY <1>3, <1>5, <1>6 DEF DrinkInv

LEMMA FlushKeepsDrinkInv ==
    ASSUME StorageWorks
    PROVE  TypeInv /\ DrinkInv /\ FlushQueue => DrinkInv'
<1> SUFFICES ASSUME TypeInv, DrinkInv, FlushQueue PROVE DrinkInv'
  OBVIOUS
<1>1. UNCHANGED appVars /\ UNCHANGED apiVars /\ UNCHANGED sheetVars
  BY DEF FlushQueue
<1>2. told' = told /\ undoAsked' = undoAsked /\ UNCHANGED <<screen, tx, simulated, failNext>>
  BY <1>1 DEF appVars
<1>3. AckTells'
  BY <1>1 DEF DrinkInv, AckTells, apiVars, sheetVars
<1>4. CASE dirty
  <2>1. file' = queue /\ queue' = queue
    BY <1>4, StoredQueue DEF FlushQueue
  <2>2. /\ FileIsHeld' /\ DrinkNeverLost'
        /\ \A t \in Tx \ undoAsked' :
              rows[t] > 0 \/ Has(file, Purchase(t)) => rows[t] > 0 \/ Has(file', Purchase(t))
    BY <1>1, <1>2, <2>1, WritingKeepsDrinks
  <2>3. BookedIsStored'
    BY <1>1, <1>2, <2>2
       DEF DrinkInv, BookedIsStored, sheetVars, TypeInv, ScreenHasTx
  <2> QED BY <1>3, <2>2, <2>3 DEF DrinkInv
<1>5. CASE ~dirty
  BY <1>1, <1>2, <1>3, <1>5
     DEF FlushQueue, DrinkInv, BookedIsStored, FileIsHeld, DrinkNeverLost, sheetVars, queueVars
<1> QED BY <1>4, <1>5

LEMMA NextKeepsDrinkInv ==
    ASSUME Calm
    PROVE  TypeInv /\ UndoInv /\ SlotInv /\ HeadInv /\ DrinkInv /\ [Next]_vars => DrinkInv'
<1> SUFFICES ASSUME TypeInv, UndoInv, SlotInv, HeadInv, DrinkInv, [Next]_vars
             PROVE  DrinkInv'
  OBVIOUS
<1>0. NoEarlyUndo /\ StorageWorks
  BY DEF Calm
<1>1. CASE BackendUpdate
  BY <1>1, BackendUpdateKeepsDrinkInv
<1>2. CASE AppUpdate
  BY <1>2, AppUpdateKeepsDrinkInv
<1>3. CASE UiEvent
  BY <1>0, <1>3, UiEventKeepsDrinkInv
<1>4. CASE FlushQueue
  BY <1>0, <1>4, FlushKeepsDrinkInv
<1>5. CASE TaskEnds \/ ServerStep(BackendAnswers) \/ ServerStep(LateExecution)
  <2>1. RowsStay /\ AckTells'
    BY <1>5, AckTellsOfLink DEF DrinkInv
  <2>2. UNCHANGED appVars /\ UNCHANGED queueVars
    BY <1>5 DEF TaskEnds, NetworkStep, ServerStep
  <2>3. told' = told /\ undoAsked' = undoAsked /\ UNCHANGED <<screen, tx, simulated, failNext>>
        /\ file' = file /\ queue' = queue
    BY <2>2 DEF appVars, queueVars
  <2> QED BY <2>1, <2>3 DEF RowsStay, DrinkInv, BookedIsStored, FileIsHeld, DrinkNeverLost,
                             TypeInv, ScreenHasTx
<1>6. CASE ClockStep(DeadlinePasses) \/ ClockStep(BackoffElapses) \/ UNCHANGED vars
  <2>1. UNCHANGED appVars /\ UNCHANGED apiVars /\ UNCHANGED sheetVars /\ UNCHANGED queueVars
    BY <1>6 DEF ClockStep, DeadlinePasses, BackoffElapses, vars
  <2> QED BY <2>1 DEF DrinkInv, BookedIsStored, FileIsHeld, AckTells, DrinkNeverLost, appVars,
                      apiVars, sheetVars, queueVars
<1>7. CASE Restart
  BY <1>7 DEF Restart, LoadQueue, AbandonClient, DrinkInv, BookedIsStored, FileIsHeld,
              AckTells, DrinkNeverLost, sheetVars, historyVars
<1> QED BY <1>1, <1>2, <1>3, <1>4, <1>5, <1>6, <1>7
        DEF Next, LoopStep, PowerCut, PowerReturns

LEMMA InitDrinkInv == Init => DrinkInv
<1>1. \A x : ~Has(<<>>, x)
  BY DEF Has
<1> QED BY <1>1 DEF Init, SheetInit, ApiInit, QueueInit, AppInit, DrinkInv, BookedIsStored,
                    FileIsHeld, AckTells, DrinkNeverLost

\* A drink the terminal called booked, and nobody took back, is in the sheet or
\* on flash in every state: enqueue_purchase() stores it before anything is
\* shown, and only an acknowledgement of that very purchase takes it away.
THEOREM DrinksAreNeverLost ==
    ASSUME Calm
    PROVE  Spec => []DrinkNeverLost
<1>1. DrinkInv => DrinkNeverLost
  BY DEF DrinkInv
<1>2. NoEarlyUndo
  BY DEF Calm
<1> QED BY <1>1, <1>2, InitTypeInv, NextKeepsTypeInv, InitSlotInv, NextKeepsSlotInv,
           NextKeepsUndoInv, InitHeadInv, NextKeepsHeadInv, InitDrinkInv,
           NextKeepsDrinkInv, PTL DEF Spec

----------------------------------------------------------------------------
(* A reversal finds its purchase *)

\* A drink on its way to being called booked is in the queue in memory or in
\* the sheet; once its reversal has been handed over it is in the sheet.
ShownIsHeld ==
    /\ \/ screen = "Submitting" /\ ~(simulated /\ failNext)
       \/ screen = "Success" /\ ~undone
       => rows[tx] > 0 \/ Has(queue, Purchase(tx))
    /\ \/ screen = "Undoing" /\ ~simulated
       \/ screen = "Error" /\ undoInFlight
       => rows[tx] > 0

VoidsOf(q) == \A t \in Tx : Has(q, Void(t)) => rows[t] > 0

VoidInv == ShownIsHeld /\ VoidsOf(queue) /\ VoidsOf(file)

\* Only its acknowledgement takes a purchase out of the queue.
LEMMA BackendUpdateKeepsVoidInv ==
    TypeInv /\ SlotInv /\ HeadInv /\ AckTells /\ VoidInv /\ BackendUpdate => VoidInv'
<1> SUFFICES ASSUME TypeInv, SlotInv, HeadInv, AckTells, VoidInv, BackendUpdate PROVE VoidInv'
  OBVIOUS
<1>1. UNCHANGED appVars /\ UNCHANGED sheetVars /\ file' = file
  BY DEF BackendUpdate, BackendTurn, FetchSummary, DrainQueue, PeriodicSync, PostRequest,
         PostRefused, GiveUpOnRadio, RequestFailed, SummaryArrives, SyncArrives, AckOk,
         AckRejected, AckUnreadable, BackendIdle, ChangeInMemory, queueVars
<1>2. CASE BackendTurn(AckOk) \/ BackendTurn(AckRejected)
  <2>1. /\ op \in {"Purchase", "Void"} /\ posted /\ queue' = Popped(queue)
        /\ answer \notin {"none", "unreadable"}
    BY <1>2 DEF BackendTurn, AckOk, AckRejected, AckArrives, ParseAck, ChangeInMemory
  <2>2. queue[1] = wire /\ queue \in Seq(Entry)
    BY <2>1 DEF SlotInv, OutcomeBelongsToSlot, HeadInv, TypeInv, TypeOK, QueueTypeOK
  <2>3. ASSUME tx \in Tx, Has(queue, Purchase(tx))
        PROVE  rows[tx] > 0 \/ Has(Popped(queue), Purchase(tx))
    <3>1. CASE wire = Purchase(tx)
      BY <2>1, <2>3, <3>1 DEF AckTells
    <3>2. CASE wire # Purchase(tx)
      BY <2>2, <2>3, <3>2, HasPopped
    <3> QED BY <3>1, <3>2
  <2>4. VoidsOf(Popped(queue))
    BY <2>2, HeldBefore DEF VoidInv, VoidsOf
  <2>5. screen \in {"Submitting", "Success"} => tx \in Tx
    BY DEF TypeInv, ScreenHasTx
  <2>6. ShownIsHeld'
    BY <1>1, <2>1, <2>3, <2>5 DEF VoidInv, ShownIsHeld, appVars, sheetVars
  <2>7. VoidsOf(queue)' /\ VoidsOf(file)'
    BY <1>1, <2>1, <2>4 DEF VoidInv, VoidsOf, sheetVars
  <2> QED BY <2>6, <2>7 DEF VoidInv
<1>3. CASE UNCHANGED queueVars
  BY <1>1, <1>3 DEF VoidInv, ShownIsHeld, VoidsOf, appVars, sheetVars, queueVars
<1> QED BY <1>2, <1>3
        DEF BackendUpdate, BackendTurn, FetchSummary, DrainQueue, PeriodicSync, PostRequest,
            PostRefused, GiveUpOnRadio, RequestFailed, SummaryArrives, SyncArrives,
            AckUnreadable, BackendIdle

LEMMA AppUpdateKeepsVoidInv == UndoInv /\ VoidInv /\ AppUpdate => VoidInv'
<1> SUFFICES ASSUME UndoInv, VoidInv, AppUpdate PROVE VoidInv'
  OBVIOUS
<1>1. UNCHANGED sheetVars /\ UNCHANGED queueVars
  BY AppUpdateEffect
<1>2. ShownIsHeld'
  <2> USE DEF AppTurn
  <2>1. CASE AppTurn(PollSucceeds) \/ AppTurn(SubmitTimer) \/ AppTurn(UndoTimer)
    BY <1>1, <2>1 DEF PollSucceeds, SubmitTimer, UndoTimer, ShowBooked, ShowUndone,
                      AwaitsResult, UndoInv, VoidInv, ShownIsHeld, sheetVars, queueVars
  <2>2. CASE AppTurn(PollFails)
    BY <1>1, <2>2 DEF PollFails, AwaitsResult, UndoInv, VoidInv, ShownIsHeld, sheetVars
  <2>3. CASE AppTurn(Dwell)
    BY <2>3 DEF Dwell, BackToCatalog, ShownIsHeld
  <2>4. CASE AppTurn(AppIdle)
    BY <1>1, <2>4 DEF AppIdle, appVars, VoidInv, ShownIsHeld, sheetVars, queueVars
  <2> QED BY <2>1, <2>2, <2>3, <2>4 DEF AppUpdate
<1> QED BY <1>1, <1>2 DEF VoidInv, VoidsOf, sheetVars, queueVars

LEMMA UiKeepsShownIsHeld ==
    TypeInv /\ UndoInv /\ VoidInv /\ UiEvent => ShownIsHeld'
<1> SUFFICES ASSUME TypeInv, UndoInv, VoidInv, UiEvent PROVE ShownIsHeld'
  OBVIOUS
<1>1. UNCHANGED sheetVars
  BY UiEffect
<1>2. ASSUME NEW t \in Tx, NEW r, EnqueuePurchase(t, r), tx' = t, screen' = "Submitting"
      PROVE  ShownIsHeld'
  <2>1. CASE Full(queue)
    BY <1>2, <2>1 DEF EnqueuePurchase, Enqueue, Refused, ShownIsHeld
  <2>2. CASE ~Full(queue)
    <3>1. queue' = Append(queue, Purchase(t))
      BY <1>2, <2>2 DEF EnqueuePurchase, Enqueue, Store
    <3>2. Purchase(t) \in Entry /\ queue \in Seq(Entry)
      BY DEF Purchase, Entry, Transaction, TypeInv, TypeOK, QueueTypeOK
    <3>3. Has(queue', Purchase(tx'))
      BY <1>2, <2>2, <3>1, <3>2, HasAppend
    <3> QED BY <1>2, <3>3 DEF ShownIsHeld
  <2> QED BY <2>1, <2>2
<1>3. ASSUME MayUndo, EnqueueUndo, tx' = tx, screen' = "Undoing"
      PROVE  ShownIsHeld'
  <2>1. CASE HoldsPurchase(queue, tx)
    BY <1>3, <2>1 DEF EnqueueUndo, NoBackend, ShownIsHeld
  <2>2. CASE ~HoldsPurchase(queue, tx)
    <3>1. ~Has(queue, Purchase(tx))
      BY <2>2 DEF HoldsPurchase, Has
    <3> QED BY <1>1, <1>3, <3>1 DEF MayUndo, VoidInv, ShownIsHeld, sheetVars
  <2> QED BY <2>1, <2>2
<1>4. CASE \E t \in Tx : UiTurn(TapResident(t))
  BY <1>2, <1>4 DEF UiTurn, TapResident
<1>5. CASE UiTurn(TapUndo)
  BY <1>3, <1>5 DEF UiTurn, TapUndo, MayUndo
<1>6. CASE UiTurn(TapRetry)
  BY <1>2, <1>3, <1>6 DEF UiTurn, TapRetry, RetryAgain, MayUndo, TypeInv, ScreenHasTx
<1>7. CASE UiTurn(UiIdle)
  BY <1>1, <1>7 DEF UiTurn, UiIdle, VoidInv, ShownIsHeld, appVars, sheetVars, queueVars
<1>8. CASE screen' \notin {"Submitting", "Undoing", "Success", "Error"}
  BY <1>8 DEF ShownIsHeld
<1> QED BY <1>4, <1>5, <1>6, <1>7, <1>8
        DEF UiEvent, UiTurn, TapProduct, TapBack, BackToCatalog, TapSummary, TapEditor,
            ConfirmEdit, TapAdmin, ToggleFailure, Sleep, Wake

LEMMA UiKeepsVoidInv ==
    ASSUME StorageWorks
    PROVE  TypeInv /\ UndoInv /\ VoidInv /\ UiEvent => VoidInv'
<1> SUFFICES ASSUME TypeInv, UndoInv, VoidInv, UiEvent PROVE VoidInv'
  OBVIOUS
<1>1. UNCHANGED sheetVars /\ TouchesQueue /\ queue \in Seq(Entry)
  BY UiEffect DEF TypeInv, TypeOK, QueueTypeOK
<1>2. VoidsOf(queue') /\ VoidsOf(file')
  <2>1. CASE UNCHANGED queueVars
    BY <2>1 DEF VoidInv, queueVars
  <2>2. CASE \E e \in Entry : Offered(e) /\ ~Full(queue) /\ Store(Append(queue, e), Env)
    <3>1. PICK e \in Entry : Offered(e) /\ ~Full(queue) /\ Store(Append(queue, e), Env)
      BY <2>2
    <3>2. queue' = Append(queue, e) /\ file' = queue'
      BY <3>1, StoredQueue
    <3>3. \A t \in Tx : e = Void(t) => rows[t] > 0
      <4>1. CASE e = Void(tx) /\ ~HoldsPurchase(queue, tx) /\ MayUndo
        <5>1. ~Has(queue, Purchase(tx)) /\ \A t : e = Void(t) => t = tx
          BY <4>1 DEF HoldsPurchase, Has, Void
        <5> QED BY <4>1, <5>1 DEF MayUndo, VoidInv, ShownIsHeld
      <4>2. CASE e = Change \/ e = Purchase(tx')
        <5>1. e.kind # "void" /\ \A t : Void(t).kind = "void"
          BY <4>2 DEF Change, Purchase, Void
        <5> QED BY <5>1
      <4> QED BY <3>1, <4>1, <4>2 DEF Offered
    <3> QED BY <1>1, <3>1, <3>2, <3>3, HasAppend DEF VoidInv, VoidsOf
  <2>3. CASE HoldsPurchase(queue, tx) /\ Store(WithoutPurchase(queue, tx), Env)
    <3>1. queue' = WithoutPurchase(queue, tx) /\ file' = queue'
      BY <2>3, StoredQueue
    <3> QED BY <1>1, <2>3, <3>1, HeldBefore DEF VoidInv, VoidsOf
  <2> QED BY <1>1, <2>1, <2>2, <2>3 DEF TouchesQueue
<1>3. (VoidsOf(queue) /\ VoidsOf(file))'
  BY <1>1, <1>2 DEF VoidsOf, sheetVars
<1> QED BY <1>3, UiKeepsShownIsHeld DEF VoidInv

LEMMA NextKeepsVoidInv ==
    ASSUME Calm
    PROVE  TypeInv /\ UndoInv /\ SlotInv /\ HeadInv /\ AckTells /\ VoidInv /\ [Next]_vars
             => VoidInv'
<1> SUFFICES ASSUME TypeInv, UndoInv, SlotInv, HeadInv, AckTells, VoidInv, [Next]_vars
             PROVE  VoidInv'
  OBVIOUS
<1>0. StorageWorks
  BY DEF Calm
<1>1. CASE BackendUpdate
  BY <1>1, BackendUpdateKeepsVoidInv
<1>2. CASE AppUpdate
  BY <1>2, AppUpdateKeepsVoidInv
<1>3. CASE UiEvent
  BY <1>0, <1>3, UiKeepsVoidInv
<1>4. CASE FlushQueue
  BY <1>0, <1>4, StoredQueue DEF FlushQueue, VoidInv, ShownIsHeld, VoidsOf, appVars, sheetVars,
     queueVars
<1>5. CASE TaskEnds \/ ServerStep(BackendAnswers) \/ ServerStep(LateExecution)
  <2>1. RowsStay
    BY <1>5, AckTellsOfLink
  <2>2. UNCHANGED appVars /\ UNCHANGED queueVars
    BY <1>5 DEF TaskEnds, NetworkStep, ServerStep
  <2>3. ShownIsHeld'
    BY <2>1, <2>2 DEF RowsStay, VoidInv, ShownIsHeld, appVars, queueVars, TypeInv, ScreenHasTx
  <2> QED BY <2>1, <2>2, <2>3 DEF RowsStay, VoidInv, VoidsOf, queueVars
<1>6. CASE ClockStep(DeadlinePasses) \/ ClockStep(BackoffElapses) \/ UNCHANGED vars
  <2>1. UNCHANGED appVars /\ UNCHANGED sheetVars /\ UNCHANGED queueVars
    BY <1>6 DEF ClockStep, DeadlinePasses, BackoffElapses, vars
  <2> QED BY <2>1 DEF VoidInv, ShownIsHeld, VoidsOf, appVars, sheetVars, queueVars
<1>7. CASE Restart
  BY <1>7 DEF Restart, LoadQueue, VoidInv, ShownIsHeld, VoidsOf, sheetVars
<1> QED BY <1>1, <1>2, <1>3, <1>4, <1>5, <1>6, <1>7
        DEF Next, LoopStep, PowerCut, PowerReturns

LEMMA InitVoidInv == Init => VoidInv
<1>1. \A x : ~Has(<<>>, x)
  BY DEF Has
<1> QED BY <1>1 DEF Init, QueueInit, AppInit, VoidInv, ShownIsHeld, VoidsOf

\* In calm surroundings a reversal is queued only for a purchase that is in the
\* sheet already: enqueue_undo() drops one that is still queued instead, and
\* one that is neither queued nor recorded is never taken back.
THEOREM VoidsFindTheirPurchase ==
    ASSUME Calm
    PROVE  Spec => []VoidHasItsPurchase
<1>1. VoidInv => VoidHasItsPurchase
  BY DEF VoidInv, VoidsOf, VoidHasItsPurchase
<1>2. DrinkInv => AckTells
  BY DEF DrinkInv
<1>3. NoEarlyUndo
  BY DEF Calm
<1> QED BY <1>1, <1>2, <1>3, InitTypeInv, NextKeepsTypeInv, InitSlotInv, NextKeepsSlotInv,
           NextKeepsUndoInv, InitHeadInv, NextKeepsHeadInv, InitDrinkInv, NextKeepsDrinkInv,
           InitVoidInv, NextKeepsVoidInv, PTL DEF Spec

=============================================================================
