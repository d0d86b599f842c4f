---------------------------- MODULE TerminalUndo ----------------------------
(***************************************************************************)
(* Proof that an undo is exact: when every answer is read, a drink the     *)
(* terminal calls undone is not in the sheet and never will be, or its row *)
(* is marked, or the reversal is on flash.  The power may fail between any *)
(* two steps, the radio may come and go, and the network task may be       *)
(* missing.                                                                *)
(***************************************************************************)
EXTENDS TerminalDrinks, TerminalLedger

\* Calm surroundings in which requests are answered, and nobody edits the
\* catalog or asks for a failure.
Quiet ==
    /\ Calm
    /\ "link_fails" \notin Env /\ "garbled" \notin Env
    /\ "demo_failure" \notin Env /\ "edits" \notin Env

----------------------------------------------------------------------------
(* The invariant *)

OnScreen == screen \in {"Submitting", "Success", "Undoing", "Error"}

\* The failing switch is set only by a queue that was full, until the timer of
\* that submission clears it; no undo fails.
FailInv ==
    /\ screen \notin {"Admin", "Editing"}
    /\ failNext => simulated /\ screen = "Submitting"
    /\ screen = "Error" => ~undoInFlight

\* Nothing of drink t is anywhere.
Nowhere(t) ==
    /\ rows[t] = 0
    /\ ~Has(queue, Purchase(t)) /\ ~Has(file, Purchase(t))
    /\ Purchase(t) \notin late

\* Retry submits again only what got nowhere.
RefusedInv ==
    \/ screen = "Submitting" /\ failNext
    \/ screen = "Error"
    => Nowhere(tx)

\* The purchase on the screen, queued and recorded, is the one being sent.
SentInv ==
    OnScreen =>
        /\ Purchase(tx) \notin late
        /\ rows[tx] > 0 /\ Has(queue, Purchase(tx)) => posted /\ BeingSent

\* No request fails, every answer is an acknowledgement, and that of a reversal
\* means that the row is marked.
AnswersInv ==
    /\ status # "Failed"
    /\ status = "Done" => answer # "none"
    /\ \A t \in Tx : wire = Purchase(t) => answer \in {"none", "recorded", "duplicate"}
    /\ \A t \in Tx : wire = Void(t) => answer = "none" \/ (answer = "voided" /\ voided[t])
    /\ result # "Rejected"

\* Each purchase is queued once; there are no changes of the catalog.
Once(q) == \A i, j \in DOMAIN q : q[i] = q[j] /\ q[i].kind = "purchase" => i = j

Plain(q) == Once(q) /\ ~Has(q, Change)

PlainInv == Plain(queue) /\ Plain(file)

\* A reversal leaves the queue in memory only once the row is marked.
VoidsHeld == \A t \in Tx : Has(file, Void(t)) => Has(queue, Void(t)) \/ voided[t]

\* What the user has taken back is nowhere, or marked, or will be.
TakenInv == \A t \in undoAsked : Nowhere(t) \/ voided[t] \/ Has(file, Void(t))

ToldInv == \A t \in Tx : told[t] = "undone" => t \in undoAsked

RowsKnown == \A t \in Tx : rows[t] > 0 => t \in submitted

UndoneInv ==
    /\ FailInv /\ RefusedInv /\ SentInv /\ AnswersInv /\ PlainInv
    /\ VoidsHeld /\ TakenInv /\ ToldInv /\ RowsKnown

\* The invariants proved so far.
Base ==
    /\ TypeInv /\ UndoInv /\ SlotInv /\ WatchedResultIsFresh /\ RoomInv
    /\ LedgerInv /\ PairInv
    /\ HeadInv /\ DurableInv /\ DrinkInv /\ VoidInv

LEMMA InitBase == Init => Base
BY InitTypeInv, InitSlotInv, InitFresh, InitRoomInv, InitInLedger, InitPairInv,
   InitHeadInv, InitDurableInv, InitDrinkInv, InitVoidInv DEF Base

LEMMA NextKeepsBase ==
    ASSUME Calm
    PROVE  Base /\ [Next]_vars => Base'
<1> SUFFICES ASSUME Base, [Next]_vars PROVE Base'
  OBVIOUS
<1>1. NoEarlyUndo /\ StorageWorks
  BY DEF Calm
<1>2. TypeInv' /\ UndoInv' /\ SlotInv' /\ WatchedResultIsFresh' /\ RoomInv' /\ LedgerInv' /\ PairInv'
  BY NextKeepsTypeInv, NextKeepsUndoInv, NextKeepsSlotInv, NextKeepsFresh,
     NextKeepsRoomInv, NextInLedger, NextKeepsPairInv DEF Base
<1>3. HeadInv' /\ DurableInv' /\ DrinkInv' /\ VoidInv'
  BY <1>1, NextKeepsHeadInv, NextKeepsDurableInv, NextKeepsDrinkInv, NextKeepsVoidInv
     DEF Base, DrinkInv
<1> QED BY <1>2, <1>3 DEF Base

----------------------------------------------------------------------------
(* Queues in which each purchase waits once *)

LEMMA EntryCases ==
    /\ \A t \in Tx : Purchase(t) \in Entry /\ Void(t) \in Entry
    /\ \A e \in Entry : e = Change \/ \E t \in Tx : e = Purchase(t) \/ e = Void(t)
    /\ \A t : Purchase(t).kind = "purchase" /\ Void(t).kind = "void"
    /\ \A t, u : (Purchase(t) = Purchase(u) \/ Void(t) = Void(u)) => t = u
    /\ \A t, u : Purchase(t) # Void(u) /\ Purchase(t) # Change /\ Void(t) # Change
BY DEF Entry, Transaction, Change, Purchase, Void

LEMMA PlainAppended ==
    ASSUME NEW q \in Seq(Entry), Plain(q), NEW e \in Entry, ~Full(q), e # Change,
           e.kind = "purchase" => ~Has(q, e)
    PROVE  Plain(Append(q, e))
<1>1. ~Has(Append(q, e), Change)
  BY HasAppend DEF Plain
<1>2. /\ DOMAIN q = 1 .. Len(q) /\ Len(q) \in Nat
      /\ DOMAIN Append(q, e) = 1 .. (Len(q) + 1)
      /\ \A i \in 1 .. Len(q) : Append(q, e)[i] = q[i]
      /\ Append(q, e)[Len(q) + 1] = e
  BY AppendFits, LenProperties
<1>3. e.kind = "purchase" => \A i \in 1 .. Len(q) : q[i] # e
  BY <1>2 DEF Has
<1> DEFINE r == Append(q, e)
<1>4. ASSUME NEW i \in DOMAIN r, NEW j \in DOMAIN r, r[i] = r[j], r[i].kind = "purchase"
      PROVE  i = j
  <2>1. /\ i \in 1 .. Len(q) \/ i = Len(q) + 1
        /\ j \in 1 .. Len(q) \/ j = Len(q) + 1
    BY <1>2, <1>4
  <2> HIDE DEF r
  <2>2. CASE i \in 1 .. Len(q) /\ j \in 1 .. Len(q)
    BY <1>2, <1>4, <2>2 DEF r, Plain, Once
  <2>3. CASE i \in 1 .. Len(q) /\ j = Len(q) + 1
    BY <1>2, <1>3, <1>4, <2>3 DEF r
  <2>4. CASE i = Len(q) + 1 /\ j \in 1 .. Len(q)
    BY <1>2, <1>3, <1>4, <2>4 DEF r
  <2> QED BY <2>1, <2>2, <2>3, <2>4
<1> QED BY <1>1, <1>4 DEF Plain, Once

LEMMA PlainPopped ==
    ASSUME NEW q \in Seq(Entry), Plain(q)
    PROVE  /\ Plain(Popped(q))
           /\ \A t : q # <<>> /\ q[1] = Purchase(t) => ~Has(Popped(q), Purchase(t))
<1>1. CASE q = <<>>
  BY <1>1 DEF Popped
<1>2. CASE q # <<>>
  <2>1. /\ Len(q) \in Nat /\ DOMAIN q = 1 .. Len(q) /\ 1 \in DOMAIN q
        /\ DOMAIN Popped(q) = 1 .. (Len(q) - 1)
        /\ \A j \in 1 .. (Len(q) - 1) : Popped(q)[j] = q[j + 1]
    BY <1>2, EmptySeq, PoppedProperties, LenProperties
  <2>2. \A j \in 1 .. (Len(q) - 1) : j + 1 \in DOMAIN q /\ j + 1 # 1
    BY <2>1
  <2>3. Once(Popped(q))
    BY <2>1, <2>2 DEF Plain, Once
  <2>4. ~Has(Popped(q), Change)
    BY HeldBefore DEF Plain
  <2>5. ASSUME NEW t, q[1] = Purchase(t), Has(Popped(q), Purchase(t))
        PROVE  FALSE
    <3>1. PICK j \in 1 .. (Len(q) - 1) : q[j + 1] = Purchase(t)
      BY <2>1, <2>5 DEF Has
    <3>2. q[1] = q[j + 1] /\ q[1].kind = "purchase"
      BY <2>5, <3>1, EntryCases
    <3> QED BY <2>1, <2>2, <3>2 DEF Plain, Once
  <2> QED BY <2>3, <2>4, <2>5 DEF Plain
<1> QED BY <1>1, <1>2

LEMMA PlainWithout ==
    ASSUME NEW q \in Seq(Entry), Plain(q), NEW u, HoldsPurchase(q, u)
    PROVE  Plain(WithoutPurchase(q, u)) /\ ~Has(WithoutPurchase(q, u), Purchase(u))
<1> DEFINE k == FirstPurchase(q, u)
           w == WithoutPurchase(q, u)
<1>1. /\ k \in 1 .. Len(q) /\ q[k] = Purchase(u) /\ Len(q) \in Nat
      /\ DOMAIN w = 1 .. (Len(q) - 1)
      /\ \A j \in 1 .. (Len(q) - 1) : w[j] = IF j < k THEN q[j] ELSE q[j + 1]
  BY WithoutPurchaseShape
<1>2. DOMAIN q = 1 .. Len(q)
  BY LenProperties
<1>3. ~Has(w, Change)
  BY HeldBefore DEF Plain
<1> HIDE DEF k, w
<1>4. Once(w)
  <2> SUFFICES ASSUME NEW i \in DOMAIN w, NEW j \in DOMAIN w, w[i] = w[j],
                      w[i].kind = "purchase"
               PROVE  i = j
    BY DEF Once
  <2> DEFINE m == IF i < k THEN i ELSE i + 1
             n == IF j < k THEN j ELSE j + 1
  <2>1. m \in 1 .. Len(q) /\ n \in 1 .. Len(q) /\ w[i] = q[m] /\ w[j] = q[n]
    BY <1>1
  <2>2. m = n
    BY <1>2, <2>1 DEF Plain, Once
  <2> QED BY <1>1, <2>2
<1>5. ASSUME Has(w, Purchase(u))
      PROVE  FALSE
  <2>1. PICK j \in 1 .. (Len(q) - 1) : w[j] = Purchase(u)
    BY <1>1, <1>5 DEF Has
  <2> DEFINE n == IF j < k THEN j ELSE j + 1
  <2>2. n \in 1 .. Len(q) /\ n # k /\ q[n] = Purchase(u)
    BY <1>1, <2>1
  <2> HIDE DEF n
  <2>3. q[n] = q[k] /\ q[n].kind = "purchase"
    BY <1>1, <2>2, EntryCases
  <2> QED BY <1>1, <1>2, <2>2, <2>3 DEF Plain, Once
<1> QED BY <1>3, <1>4, <1>5 DEF Plain, w

----------------------------------------------------------------------------
(* The link and the backend *)

LEMMA QueuesTyped ==
    ASSUME Base
    PROVE  /\ queue \in Seq(Entry) /\ file \in Seq(Entry)
           /\ OnScreen => tx \in Tx
           /\ SheetTypeOK /\ wire \in Request /\ late \subseteq Request
BY DEF Base, TypeInv, TypeOK, QueueTypeOK, ApiTypeOK, ScreenHasTx, OnScreen, Request, Entry

\* What the task works on is in the queue, so it is a purchase or a reversal
\* that was queued, or one of the two background requests.
LEMMA SentIsQueued ==
    ASSUME Base, PlainInv, status = "Busy"
    PROVE  /\ wire \in Entry => Has(queue, wire) /\ wire # Change
           /\ \A t \in Tx : wire = Purchase(t) => posted /\ op = "Purchase" /\ request = wire
<1>1. wire \in Entry => Has(queue, wire)
  BY SendingIsQueued DEF Base, DurableInv, Sending
<1>2. posted /\ wire = request /\ op # "None"
  BY DEF Base, SlotInv, OutcomeBelongsToSlot
<1>3. wire \in Entry => op \in {"Purchase", "Void"}
  BY <1>2 DEF Base, DurableInv, SlotKind, TypeInv, TypeOK, BackendTypeOK, SlotTypeOK, Ops
<1>4. ASSUME NEW t \in Tx, wire = Purchase(t)
      PROVE  op = "Purchase"
  <2>1. op = OpFor(request)
    BY <1>3, <1>4, EntryCases DEF Base, HeadInv
  <2> QED BY <1>2, <1>4, <2>1, EntryCases DEF OpFor
<1> QED BY <1>1, <1>2, <1>4 DEF PlainInv, Plain

\* What the execution of a request does to the sheet.
LEMMA ExecutionEffect ==
    ASSUME SheetTypeOK, NEW r \in Request, NEW a, DoPost(r, a)
    PROVE  \A t \in Tx : /\ rows'[t] = rows[t] \/ r = Purchase(t)
                         /\ voided[t] => voided'[t]
<1>1. rows \in [Tx -> Nat] /\ voided \in [Tx -> BOOLEAN]
  BY DEF SheetTypeOK
<1>2. CASE UNCHANGED sheetVars
  BY <1>2 DEF sheetVars
<1>3. CASE r.kind = "purchase" /\ rows' = [rows EXCEPT ![r.tx] = @ + 1] /\ UNCHANGED voided
  <2>1. r = Purchase(r.tx)
    BY <1>3 DEF Request, Entry, Transaction, Change, SyncRequest, SummaryRequest, NoRequest,
                Purchase
  <2> QED BY <1>1, <1>3, <2>1
<1>4. CASE voided' = [voided EXCEPT ![r.tx] = TRUE] /\ UNCHANGED rows
  BY <1>1, <1>4
<1> QED BY <1>2, <1>3, <1>4 DEF DoPost, RecordPurchase, VoidPurchase, AppendRow, MarkRow

\* What is nowhere stays so unless it is queued, sent or executed.
LEMMA NowhereStays ==
    ASSUME NEW t \in Tx, Nowhere(t), rows'[t] = rows[t],
           Has(queue', Purchase(t)) => Has(queue, Purchase(t)),
           Has(file', Purchase(t)) => Has(queue, Purchase(t)) \/ Has(file, Purchase(t)),
           Purchase(t) \in late' => Purchase(t) \in late
    PROVE  Nowhere(t)'
BY DEF Nowhere

LEMMA ServerKeepsUndoneInv ==
    ASSUME Quiet, Base, UndoneInv, ServerStep(BackendAnswers) \/ ServerStep(LateExecution)
    PROVE  UndoneInv'
<1>1. /\ UNCHANGED appVars /\ UNCHANGED queueVars
      /\ status' = status /\ wire' = wire /\ late' \subseteq late
      /\ op' = op /\ posted' = posted /\ request' = request /\ result' = result
  BY DEF ServerStep, BackendAnswers, LateExecution, backendVars
<1>2. PICK r \in Request, a \in Answers :
         /\ DoPost(r, a)
         /\ \/ status = "Busy" /\ r = wire /\ answer = "none" /\ answer' = a
            \/ r \in late /\ answer' = answer
  BY QueuesTyped DEF ServerStep, BackendAnswers, LateExecution
<1>3. \A t \in Tx : /\ rows'[t] = rows[t] \/ r = Purchase(t)
                    /\ voided[t] => voided'[t]
  BY <1>2, QueuesTyped, ExecutionEffect
<1>4. \A t \in Tx : Nowhere(t) => r # Purchase(t)
  BY <1>2, SentIsQueued, EntryCases DEF Nowhere, UndoneInv
<1>5. \A t \in Tx : Nowhere(t) => Nowhere(t)'
  BY <1>1, <1>3, <1>4, NowhereStays DEF queueVars
<1>6. FailInv' /\ PlainInv' /\ ToldInv'
  BY <1>1 DEF UndoneInv, FailInv, PlainInv, Plain, Once, ToldInv, appVars, queueVars
<1>7. tx' = tx /\ screen' = screen /\ undoAsked' = undoAsked /\ submitted' = submitted
      /\ failNext' = failNext /\ undoInFlight' = undoInFlight /\ queue' = queue /\ file' = file
  BY <1>1 DEF appVars, queueVars
<1>8. RefusedInv'
  <2> SUFFICES ASSUME (screen = "Submitting" /\ failNext) \/ screen = "Error"
               PROVE  Nowhere(tx)'
    BY <1>7 DEF RefusedInv
  <2>1. tx \in Tx /\ Nowhere(tx)
    BY QueuesTyped DEF UndoneInv, RefusedInv, OnScreen
  <2> QED BY <1>5, <1>7, <2>1 DEF Nowhere
<1>9. SentInv'
  <2> SUFFICES ASSUME OnScreen
               PROVE  /\ Purchase(tx) \notin late'
                      /\ rows'[tx] > 0 /\ Has(queue, Purchase(tx)) => posted /\ BeingSent
    BY <1>1, <1>7 DEF SentInv, OnScreen, BeingSent
  <2>1. tx \in Tx /\ Purchase(tx) \notin late
    BY QueuesTyped DEF UndoneInv, SentInv
  <2>2. CASE rows'[tx] = rows[tx]
    BY <1>1, <2>1, <2>2 DEF UndoneInv, SentInv
  <2>3. CASE r = Purchase(tx)
    BY <1>1, <1>2, <2>1, <2>3, SentIsQueued DEF UndoneInv, BeingSent
  <2> QED BY <1>3, <2>1, <2>2, <2>3
<1>10. VoidsHeld' /\ TakenInv'
  BY <1>3, <1>5, <1>7 DEF UndoneInv, VoidsHeld, TakenInv, Base, TypeInv, TypeOK, AppTypeOK
<1>11. RowsKnown'
  <2>1. Known(r, submitted, undoAsked)
    BY <1>2 DEF Base, LedgerInv, LinkKnown
  <2>2. \A t \in Tx : r = Purchase(t) => t \in submitted
    BY <2>1 DEF Known, Purchase
  <2> QED BY <1>3, <1>7, <2>2 DEF UndoneInv, RowsKnown
<1>12. AnswersInv'
  <2>1. CASE answer' = answer
    BY <1>1, <1>3, <2>1 DEF UndoneInv, AnswersInv
  <2>2. CASE status = "Busy" /\ r = wire /\ answer' = a
    <3>1. ASSUME NEW t \in Tx, wire = Purchase(t)
          PROVE  a \in {"recorded", "duplicate"}
      BY <1>2, <2>2, <3>1 DEF DoPost, RecordPurchase, AppendRow, Purchase, Quiet, Calm
    <3>2. ASSUME NEW t \in Tx, wire = Void(t)
          PROVE  a = "voided" /\ voided'[t]
      <4>1. Has(queue, Void(t))
        BY <2>2, <3>2, SentIsQueued, EntryCases DEF UndoneInv
      <4>2. rows[t] > 0
        BY <4>1 DEF Base, VoidInv, VoidsOf
      <4>3. VoidPurchase(t, a)
        BY <1>2, <2>2, <3>2 DEF DoPost, Void
      <4>4. a = "voided" /\ voided' = [voided EXCEPT ![t] = TRUE]
        BY <4>2, <4>3 DEF VoidPurchase, MarkRow, FindPurchaseRow, Quiet, Calm
      <4> QED BY <4>4, QueuesTyped DEF SheetTypeOK
    <3> QED BY <1>1, <2>2, <3>1, <3>2 DEF UndoneInv, AnswersInv
  <2> QED BY <1>2, <2>1, <2>2
<1> QED BY <1>6, <1>8, <1>9, <1>10, <1>11, <1>12 DEF UndoneInv

\* A frame: steps that move neither the screen, the queue, the sheet, the slot's
\* request nor what is late.
LEMMA FrameKeepsUndoneInv ==
    ASSUME UndoneInv, UNCHANGED appVars, UNCHANGED sheetVars, UNCHANGED queueVars, late' = late,
           op' = op, posted' = posted, request' = request,
           AnswersInv'
    PROVE  UndoneInv'
<1>1. FailInv' /\ ToldInv' /\ PlainInv' /\ VoidsHeld' /\ RowsKnown'
  BY DEF UndoneInv, FailInv, ToldInv, PlainInv, Plain, Once, VoidsHeld, RowsKnown, appVars,
         sheetVars, queueVars
<1>2. RefusedInv' /\ TakenInv'
  BY DEF UndoneInv, RefusedInv, TakenInv, Nowhere, appVars, sheetVars, queueVars
<1>3. SentInv'
  BY DEF UndoneInv, SentInv, OnScreen, BeingSent, appVars, sheetVars, queueVars
<1> QED BY <1>1, <1>2, <1>3 DEF UndoneInv

LEMMA DeviceKeepsUndoneInv ==
    ASSUME Quiet, Base, UndoneInv,
           \/ TaskEnds
           \/ ClockStep(DeadlinePasses) \/ ClockStep(BackoffElapses)
           \/ UNCHANGED vars
    PROVE  UndoneInv'
<1>1. /\ UNCHANGED appVars /\ UNCHANGED queueVars /\ UNCHANGED sheetVars
      /\ op' = op /\ posted' = posted /\ request' = request /\ result' = result
      /\ late' = late /\ wire' = wire /\ answer' = answer
      /\ status' = status \/ (status' = "Done" /\ answer # "none")
  BY DEF TaskEnds, NetworkStep, PerformDone, PerformUnreadable, PerformFails, ClockStep,
         DeadlinePasses, BackoffElapses, vars, Quiet, backendVars, slotVars, apiVars
<1>2. AnswersInv'
  BY <1>1 DEF UndoneInv, AnswersInv, sheetVars
<1> QED BY <1>1, <1>2, FrameKeepsUndoneInv

----------------------------------------------------------------------------
(* The loop *)

\* What the task brings back for an entry is its acknowledgement.
LEMMA AckIsRead ==
    ASSUME Base, UndoneInv, op \in {"Purchase", "Void"}, posted, status = "Done"
    PROVE  /\ ParseAck(answer) = "Ok"
           /\ queue # <<>> /\ queue[1] = request /\ wire = request
           /\ \A t \in Tx : wire = Void(t) => voided[t]
<1>1. queue # <<>> /\ queue[1] = request /\ wire = request
  BY DEF Base, HeadInv, SlotInv, OutcomeBelongsToSlot
<1>2. 1 \in DOMAIN queue /\ queue[1] \in Entry
  BY <1>1, QueuesTyped, EmptySeq, LenProperties, ElementOfSeq
<1>3. wire # Change
  BY <1>1, <1>2 DEF UndoneInv, PlainInv, Plain, Has
<1>4. PICK t \in Tx : wire = Purchase(t) \/ wire = Void(t)
  BY <1>1, <1>2, <1>3, EntryCases
<1>5. answer \in {"recorded", "duplicate", "voided"}
  BY <1>4 DEF UndoneInv, AnswersInv
<1> QED BY <1>1, <1>5 DEF ParseAck, UndoneInv, AnswersInv

\* update() leaves the queue and the slot's entry alone, pops what has been
\* acknowledged, or turns to a slot that was free or not yet posted.
LEMMA BackendCases ==
    ASSUME Base, UndoneInv, BackendUpdate
    PROVE  /\ UNCHANGED appVars /\ UNCHANGED sheetVars /\ file' = file /\ late' = late
           /\ \/ UNCHANGED queueVars /\ UNCHANGED <<op, posted, request>>
              \/ UNCHANGED queueVars /\ ~(posted /\ op = "Purchase")
              \/ /\ op \in {"Purchase", "Void"} /\ posted /\ status = "Done"
                 /\ queue' = Popped(queue)
           /\ \/ UNCHANGED apiVars
              \/ status' \in {"Idle", "Busy"} /\ answer' = "none"
           /\ result' # "Rejected"
<1>1. op \in {"Purchase", "Void"} /\ posted /\ status = "Done" => ParseAck(answer) = "Ok"
  BY AckIsRead
<1>2. status # "Failed" /\ result # "Rejected"
  BY DEF UndoneInv, AnswersInv
<1> USE DEF BackendTurn
<1>3. CASE BackendTurn(FetchSummary)
  BY <1>2, <1>3 DEF FetchSummary, Start, apiVars, queueVars
<1>4. CASE BackendTurn(DrainQueue)
  BY <1>2, <1>4 DEF DrainQueue, SendQueuedNow, Start, apiVars, queueVars
<1>5. CASE BackendTurn(PeriodicSync)
  BY <1>2, <1>5 DEF PeriodicSync, StartSync, apiVars, queueVars
<1>6. CASE BackendTurn(PostRequest)
  BY <1>2, <1>6 DEF PostRequest, Post, queueVars
<1>7. CASE BackendTurn(PostRefused) \/ BackendTurn(GiveUpOnRadio)
  BY <1>7 DEF PostRefused, GiveUpOnRadio, Finish, ResetClient, queueVars
<1>8. CASE BackendTurn(RequestFailed)
  BY <1>2, <1>8 DEF RequestFailed
<1>9. CASE BackendTurn(SummaryArrives) \/ BackendTurn(SyncArrives)
  BY <1>9 DEF SummaryArrives, SyncArrives, Finish, ResetClient, queueVars
<1>10. CASE BackendTurn(AckOk)
  BY <1>10 DEF AckOk, AckArrives, ChangeInMemory, Finish, ResetClient
<1>11. CASE BackendTurn(AckRejected) \/ BackendTurn(AckUnreadable)
  BY <1>1, <1>11 DEF AckRejected, AckUnreadable, AckArrives
<1>12. CASE BackendTurn(BackendIdle)
  BY <1>2, <1>12 DEF BackendIdle, backendVars, apiVars, queueVars
<1> QED BY <1>3, <1>4, <1>5, <1>6, <1>7, <1>8, <1>9, <1>10, <1>11, <1>12 DEF BackendUpdate

LEMMA BackendUpdateKeepsUndoneInv ==
    ASSUME Base, UndoneInv, BackendUpdate
    PROVE  UndoneInv'
<1>1. /\ UNCHANGED appVars /\ UNCHANGED sheetVars /\ file' = file /\ late' = late
      /\ \/ UNCHANGED apiVars
         \/ status' \in {"Idle", "Busy"} /\ answer' = "none"
      /\ result' # "Rejected"
  BY BackendCases
<1>2. AnswersInv'
  BY <1>1 DEF UndoneInv, AnswersInv, apiVars, sheetVars
<1>3. CASE UNCHANGED queueVars /\ UNCHANGED <<op, posted, request>>
  BY <1>1, <1>2, <1>3, FrameKeepsUndoneInv
<1>4. CASE UNCHANGED queueVars /\ ~(posted /\ op = "Purchase")
  <2>1. FailInv' /\ ToldInv' /\ PlainInv' /\ VoidsHeld' /\ RowsKnown'
    BY <1>1, <1>4 DEF UndoneInv, FailInv, ToldInv, PlainInv, Plain, Once, VoidsHeld, RowsKnown,
       appVars, sheetVars, queueVars
  <2>2. RefusedInv' /\ TakenInv'
    BY <1>1, <1>4 DEF UndoneInv, RefusedInv, TakenInv, Nowhere, appVars, sheetVars, queueVars
  <2>3. SentInv'
    BY <1>1, <1>4 DEF UndoneInv, SentInv, OnScreen, BeingSent, appVars, sheetVars, queueVars
  <2> QED BY <1>2, <2>1, <2>2, <2>3 DEF UndoneInv
<1>5. CASE op \in {"Purchase", "Void"} /\ posted /\ status = "Done" /\ queue' = Popped(queue)
  <2>1. /\ queue \in Seq(Entry) /\ queue # <<>> /\ queue[1] = request /\ wire = request
        /\ \A t \in Tx : wire = Void(t) => voided[t]
    BY <1>5, AckIsRead, QueuesTyped
  <2>2. /\ \A x : Has(queue', x) => Has(queue, x)
        /\ \A x : Has(queue, x) /\ x # request => Has(queue', x)
    BY <1>5, <2>1, HeldBefore, HasPopped
  <2>3. \A t \in Tx : Nowhere(t) => Nowhere(t)'
    BY <1>1, <2>2, NowhereStays DEF sheetVars
  <2>4. tx' = tx /\ screen' = screen /\ undoAsked' = undoAsked /\ failNext' = failNext
    BY <1>1 DEF appVars
  <2>5. FailInv' /\ ToldInv' /\ RowsKnown'
    BY <1>1 DEF UndoneInv, FailInv, ToldInv, RowsKnown, appVars, sheetVars
  <2>6. Plain(queue)' /\ Plain(file)'
    <3>1. Plain(queue') /\ Plain(file')
      BY <1>1, <1>5, <2>1, PlainPopped DEF UndoneInv, PlainInv
    <3> QED BY <3>1 DEF Plain, Once, Has
  <2>7. VoidsHeld'
    BY <1>1, <2>1, <2>2 DEF UndoneInv, VoidsHeld, sheetVars
  <2>8. TakenInv'
    BY <1>1, <2>3, <2>4 DEF UndoneInv, TakenInv, sheetVars, Base, TypeInv, TypeOK, AppTypeOK
  <2>9. RefusedInv'
    <3> SUFFICES ASSUME (screen = "Submitting" /\ failNext) \/ screen = "Error"
                 PROVE  Nowhere(tx)'
      BY <2>4 DEF RefusedInv
    <3>1. tx \in Tx /\ Nowhere(tx)
      BY QueuesTyped DEF UndoneInv, RefusedInv, OnScreen
    <3> QED BY <2>3, <2>4, <3>1 DEF Nowhere
  <2>10. SentInv'
    <3> SUFFICES ASSUME OnScreen
                 PROVE  Purchase(tx) \notin late /\ ~(rows[tx] > 0 /\ Has(queue', Purchase(tx)))
      BY <1>1, <2>4 DEF SentInv, OnScreen, sheetVars
    <3>1. ASSUME rows[tx] > 0, Has(queue', Purchase(tx))
          PROVE  FALSE
      <4>1. request = Purchase(tx)
        BY <2>2, <3>1 DEF UndoneInv, SentInv, BeingSent
      <4> QED BY <1>5, <2>1, <3>1, <4>1, PlainPopped DEF UndoneInv, PlainInv
    <3> QED BY <3>1 DEF UndoneInv, SentInv
  <2> QED BY <1>2, <2>5, <2>6, <2>7, <2>8, <2>9, <2>10 DEF UndoneInv, PlainInv
<1> QED BY <1>3, <1>4, <1>5, BackendCases

LEMMA AppUpdateKeepsUndoneInv ==
    ASSUME Base, UndoneInv, AppUpdate
    PROVE  UndoneInv'
<1>1. /\ UNCHANGED apiVars /\ UNCHANGED sheetVars /\ UNCHANGED queueVars
      /\ op' = op /\ posted' = posted /\ request' = request
      /\ submitted' = submitted /\ undoAsked' = undoAsked
  BY AppUpdateEffect
<1>2. AwaitsResult => result # "Rejected" /\ (result = "Pending" \/ PollOk(result))
  BY DEF Base, WatchedResultIsFresh, UndoneInv, AnswersInv, PollOk
<1>3. undoInFlight => screen = "Undoing" /\ tx \in undoAsked
  BY DEF Base, UndoInv, UndoneInv, FailInv
<1>4. screen = "Undoing" => undoInFlight
  BY DEF Base, PairInv
<1>5. /\ FailInv'
      /\ \/ screen' = "SelectingProduct"
         \/ /\ tx' = tx
            /\ screen' = screen \/ (screen' = "Success" /\ OnScreen)
            /\ failNext' => failNext
         \/ screen' = "Error" /\ screen = "Submitting" /\ failNext /\ tx' = tx
      /\ result' \in {result, "Idle"}
      /\ told' = told \/ Tell("booked") \/ (Tell("undone") /\ screen = "Undoing")
  <2> USE DEF AppTurn
  <2>1. CASE AppTurn(PollSucceeds)
    BY <2>1, <1>3 DEF PollSucceeds, ShowBooked, ShowUndone, AwaitsResult, OnScreen, UndoneInv,
                      FailInv
  <2>2. CASE AppTurn(PollFails)
    BY <2>2, <1>2 DEF PollFails
  <2>3. CASE AppTurn(SubmitTimer)
    BY <2>3, <1>3 DEF SubmitTimer, ShowBooked, OnScreen, UndoneInv, FailInv, slotVars
  <2>4. CASE AppTurn(UndoTimer)
    BY <2>4 DEF UndoTimer, ShowUndone, OnScreen, UndoneInv, FailInv, slotVars
  <2>5. CASE AppTurn(Dwell)
    BY <2>5 DEF Dwell, BackToCatalog, UndoneInv, FailInv, slotVars, historyVars
  <2>6. CASE AppTurn(AppIdle)
    BY <2>6 DEF AppIdle, UndoneInv, FailInv, OnScreen, appVars, backendVars
  <2> QED BY <2>1, <2>2, <2>3, <2>4, <2>5, <2>6 DEF AppUpdate
<1>6. \A t \in Tx : Nowhere(t) => Nowhere(t)'
  BY <1>1 DEF Nowhere, sheetVars, queueVars, apiVars
<1>7. PlainInv' /\ VoidsHeld' /\ RowsKnown' /\ TakenInv'
  BY <1>1, <1>6 DEF UndoneInv, PlainInv, Plain, Once, Has, VoidsHeld, RowsKnown, TakenInv,
     sheetVars, queueVars, Base, TypeInv, TypeOK, AppTypeOK
<1>8. AnswersInv'
  BY <1>1, <1>5 DEF UndoneInv, AnswersInv, apiVars, sheetVars
<1>9. RefusedInv'
  <2> SUFFICES ASSUME (screen' = "Submitting" /\ failNext') \/ screen' = "Error"
               PROVE  Nowhere(tx)'
    BY DEF RefusedInv
  <2>1. /\ (screen = "Submitting" /\ failNext) \/ screen = "Error"
        /\ tx' = tx
    BY <1>5
  <2>2. tx \in Tx /\ Nowhere(tx)
    BY <2>1, QueuesTyped DEF UndoneInv, RefusedInv, OnScreen
  <2> QED BY <1>6, <2>1, <2>2 DEF Nowhere
<1>10. SentInv'
  <2>1. OnScreen' => OnScreen /\ tx' = tx
    BY <1>5 DEF OnScreen
  <2> QED BY <1>1, <2>1 DEF UndoneInv, SentInv, BeingSent, apiVars, sheetVars, queueVars
<1>11. ToldInv'
  <2>1. told \in [Tx -> {"nothing", "booked", "undone"}]
    BY DEF Base, TypeInv, TypeOK, AppTypeOK
  <2>2. screen = "Undoing" => tx \in undoAsked
    BY <1>3, <1>4
  <2> QED BY <1>1, <1>5, <2>1, <2>2 DEF UndoneInv, ToldInv, Tell
<1> QED BY <1>5, <1>7, <1>8, <1>9, <1>10, <1>11 DEF UndoneInv

----------------------------------------------------------------------------
(* Touches *)

\* A touch changes nothing that matters here, submits drink t, which is
\* nowhere, or takes the drink on the screen back.
Quietly ==
    /\ UNCHANGED queueVars /\ UNCHANGED historyVars /\ result' \in {result, "Pending"}
    /\ \/ ~OnScreen' /\ screen' \notin {"Admin", "Editing"} /\ ~failNext'
       \/ UNCHANGED <<screen, tx, simulated, failNext, undoInFlight, op, posted, request>>

Submits(t) ==
    /\ Nowhere(t) /\ t \notin undoAsked /\ ~failNext /\ ~undoInFlight
    /\ EnqueuePurchase(t, "Idle") \/ EnqueuePurchase(t, result)
    /\ tx' = t /\ screen' = "Submitting" /\ undoInFlight' = undoInFlight
    /\ submitted' = submitted \cup {t} /\ undoAsked' = undoAsked /\ told' = told

Undoes ==
    /\ OnScreen /\ ~failNext /\ MayUndo /\ ~BeingSent
    /\ EnqueueUndo
    /\ tx' = tx /\ screen' = "Undoing" /\ undoInFlight'
    /\ submitted' = submitted /\ undoAsked' = undoAsked \cup {tx} /\ told' = told

\* What the user has not submitted is nowhere.
LEMMA FreshIsNowhere ==
    ASSUME Base, UndoneInv, NEW t \in Tx \ submitted
    PROVE  Nowhere(t) /\ t \notin undoAsked
<1>1. rows[t] = 0
  BY DEF UndoneInv, RowsKnown, Base, LedgerInv, SheetKnown
<1>2. \A q : AllKnown(q, submitted, undoAsked) => ~Has(q, Purchase(t))
  <2> SUFFICES ASSUME NEW q, AllKnown(q, submitted, undoAsked), Has(q, Purchase(t))
               PROVE  FALSE
    OBVIOUS
  <2>1. Known(Purchase(t), submitted, undoAsked)
    BY DEF AllKnown, Has
  <2> QED BY <2>1 DEF Known, Purchase
<1>3. Purchase(t) \notin late
  BY DEF Base, LedgerInv, LinkKnown, Known, Purchase
<1> QED BY <1>1, <1>2, <1>3 DEF Nowhere, Base, LedgerInv, QueuesKnown, UserKnown

LEMMA UiCases ==
    ASSUME Quiet, Base, UndoneInv, UiEvent
    PROVE  Quietly \/ Undoes \/ \E t \in Tx : Submits(t)
<1>1. NoEarlyUndo /\ "demo_failure" \notin Env /\ "edits" \notin Env
  BY DEF Quiet, Calm
<1>2. /\ screen \notin {"Admin", "Editing"}
      /\ failNext => screen = "Submitting"
      /\ undoInFlight => screen = "Undoing"
  BY DEF UndoneInv, FailInv, Base, UndoInv
<1> USE DEF UiTurn
<1>3. CASE \E t \in Tx : UiTurn(TapResident(t))
  <2>1. PICK t \in Tx : UiTurn(TapResident(t))
    BY <1>3
  <2>2. Nowhere(t) /\ t \notin undoAsked
    BY <2>1, FreshIsNowhere DEF TapResident
  <2>3. Submits(t)
    BY <1>2, <2>1, <2>2 DEF TapResident, Submits
  <2> QED BY <2>3
<1>4. CASE UiTurn(TapRetry)
  <2>1. screen = "Error" /\ ~undoInFlight /\ ~failNext
    BY <1>2, <1>4 DEF TapRetry
  <2>2. Nowhere(tx) /\ tx \notin undoAsked /\ tx \in Tx /\ tx \in submitted
    BY <2>1, QueuesTyped DEF UndoneInv, RefusedInv, OnScreen, Base, PairInv, LedgerInv,
       ScreenKnown
  <2>3. Submits(tx)
    BY <1>4, <2>1, <2>2 DEF TapRetry, RetryAgain, Submits, historyVars
  <2> QED BY <2>2, <2>3
<1>5. CASE UiTurn(TapUndo)
  BY <1>1, <1>2, <1>5 DEF TapUndo, Undoes, OnScreen, MayUndo, NoEarlyUndo
<1>6. CASE UiTurn(UiIdle)
  BY <1>6 DEF UiIdle, Quietly, appVars, backendVars, historyVars
<1>7. CASE \/ UiTurn(TapProduct) \/ UiTurn(TapBack) \/ UiTurn(TapSummary)
           \/ UiTurn(Sleep) \/ UiTurn(Wake)
  BY <1>2, <1>7 DEF TapProduct, TapBack, BackToCatalog, TapSummary, Start, Sleep, Wake,
     StartSync, Quietly, OnScreen, restVars, slotVars
<1>8. CASE \/ UiTurn(TapEditor) \/ UiTurn(ConfirmEdit) \/ UiTurn(TapAdmin)
           \/ UiTurn(ToggleFailure)
  BY <1>1, <1>2, <1>8 DEF TapEditor, ConfirmEdit, TapAdmin, ToggleFailure
<1> QED BY <1>3, <1>4, <1>5, <1>6, <1>7, <1>8 DEF UiEvent

\* The parts of the invariant that follow from what was written to flash.
LEMMA StoredKeeps ==
    ASSUME Base, UndoneInv, UNCHANGED sheetVars, UNCHANGED apiVars, file' = queue',
           Plain(queue'), undoAsked \subseteq undoAsked',
           told' = told, submitted \subseteq submitted',
           \A u \in undoAsked : Has(queue', Purchase(u)) => Has(queue, Purchase(u)),
           \A u \in Tx : Has(queue, Void(u)) => Has(queue', Void(u)),
           result' # "Rejected"
    PROVE  /\ PlainInv' /\ VoidsHeld' /\ ToldInv' /\ RowsKnown' /\ AnswersInv'
           /\ \A u \in undoAsked : (Nowhere(u) \/ voided[u] \/ Has(file, Void(u)))'
<1>1. (Plain(queue) /\ Plain(file))'
  BY DEF Plain, Once, Has
<1>2. VoidsHeld' /\ ToldInv' /\ RowsKnown' /\ AnswersInv'
  BY DEF UndoneInv, VoidsHeld, ToldInv, RowsKnown, AnswersInv, sheetVars, apiVars
<1>3. ASSUME NEW u \in undoAsked
      PROVE  (Nowhere(u) \/ voided[u] \/ Has(file, Void(u)))'
  <2>1. u \in Tx
    BY DEF Base, TypeInv, TypeOK, AppTypeOK
  <2>2. CASE Nowhere(u)
    BY <2>2 DEF Nowhere, sheetVars, apiVars
  <2>3. CASE voided[u]
    BY <2>3 DEF sheetVars
  <2>4. CASE Has(file, Void(u))
    BY <2>1, <2>4 DEF UndoneInv, VoidsHeld, sheetVars
  <2> QED BY <2>2, <2>3, <2>4 DEF UndoneInv, TakenInv
<1> QED BY <1>1, <1>2, <1>3 DEF PlainInv

LEMMA SubmitKeepsUndoneInv ==
    ASSUME Quiet, Base, UndoneInv, UNCHANGED sheetVars, UNCHANGED apiVars,
           NEW t \in Tx, Submits(t)
    PROVE  UndoneInv'
<1>1. StorageWorks /\ queue \in Seq(Entry) /\ Purchase(t) \in Entry /\ Purchase(t) # Change
  BY QueuesTyped, EntryCases DEF Quiet, Calm
<1>2. /\ rows[t] = 0 /\ Purchase(t) \notin late
      /\ ~Has(queue, Purchase(t)) /\ ~Has(file, Purchase(t))
  BY DEF Submits, Nowhere
<1>3. SentInv'
  BY <1>2 DEF Submits, SentInv, sheetVars, apiVars
<1>4. result' # "Rejected"
  BY DEF Submits, EnqueuePurchase, Enqueue, SendQueuedNow, Start, UndoneInv, AnswersInv
<1>5. CASE Full(queue)
  <2>1. UNCHANGED queueVars /\ simulated' /\ failNext'
    BY <1>5 DEF Submits, EnqueuePurchase, Enqueue, Refused
  <2>2. FailInv' /\ RefusedInv'
    BY <1>2, <2>1 DEF Submits, FailInv, RefusedInv, Nowhere, sheetVars, apiVars, queueVars
  <2>3. PlainInv' /\ VoidsHeld' /\ ToldInv' /\ RowsKnown' /\ AnswersInv'
    BY <1>4, <2>1 DEF Submits, UndoneInv, PlainInv, Plain, Once, Has, VoidsHeld, ToldInv,
       RowsKnown, AnswersInv, sheetVars, apiVars, queueVars
  <2>4. TakenInv'
    BY <2>1 DEF Submits, UndoneInv, TakenInv, Nowhere, sheetVars, apiVars, queueVars
  <2> QED BY <1>3, <2>2, <2>3, <2>4 DEF UndoneInv
<1>6. CASE ~Full(queue)
  <2>1. Store(Append(queue, Purchase(t)), Env) /\ ~failNext'
    BY <1>6 DEF Submits, EnqueuePurchase, Enqueue, Watching, Deferred
  <2>2. queue' = Append(queue, Purchase(t)) /\ file' = queue'
    BY <1>1, <2>1, StoredQueue
  <2>3. \A x : Has(queue', x) <=> Has(queue, x) \/ x = Purchase(t)
    BY <1>1, <1>6, <2>2, HasAppend
  <2>4. Plain(queue')
    BY <1>1, <1>2, <1>6, <2>2, PlainAppended DEF UndoneInv, PlainInv
  <2>5. FailInv' /\ RefusedInv'
    BY <2>1 DEF Submits, FailInv, RefusedInv
  <2>6. \A u \in undoAsked : Purchase(u) # Purchase(t)
    BY EntryCases DEF Submits
  <2>7. /\ PlainInv' /\ VoidsHeld' /\ ToldInv' /\ RowsKnown' /\ AnswersInv'
        /\ \A u \in undoAsked : (Nowhere(u) \/ voided[u] \/ Has(file, Void(u)))'
    BY <1>4, <2>2, <2>3, <2>4, <2>6, StoredKeeps DEF Submits
  <2>8. TakenInv'
    BY <2>7 DEF Submits, TakenInv
  <2> QED BY <1>3, <2>5, <2>7, <2>8 DEF UndoneInv
<1> QED BY <1>5, <1>6

LEMMA UndoKeepsUndoneInv ==
    ASSUME Quiet, Base, UndoneInv, UNCHANGED sheetVars, UNCHANGED apiVars, Undoes
    PROVE  UndoneInv'
<1>1. StorageWorks /\ queue \in Seq(Entry) /\ tx \in Tx /\ Purchase(tx) \notin late
  BY QueuesTyped DEF Quiet, Calm, Undoes, UndoneInv, SentInv
<1>2. /\ Void(tx) \in Entry /\ Void(tx) # Change /\ Void(tx).kind # "purchase"
      /\ \A u : Void(u) # Purchase(tx) /\ Purchase(u) # Void(tx)
  BY <1>1, EntryCases
<1>3. /\ file' = queue' /\ Plain(queue') /\ ~Has(queue', Purchase(tx))
      /\ \A u : Has(queue', Purchase(u)) => Has(queue, Purchase(u))
      /\ \A u : Has(queue, Void(u)) => Has(queue', Void(u))
      /\ rows[tx] = 0 \/ Has(queue', Void(tx))
      /\ ~failNext' /\ result' # "Rejected"
  <2>1. CASE HoldsPurchase(queue, tx)
    <3>1. Store(WithoutPurchase(queue, tx), Env) /\ failNext' = failNext /\ result' = result
      BY <2>1 DEF Undoes, EnqueueUndo, NoBackend, slotVars
    <3>2. queue' = WithoutPurchase(queue, tx) /\ file' = queue'
      BY <1>1, <3>1, StoredQueue
    <3>3. Plain(queue') /\ ~Has(queue', Purchase(tx))
      BY <1>1, <2>1, <3>2, PlainWithout DEF UndoneInv, PlainInv
    <3>4. /\ \A u : Has(queue', Purchase(u)) => Has(queue, Purchase(u))
          /\ \A u : Has(queue, Void(u)) => Has(queue', Void(u))
      BY <1>1, <1>2, <2>1, <3>2, HeldBefore, HasWithoutPurchase
    <3>5. Has(queue, Purchase(tx))
      BY <2>1 DEF HoldsPurchase, Has
    <3>6. rows[tx] = 0
      BY <1>1, <3>5, QueuesTyped DEF Undoes, UndoneInv, SentInv, SheetTypeOK
    <3> QED BY <3>1, <3>2, <3>3, <3>4, <3>6 DEF Undoes, UndoneInv, AnswersInv
  <2>2. CASE ~HoldsPurchase(queue, tx)
    <3>1. ~Full(queue)
      BY <2>2 DEF Undoes, MayUndo, Base, RoomInv, Room
    <3>2. Store(Append(queue, Void(tx)), Env) /\ failNext' = failNext
          /\ result' \in {result, "Pending"}
      BY <2>2, <3>1 DEF Undoes, EnqueueUndo, Enqueue, SendQueuedNow, Start, Watching, Deferred
    <3>3. queue' = Append(queue, Void(tx)) /\ file' = queue'
      BY <1>1, <3>2, StoredQueue
    <3>4. \A x : Has(queue', x) <=> Has(queue, x) \/ x = Void(tx)
      BY <1>1, <1>2, <3>1, <3>3, HasAppend
    <3>5. Plain(queue')
      BY <1>1, <1>2, <3>1, <3>3, PlainAppended DEF UndoneInv, PlainInv
    <3>6. ~Has(queue, Purchase(tx))
      BY <2>2 DEF HoldsPurchase, Has
    <3> QED BY <1>2, <3>2, <3>3, <3>4, <3>5, <3>6 DEF Undoes, UndoneInv, AnswersInv
  <2> QED BY <2>1, <2>2
<1>4. FailInv' /\ RefusedInv'
  BY <1>3 DEF Undoes, FailInv, RefusedInv
<1>5. SentInv'
  BY <1>1, <1>3 DEF Undoes, SentInv, apiVars
<1>6. /\ PlainInv' /\ VoidsHeld' /\ ToldInv' /\ RowsKnown' /\ AnswersInv'
      /\ \A u \in undoAsked : (Nowhere(u) \/ voided[u] \/ Has(file, Void(u)))'
  BY <1>3, StoredKeeps DEF Undoes
<1>7. rows'[tx] = 0 => Nowhere(tx)'
  BY <1>1, <1>3 DEF Undoes, Nowhere, apiVars
<1>8. (Nowhere(tx) \/ voided[tx] \/ Has(file, Void(tx)))'
  BY <1>3, <1>7 DEF Undoes, sheetVars
<1>9. TakenInv'
  BY <1>6, <1>8 DEF Undoes, TakenInv, Nowhere
<1> QED BY <1>4, <1>5, <1>6, <1>9 DEF UndoneInv

LEMMA UiKeepsUndoneInv ==
    ASSUME Quiet, Base, UndoneInv, UiEvent
    PROVE  UndoneInv'
<1>1. UNCHANGED apiVars /\ UNCHANGED sheetVars
  BY UiEffect DEF Base
<1>2. CASE Quietly
  <2>1. PlainInv' /\ VoidsHeld' /\ ToldInv' /\ RowsKnown' /\ AnswersInv' /\ TakenInv'
    BY <1>1, <1>2 DEF Quietly, UndoneInv, PlainInv, Plain, Once, Has, VoidsHeld, ToldInv,
       RowsKnown, AnswersInv, TakenInv, Nowhere, sheetVars, apiVars, queueVars, historyVars
  <2>2. FailInv' /\ RefusedInv' /\ SentInv'
    <3>1. CASE ~OnScreen' /\ screen' \notin {"Admin", "Editing"} /\ ~failNext'
      BY <3>1 DEF FailInv, RefusedInv, SentInv, OnScreen
    <3>2. CASE UNCHANGED <<screen, tx, simulated, failNext, undoInFlight, op, posted, request>>
      BY <1>1, <1>2, <3>2 DEF Quietly, UndoneInv, FailInv, RefusedInv, SentInv, OnScreen,
         Nowhere, BeingSent, sheetVars, apiVars, queueVars
    <3> QED BY <1>2, <3>1, <3>2 DEF Quietly
  <2> QED BY <2>1, <2>2 DEF UndoneInv
<1> QED BY <1>1, <1>2, UiCases, SubmitKeepsUndoneInv, UndoKeepsUndoneInv

----------------------------------------------------------------------------
(* The flush, and a restart *)

LEMMA FlushKeepsUndoneInv ==
    ASSUME Quiet, Base, UndoneInv, FlushQueue
    PROVE  UndoneInv'
<1>1. /\ UNCHANGED appVars /\ UNCHANGED apiVars /\ UNCHANGED sheetVars
      /\ op' = op /\ posted' = posted /\ request' = request /\ result' = result
  BY DEF FlushQueue, backendVars
<1>2. AnswersInv'
  BY <1>1 DEF UndoneInv, AnswersInv, sheetVars, apiVars
<1>3. CASE ~dirty
  BY <1>1, <1>2, <1>3, FrameKeepsUndoneInv DEF FlushQueue, apiVars
<1>4. CASE dirty
  <2>1. queue' = queue /\ file' = queue'
    BY <1>4, StoredQueue DEF FlushQueue, Quiet, Calm
  <2>2. /\ told' = told /\ undoAsked' = undoAsked /\ submitted' = submitted
        /\ screen' = screen /\ tx' = tx /\ failNext' = failNext
    BY <1>1 DEF appVars
  <2>3. result' # "Rejected"
    BY <1>1 DEF UndoneInv, AnswersInv
  <2>4. /\ PlainInv' /\ VoidsHeld' /\ ToldInv' /\ RowsKnown' /\ AnswersInv'
        /\ \A u \in undoAsked : (Nowhere(u) \/ voided[u] \/ Has(file, Void(u)))'
    BY <1>1, <2>1, <2>2, <2>3, StoredKeeps DEF UndoneInv, PlainInv
  <2>5. TakenInv'
    BY <2>2, <2>4 DEF TakenInv
  <2>6. FailInv' /\ SentInv'
    BY <1>1, <2>1 DEF UndoneInv, FailInv, SentInv, OnScreen, BeingSent, appVars, sheetVars,
       apiVars
  <2>7. RefusedInv'
    BY <1>1, <2>1, <2>2 DEF UndoneInv, RefusedInv, Nowhere, sheetVars, apiVars
  <2> QED BY <2>4, <2>5, <2>6, <2>7 DEF UndoneInv
<1> QED BY <1>3, <1>4

\* A request that is cut off may still be executed, but it was queued.
LEMMA RestartKeepsUndoneInv ==
    ASSUME Quiet, Base, UndoneInv, Restart
    PROVE  UndoneInv'
<1>1. /\ UNCHANGED sheetVars /\ UNCHANGED historyVars /\ queue' = file /\ file' = file
      /\ screen' = "SelectingProduct" /\ ~failNext' /\ ~undoInFlight'
      /\ status' = "Idle" /\ answer' = "none" /\ result' = "Idle"
      /\ late' = late \/ (status = "Busy" /\ wire \in Transaction /\ late' = late \cup {wire})
  BY DEF Restart, LoadQueue, AbandonClient
<1>2. status = "Busy" /\ wire \in Transaction => Has(queue, wire)
  BY SentIsQueued DEF UndoneInv, Entry
<1>3. \A t \in Tx : Nowhere(t) => Nowhere(t)'
  BY <1>1, <1>2 DEF Nowhere, sheetVars
<1>4. FailInv' /\ RefusedInv' /\ SentInv' /\ AnswersInv'
  BY <1>1 DEF FailInv, RefusedInv, SentInv, OnScreen, AnswersInv
<1>5. PlainInv' /\ VoidsHeld' /\ ToldInv' /\ RowsKnown'
  BY <1>1 DEF UndoneInv, PlainInv, Plain, Once, Has, VoidsHeld, ToldInv, RowsKnown, sheetVars,
     historyVars
<1>6. TakenInv'
  BY <1>1, <1>3 DEF UndoneInv, TakenInv, sheetVars, historyVars, Base, TypeInv, TypeOK,
     AppTypeOK
<1> QED BY <1>4, <1>5, <1>6 DEF UndoneInv

----------------------------------------------------------------------------
LEMMA NextKeepsUndoneInv ==
    ASSUME Quiet
    PROVE  Base /\ UndoneInv /\ [Next]_vars => UndoneInv'
BY BackendUpdateKeepsUndoneInv, AppUpdateKeepsUndoneInv, UiKeepsUndoneInv,
   FlushKeepsUndoneInv, DeviceKeepsUndoneInv, ServerKeepsUndoneInv, RestartKeepsUndoneInv
   DEF Next, LoopStep, PowerCut, PowerReturns

LEMMA InitUndoneInv == Init => UndoneInv
<1> SUFFICES ASSUME Init PROVE UndoneInv
  OBVIOUS
<1>1. \A x : ~Has(<<>>, x)
  BY DEF Has
<1>2. queue = <<>> /\ file = <<>> /\ Once(<<>>)
  BY DEF Init, QueueInit, Once
<1>3. PlainInv /\ VoidsHeld
  BY <1>1, <1>2 DEF PlainInv, Plain, VoidsHeld
<1>4. FailInv /\ RefusedInv /\ SentInv /\ TakenInv /\ ToldInv /\ RowsKnown
  BY DEF Init, AppInit, SheetInit, FailInv, RefusedInv, SentInv, OnScreen, TakenInv, ToldInv,
         RowsKnown
<1>5. AnswersInv
  BY DEF Init, ApiInit, BackendInit, AnswersInv, NoRequest, Purchase, Void
<1> QED BY <1>3, <1>4, <1>5 DEF UndoneInv

\* When answers are read, a drink the terminal calls undone is nowhere, or its
\* row is marked, or the reversal is on flash: enqueue_undo() drops a purchase
\* only before it has reached the backend, and power cuts between steps bring
\* neither the purchase back nor lose the reversal.
THEOREM UndoIsExact ==
    ASSUME Quiet
    PROVE  Spec => []UndoneIsReversed
<1>1. Base /\ UndoneInv => UndoneIsReversed
  BY DEF UndoneInv, ToldInv, TakenInv, Nowhere, UndoneIsReversed
<1>2. Calm
  BY DEF Quiet
<1>3. Init => Base /\ UndoneInv
  BY InitBase, InitUndoneInv
<1>4. Base /\ UndoneInv /\ [Next]_vars => (Base /\ UndoneInv)'
  BY <1>2, NextKeepsBase, NextKeepsUndoneInv
<1> QED BY <1>1, <1>3, <1>4, PTL DEF Spec

=============================================================================
