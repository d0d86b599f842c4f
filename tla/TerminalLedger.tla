--------------------------- MODULE TerminalLedger ---------------------------
(***************************************************************************)
(* Proof that the terminal implements PurchaseLedger whatever its          *)
(* surroundings do.  The invariant traces every request there is, in the   *)
(* queue, the file, the slot, on the wire and late, to something the user  *)
(* did, and bounds the rows of the sheet.                                  *)
(*                                                                         *)
(* Then that a purchase and its reversal never wait side by side, whatever *)
(* the surroundings do.                                                    *)
(***************************************************************************)
EXTENDS TerminalSafety

\* Request r is a submission in S, a reversal asked for in U, or of neither kind.
Known(r, S, U) == (r.kind = "purchase" => r.tx \in S) /\ (r.kind = "void" => r.tx \in U)

AllKnown(q, S, U) == \A i \in DOMAIN q : Known(q[i], S, U)

QueuesKnown == AllKnown(queue, submitted, undoAsked) /\ AllKnown(file, submitted, undoAsked)

LinkKnown ==
    /\ Known(request, submitted, undoAsked)
    /\ Known(wire, submitted, undoAsked)
    /\ \A r \in late : Known(r, submitted, undoAsked)

ScreenKnown == screen \in {"Submitting", "Undoing", "Success", "Error"} => tx \in submitted

SheetKnown ==
    \A t \in Tx : /\ rows[t] \in {0, 1}
                  /\ voided[t] => rows[t] = 1

UserKnown == undoAsked \subseteq submitted

LedgerInv == QueuesKnown /\ LinkKnown /\ ScreenKnown /\ SheetKnown /\ UserKnown

----------------------------------------------------------------------------
(* Moving known requests about *)

LEMMA KnownGrows ==
    ASSUME NEW S, NEW U, NEW S2, NEW U2, S \subseteq S2, U \subseteq U2
    PROVE  /\ \A r : Known(r, S, U) => Known(r, S2, U2)
           /\ \A q : AllKnown(q, S, U) => AllKnown(q, S2, U2)
BY DEF Known, AllKnown

LEMMA KnownBackground ==
    ASSUME NEW S, NEW U, NEW r \in {SyncRequest, SummaryRequest, NoRequest, Change}
    PROVE  Known(r, S, U)
BY DEF Known, SyncRequest, SummaryRequest, NoRequest, Change

LEMMA KnownEmpty == ASSUME NEW S, NEW U PROVE AllKnown(<<>>, S, U)
BY DEF AllKnown

LEMMA KnownHead ==
    ASSUME NEW S, NEW U, NEW q \in Seq(Entry), q # <<>>, AllKnown(q, S, U)
    PROVE  Known(q[1], S, U)
<1>1. 1 \in DOMAIN q
  BY EmptySeq, LenProperties
<1> QED BY <1>1 DEF AllKnown

LEMMA KnownPopped ==
    ASSUME NEW S, NEW U, NEW q \in Seq(Entry), AllKnown(q, S, U)
    PROVE  AllKnown(Popped(q), S, U)
<1>1. CASE q = <<>>
  BY <1>1 DEF Popped
<1>2. CASE q # <<>>
  <2>1. /\ Len(q) \in Nat /\ DOMAIN q = 1 .. Len(q)
        /\ DOMAIN Popped(q) = 1 .. (Len(q) - 1)
        /\ \A j \in 1 .. (Len(q) - 1) : Popped(q)[j] = q[j + 1]
    BY <1>2, PoppedProperties, LenProperties
  <2>2. \A j \in 1 .. (Len(q) - 1) : j + 1 \in 1 .. Len(q)
    BY <2>1
  <2> QED BY <2>1, <2>2 DEF AllKnown
<1> QED BY <1>1, <1>2

LEMMA KnownAppended ==
    ASSUME NEW S, NEW U, NEW q \in Seq(Entry), NEW e \in Entry, ~Full(q),
           AllKnown(q, S, U), Known(e, S, U)
    PROVE  AllKnown(Append(q, e), S, U)
<1>1. /\ DOMAIN q = 1 .. Len(q) /\ Len(q) \in Nat
      /\ DOMAIN Append(q, e) = 1 .. (Len(q) + 1)
      /\ \A i \in 1 .. Len(q) : Append(q, e)[i] = q[i]
      /\ Append(q, e)[Len(q) + 1] = e
  BY AppendFits, LenProperties
<1> QED BY <1>1 DEF AllKnown

LEMMA KnownWithout ==
    ASSUME NEW S, NEW U, NEW q \in Seq(Entry), NEW u, HoldsPurchase(q, u), AllKnown(q, S, U)
    PROVE  AllKnown(WithoutPurchase(q, u), S, U)
<1> DEFINE k == FirstPurchase(q, u)
<1>1. k \in 1 .. Len(q)
  BY FirstPurchaseProperties
<1> HIDE DEF k
<1>2. /\ Without(q, k) \in Seq(Entry)
      /\ Len(Without(q, k)) = Len(q) - 1
      /\ \A j \in 1 .. Len(q) - 1 :
           Without(q, k)[j] = IF j < k THEN q[j] ELSE q[j + 1]
  BY <1>1, WithoutProperties
<1>3. /\ Len(q) \in Nat /\ DOMAIN q = 1 .. Len(q)
      /\ DOMAIN Without(q, k) = 1 .. (Len(q) - 1)
  BY <1>2, LenProperties
<1>4. \A j \in 1 .. (Len(q) - 1) : j \in 1 .. Len(q) /\ j + 1 \in 1 .. Len(q)
  BY <1>3
<1>5. AllKnown(Without(q, k), S, U)
  BY <1>2, <1>3, <1>4 DEF AllKnown
<1> QED BY <1>5 DEF WithoutPurchase, k

\* A write leaves known entries on flash, whether it succeeds or not.
LEMMA KnownStored ==
    ASSUME NEW q, NEW faults, Store(q, faults),
           AllKnown(q, submitted', undoAsked'), AllKnown(file, submitted', undoAsked')
    PROVE  QueuesKnown'
<1>1. queue' = q /\ (file' = q \/ file' = file \/ file' = <<>>)
  BY DEF Store, Flush
<1> QED BY <1>1, KnownEmpty DEF QueuesKnown

----------------------------------------------------------------------------
(* What the user does *)

\* A touch is a submission, an undo of the confirmed purchase, or neither.
UserStep ==
    \/ submitted' = submitted /\ undoAsked' = undoAsked
    \/ \E t \in Tx : submitted' = submitted \cup {t} /\ undoAsked' = undoAsked
    \/ submitted' = submitted /\ screen = "Success" /\ undoAsked' = undoAsked \cup {tx}

LEMMA UiUserStep ==
    ASSUME TypeInv, ScreenKnown, UiEvent
    PROVE  UserStep /\ ScreenKnown'
<1>1. CASE \E t \in Tx : UiTurn(TapResident(t))
  BY <1>1 DEF UiTurn, TapResident, UserStep, ScreenKnown
<1>2. CASE UiTurn(TapRetry)
  BY <1>2 DEF UiTurn, TapRetry, RetryAgain, historyVars, UserStep, ScreenKnown
<1>3. CASE UiTurn(TapUndo)
  BY <1>3 DEF UiTurn, TapUndo, UserStep, ScreenKnown
<1>4. CASE UiTurn(UiIdle)
  BY <1>4 DEF UiTurn, UiIdle, appVars, UserStep, ScreenKnown
<1>5. CASE screen' \notin {"Submitting", "Undoing", "Success", "Error"} /\ UNCHANGED historyVars
  BY <1>5 DEF historyVars, UserStep, ScreenKnown
<1> QED BY <1>1, <1>2, <1>3, <1>4, <1>5
        DEF UiEvent, UiTurn, TapProduct, TapBack, BackToCatalog, TapSummary, TapEditor,
            ConfirmEdit, TapAdmin, ToggleFailure, Sleep, Wake

LEMMA UiKeepsLedgerInv ==
    TypeInv /\ UndoInv /\ LedgerInv /\ UiEvent => LedgerInv' /\ UserStep /\ UNCHANGED sheetVars
<1> SUFFICES ASSUME TypeInv, UndoInv, LedgerInv, UiEvent
             PROVE  LedgerInv' /\ UserStep /\ UNCHANGED sheetVars
  OBVIOUS
<1>1. UNCHANGED apiVars /\ UNCHANGED sheetVars /\ TakesSlot /\ TouchesQueue
  BY UiEffect
<1>2. UserStep /\ ScreenKnown'
  BY UiUserStep DEF LedgerInv
<1>3. submitted \subseteq submitted' /\ undoAsked \subseteq undoAsked'
  BY <1>2 DEF UserStep
<1>4. UserKnown'
  BY <1>2 DEF UserStep, LedgerInv, UserKnown, ScreenKnown
<1>5. SheetKnown'
  BY <1>1 DEF LedgerInv, SheetKnown, sheetVars
<1>6. queue \in Seq(Entry) /\ queue' \in Seq(Entry)
  BY NextKeepsTypeInv DEF TypeInv, TypeOK, QueueTypeOK, Next, LoopStep
<1>7. /\ AllKnown(queue, submitted', undoAsked')
      /\ AllKnown(file, submitted', undoAsked')
  BY <1>3, KnownGrows DEF LedgerInv, QueuesKnown
<1>8. QueuesKnown'
  <2>1. CASE UNCHANGED queueVars
    BY <1>7, <2>1 DEF QueuesKnown, queueVars
  <2>2. CASE \E e \in Entry : Offered(e) /\ ~Full(queue) /\ Store(Append(queue, e), Env)
    <3>1. PICK e \in Entry : Offered(e) /\ ~Full(queue) /\ Store(Append(queue, e), Env)
      BY <2>2
    <3>2. Known(e, submitted', undoAsked')
      BY <1>2, <3>1 DEF Offered, ScreenKnown, Known, Change, Purchase, Void
    <3>3. AllKnown(Append(queue, e), submitted', undoAsked')
      BY <1>6, <1>7, <3>1, <3>2, KnownAppended
    <3> QED BY <1>7, <3>1, <3>3, KnownStored
  <2>3. CASE HoldsPurchase(queue, tx) /\ Store(WithoutPurchase(queue, tx), Env)
    <3>1. AllKnown(WithoutPurchase(queue, tx), submitted', undoAsked')
      BY <1>6, <1>7, <2>3, KnownWithout
    <3> QED BY <1>7, <2>3, <3>1, KnownStored
  <2> QED BY <1>1, <2>1, <2>2, <2>3 DEF TouchesQueue
<1>9. LinkKnown'
  <2>1. /\ Known(request, submitted', undoAsked')
        /\ Known(wire, submitted', undoAsked')
        /\ \A r \in late : Known(r, submitted', undoAsked')
    BY <1>3, KnownGrows DEF LedgerInv, LinkKnown
  <2>2. AllKnown(queue', submitted', undoAsked')
    BY <1>8 DEF QueuesKnown
  <2>3. \/ request' = request
        \/ request' \in {SyncRequest, SummaryRequest}
        \/ queue' # <<>> /\ request' = queue'[1]
    BY <1>1 DEF TakesSlot
  <2>4. Known(request', submitted', undoAsked')
    BY <1>6, <2>1, <2>2, <2>3, KnownBackground, KnownHead
  <2> QED BY <1>1, <2>1, <2>4 DEF LinkKnown, apiVars
<1> QED BY <1>1, <1>2, <1>4, <1>5, <1>8, <1>9 DEF LedgerInv

----------------------------------------------------------------------------
(* The other steps *)

UserIdle == submitted' = submitted /\ undoAsked' = undoAsked

LEMMA BackendUpdateKeepsLedgerInv ==
    TypeInv /\ LedgerInv /\ BackendUpdate => LedgerInv' /\ UserIdle /\ UNCHANGED sheetVars
<1> SUFFICES ASSUME TypeInv, LedgerInv, BackendUpdate
             PROVE  LedgerInv' /\ UserIdle /\ UNCHANGED sheetVars
  OBVIOUS
<1>1. UNCHANGED appVars /\ UNCHANGED sheetVars
  BY DEF BackendUpdate, BackendTurn, FetchSummary, DrainQueue, PeriodicSync, PostRequest,
         PostRefused, GiveUpOnRadio, RequestFailed, SummaryArrives, SyncArrives, AckOk,
         AckRejected, AckUnreadable, BackendIdle
<1>2. UserIdle /\ screen' = screen /\ tx' = tx
  BY <1>1 DEF UserIdle, appVars
<1>3. ScreenKnown' /\ SheetKnown' /\ UserKnown'
  BY <1>1, <1>2 DEF LedgerInv, ScreenKnown, SheetKnown, UserKnown, UserIdle, sheetVars
<1>4. queue \in Seq(Entry)
  BY DEF TypeInv, TypeOK, QueueTypeOK
<1>5. QueuesKnown'
  <2>1. UNCHANGED queueVars \/ ChangeInMemory(Popped(queue))
    BY DEF BackendUpdate, BackendTurn, FetchSummary, DrainQueue, PeriodicSync, PostRequest,
           PostRefused, GiveUpOnRadio, RequestFailed, SummaryArrives, SyncArrives, AckOk,
           AckRejected, AckUnreadable, BackendIdle
  <2> QED BY <1>2, <1>4, <2>1, KnownPopped
          DEF LedgerInv, QueuesKnown, UserIdle, ChangeInMemory, queueVars
<1>6. \/ request' \in {request, NoRequest, SyncRequest, SummaryRequest}
      \/ queue # <<>> /\ request' = queue[1]
  BY DEF BackendUpdate, BackendTurn, FetchSummary, DrainQueue, PeriodicSync, PostRequest,
         PostRefused, GiveUpOnRadio, RequestFailed, SummaryArrives, SyncArrives, AckOk,
         AckRejected, AckUnreadable, BackendIdle, Start, StartSync, SendQueuedNow, Finish,
         backendVars
<1>7. wire' \in {wire, request, NoRequest} /\ late' = late
  BY DEF BackendUpdate, BackendTurn, FetchSummary, DrainQueue, PeriodicSync, PostRequest,
         PostRefused, GiveUpOnRadio, RequestFailed, SummaryArrives, SyncArrives, AckOk,
         AckRejected, AckUnreadable, BackendIdle, Post, Finish, ResetClient, apiVars
<1>8. LinkKnown'
  BY <1>2, <1>4, <1>6, <1>7, KnownBackground, KnownHead
     DEF LedgerInv, LinkKnown, QueuesKnown, UserIdle
<1> QED BY <1>1, <1>2, <1>3, <1>5, <1>8 DEF LedgerInv

LEMMA AppUpdateKeepsLedgerInv ==
    LedgerInv /\ AppUpdate => LedgerInv' /\ UserIdle /\ UNCHANGED sheetVars
<1> SUFFICES ASSUME LedgerInv, AppUpdate
             PROVE  LedgerInv' /\ UserIdle /\ UNCHANGED sheetVars
  OBVIOUS
<1>1. /\ UNCHANGED apiVars /\ UNCHANGED sheetVars /\ UNCHANGED queueVars
      /\ request' = request /\ UserIdle
  BY AppUpdateEffect DEF UserIdle
<1>2. \/ screen' \notin {"Submitting", "Undoing", "Success", "Error"}
      \/ tx' = tx /\ (screen' = screen \/ screen \in {"Submitting", "Undoing"})
  BY DEF AppUpdate, AppTurn, PollSucceeds, PollFails, SubmitTimer, UndoTimer, Dwell, AppIdle,
         ShowBooked, ShowUndone, BackToCatalog, AwaitsResult, appVars
<1>3. ScreenKnown'
  BY <1>1, <1>2 DEF LedgerInv, ScreenKnown, UserIdle
<1> QED BY <1>1, <1>3 DEF LedgerInv, QueuesKnown, LinkKnown, SheetKnown, UserKnown, UserIdle,
                           queueVars, apiVars, sheetVars

\* A step that moves nothing but the device's own bookkeeping.
LEMMA QuietStep ==
    ASSUME LedgerInv, UNCHANGED sheetVars, UserIdle,
           QueuesKnown', LinkKnown', ScreenKnown'
    PROVE  LedgerInv'
BY DEF LedgerInv, SheetKnown, UserKnown, UserIdle, sheetVars

LEMMA DeviceKeepsLedgerInv ==
    ASSUME LedgerInv,
           \/ FlushQueue \/ TaskEnds \/ Restart
           \/ ClockStep(DeadlinePasses) \/ ClockStep(BackoffElapses)
           \/ UNCHANGED vars
    PROVE  LedgerInv' /\ UserIdle /\ UNCHANGED sheetVars
<1>1. CASE FlushQueue
  <2>1. UNCHANGED appVars /\ UNCHANGED backendVars /\ UNCHANGED apiVars /\ UNCHANGED sheetVars
    BY <1>1 DEF FlushQueue
  <2>2. UserIdle /\ ScreenKnown' /\ LinkKnown'
    BY <2>1 DEF UserIdle, ScreenKnown, LinkKnown, LedgerInv, appVars, backendVars, apiVars
  <2>3. CASE dirty
    BY <1>1, <2>1, <2>2, <2>3, KnownStored, QuietStep
       DEF FlushQueue, LedgerInv, QueuesKnown, UserIdle
  <2>4. CASE ~dirty
    <3>1. QueuesKnown'
      BY <1>1, <2>2, <2>4 DEF FlushQueue, LedgerInv, QueuesKnown, UserIdle, queueVars
    <3> QED BY <2>1, <2>2, <3>1, QuietStep
  <2> QED BY <2>3, <2>4
<1>2. CASE TaskEnds
  <2>1. /\ UNCHANGED appVars /\ UNCHANGED backendVars /\ UNCHANGED queueVars
        /\ UNCHANGED sheetVars /\ wire' = wire
        /\ late' = late \/ late' = late \cup {wire}
    BY <1>2 DEF TaskEnds, NetworkStep, PerformDone, PerformUnreadable, PerformFails
  <2>2. UserIdle /\ ScreenKnown' /\ QueuesKnown'
    BY <2>1 DEF UserIdle, ScreenKnown, QueuesKnown, LedgerInv, appVars, queueVars
  <2>3. LinkKnown'
    BY <2>1, <2>2 DEF LinkKnown, LedgerInv, UserIdle, backendVars
  <2> QED BY <2>1, <2>2, <2>3, QuietStep
<1>3. CASE Restart
  <2>1. /\ UserIdle /\ UNCHANGED sheetVars /\ queue' = file /\ file' = file
        /\ request' = SyncRequest /\ wire' = NoRequest
        /\ late' = late \/ late' = late \cup {wire}
        /\ screen' = "SelectingProduct"
    BY <1>3 DEF Restart, LoadQueue, AbandonClient, UserIdle, historyVars
  <2>2. LinkKnown'
    BY <2>1, KnownBackground DEF LinkKnown, LedgerInv, UserIdle
  <2>3. QueuesKnown' /\ ScreenKnown'
    BY <2>1 DEF LedgerInv, QueuesKnown, ScreenKnown, UserIdle
  <2> QED BY <2>1, <2>2, <2>3, QuietStep
<1>4. CASE ClockStep(DeadlinePasses) \/ ClockStep(BackoffElapses) \/ UNCHANGED vars
  <2>1. /\ UNCHANGED appVars /\ UNCHANGED queueVars /\ UNCHANGED apiVars
        /\ UNCHANGED sheetVars /\ request' = request
    BY <1>4 DEF ClockStep, DeadlinePasses, BackoffElapses, vars, slotVars, backendVars
  <2> QED BY <2>1 DEF UserIdle, ScreenKnown, QueuesKnown, LinkKnown, SheetKnown, UserKnown,
                      LedgerInv, appVars, queueVars, apiVars, sheetVars
<1> QED BY <1>1, <1>2, <1>3, <1>4

----------------------------------------------------------------------------
(* The backend's steps are those of the ledger *)

\* The backend executes a known request: at most one row is recorded or marked.
SheetStep(t) ==
    \/ /\ t \in submitted /\ rows[t] = 0
       /\ rows' = [rows EXCEPT ![t] = 1] /\ voided' = voided
    \/ /\ t \in undoAsked /\ rows[t] = 1
       /\ rows' = rows /\ voided' = [voided EXCEPT ![t] = TRUE]

LEMMA KnownPost ==
    ASSUME TypeInv, SheetKnown, NEW r \in Request, Known(r, submitted, undoAsked),
           NEW a, DoPost(r, a)
    PROVE  UNCHANGED sheetVars \/ \E t \in Tx : SheetStep(t)
<1>1. CASE r.kind = "purchase" /\ RecordPurchase(r.tx, a)
  <2>1. r.tx \in Tx /\ r.tx \in submitted
    BY <1>1 DEF Request, Entry, Transaction, Change, SyncRequest, SummaryRequest, NoRequest,
                Known
  <2>2. rows[r.tx] \in {0, 1}
    BY <2>1 DEF SheetKnown
  <2> QED BY <1>1, <2>1, <2>2 DEF RecordPurchase, AppendRow, FindPurchaseRow, SheetStep, sheetVars
<1>2. CASE r.kind = "void" /\ VoidPurchase(r.tx, a)
  <2>1. r.tx \in Tx /\ r.tx \in undoAsked
    BY <1>2 DEF Request, Entry, Transaction, Change, SyncRequest, SummaryRequest, NoRequest,
                Known
  <2>2. rows[r.tx] \in {0, 1}
    BY <2>1 DEF SheetKnown
  <2> QED BY <1>2, <2>1, <2>2 DEF VoidPurchase, MarkRow, FindPurchaseRow, SheetStep, sheetVars
<1> QED BY <1>1, <1>2 DEF DoPost

LEMMA SheetStepKeepsSheetKnown ==
    ASSUME TypeInv, SheetKnown, NEW t \in Tx, SheetStep(t)
    PROVE  SheetKnown'
<1>1. rows \in [Tx -> Nat] /\ voided \in [Tx -> BOOLEAN]
  BY DEF TypeInv, TypeOK, SheetTypeOK
<1> QED BY <1>1 DEF SheetStep, SheetKnown

LEMMA ServerKeepsLedgerInv ==
    ASSUME TypeInv, LedgerInv, ServerStep(BackendAnswers) \/ ServerStep(LateExecution)
    PROVE  /\ LedgerInv' /\ UserIdle
           /\ UNCHANGED sheetVars \/ \E t \in Tx : SheetStep(t)
<1>1. /\ UNCHANGED appVars /\ UNCHANGED backendVars /\ UNCHANGED queueVars
      /\ wire' = wire /\ late' \subseteq late
  BY DEF ServerStep, BackendAnswers, LateExecution
<1>2. UserIdle /\ ScreenKnown' /\ QueuesKnown' /\ UserKnown'
  BY <1>1 DEF UserIdle, ScreenKnown, QueuesKnown, UserKnown, LedgerInv, appVars, queueVars
<1>3. LinkKnown'
  BY <1>1, <1>2 DEF LinkKnown, LedgerInv, UserIdle, backendVars
<1>4. PICK r \in Request : Known(r, submitted, undoAsked) /\ \E a \in Answers : DoPost(r, a)
  <2>1. wire \in Request /\ late \subseteq Request
    BY DEF TypeInv, TypeOK, ApiTypeOK, Request, Entry
  <2> QED BY <2>1 DEF ServerStep, BackendAnswers, LateExecution, LedgerInv, LinkKnown
<1>5. UNCHANGED sheetVars \/ \E t \in Tx : SheetStep(t)
  BY <1>4, KnownPost DEF LedgerInv
<1>6. SheetKnown'
  BY <1>5, SheetStepKeepsSheetKnown DEF LedgerInv, SheetKnown, sheetVars
<1> QED BY <1>2, <1>3, <1>5, <1>6 DEF LedgerInv

----------------------------------------------------------------------------
(* Refinement *)

Account == [t \in Tx |-> LedgerEntry(t)]

LEMMA SheetStepInLedger ==
    ASSUME TypeInv, LedgerInv, UserIdle, NEW t \in Tx, SheetStep(t)
    PROVE  Ledger!Next \/ UNCHANGED Ledger!vars
<1>1. rows \in [Tx -> Nat] /\ voided \in [Tx -> BOOLEAN]
  BY DEF TypeInv, TypeOK, SheetTypeOK
<1>2. (rows[t] = 0 => ~voided[t]) /\ \A u \in Tx : rows[u] \in {0, 1}
  BY DEF LedgerInv, SheetKnown
<1>3. CASE rows[t] = 0
  <2>1. t \in submitted /\ rows' = [rows EXCEPT ![t] = 1] /\ voided' = voided
    BY <1>1, <1>3 DEF SheetStep
  <2>2. LedgerEntry(t) = "absent" /\ LedgerEntry(t)' = "recorded"
    BY <1>1, <1>2, <1>3, <2>1 DEF LedgerEntry
  <2>3. \A u \in Tx : u # t => LedgerEntry(u)' = LedgerEntry(u)
    BY <1>1, <2>1 DEF LedgerEntry
  <2>4. Account' = [Account EXCEPT ![t] = "recorded"]
    BY <2>2, <2>3 DEF Account
  <2>5. Ledger!Record(t)
    BY <2>1, <2>2, <2>4 DEF Ledger!Record, UserIdle, Account
  <2> QED BY <2>5 DEF Ledger!Next
<1>4. CASE rows[t] # 0
  <2>1. t \in undoAsked /\ rows[t] = 1 /\ rows' = rows /\ voided' = [voided EXCEPT ![t] = TRUE]
    BY <1>4 DEF SheetStep
  <2>2. LedgerEntry(t)' = "voided" /\ LedgerEntry(t) = IF voided[t] THEN "voided" ELSE "recorded"
    BY <1>1, <2>1 DEF LedgerEntry
  <2>3. \A u \in Tx : u # t => LedgerEntry(u)' = LedgerEntry(u)
    BY <1>1, <2>1 DEF LedgerEntry
  <2>4. Account' = [Account EXCEPT ![t] = "voided"]
    BY <2>2, <2>3 DEF Account
  <2>5. CASE voided[t]
    <3>1. Account' = Account
      BY <2>2, <2>3, <2>5 DEF Account
    <3> QED BY <3>1 DEF UserIdle, Ledger!vars, Account
  <2>6. CASE ~voided[t]
    <3>1. Ledger!Void(t)
      BY <2>1, <2>2, <2>4, <2>6 DEF Ledger!Void, UserIdle, Account
    <3> QED BY <3>1 DEF Ledger!Next
  <2> QED BY <2>5, <2>6
<1> QED BY <1>3, <1>4

LEMMA UserStepInLedger ==
    ASSUME TypeInv, LedgerInv, UserStep, UNCHANGED sheetVars
    PROVE  Ledger!Next \/ UNCHANGED Ledger!vars
<1>1. Account' = Account
  BY DEF Account, LedgerEntry, sheetVars
<1>2. CASE submitted' = submitted /\ undoAsked' = undoAsked
  BY <1>1, <1>2 DEF Ledger!vars, Account
<1>3. CASE \E t \in Tx : submitted' = submitted \cup {t} /\ undoAsked' = undoAsked
  BY <1>1, <1>3 DEF Ledger!Next, Ledger!Submit, Account
<1>4. CASE submitted' = submitted /\ screen = "Success" /\ undoAsked' = undoAsked \cup {tx}
  <2>1. tx \in submitted /\ tx \in Tx
    BY <1>4 DEF LedgerInv, ScreenKnown, TypeInv, ScreenHasTx
  <2>2. Ledger!Reverse(tx)
    BY <1>1, <1>4, <2>1 DEF Ledger!Reverse, Account
  <2> QED BY <2>1, <2>2 DEF Ledger!Next
<1> QED BY <1>2, <1>3, <1>4 DEF UserStep

LEMMA NextInLedger ==
    TypeInv /\ UndoInv /\ LedgerInv /\ [Next]_vars => LedgerInv' /\ [Ledger!Next]_(Ledger!vars)
<1> SUFFICES ASSUME TypeInv, UndoInv, LedgerInv, [Next]_vars
             PROVE  LedgerInv' /\ [Ledger!Next]_(Ledger!vars)
  OBVIOUS
<1>1. ASSUME LedgerInv' /\ UserIdle /\ UNCHANGED sheetVars
      PROVE  LedgerInv' /\ [Ledger!Next]_(Ledger!vars)
  BY <1>1, UserStepInLedger DEF UserStep, UserIdle
<1>2. CASE UiEvent
  BY <1>2, UiKeepsLedgerInv, UserStepInLedger
<1>3. CASE ServerStep(BackendAnswers) \/ ServerStep(LateExecution)
  BY <1>1, <1>3, ServerKeepsLedgerInv, SheetStepInLedger
<1> QED BY <1>1, <1>2, <1>3, BackendUpdateKeepsLedgerInv, AppUpdateKeepsLedgerInv,
           DeviceKeepsLedgerInv
        DEF Next, LoopStep, PowerCut, PowerReturns

LEMMA InitInLedger == Init => LedgerInv /\ Ledger!Init
<1> SUFFICES ASSUME Init PROVE LedgerInv /\ Ledger!Init
  OBVIOUS
<1>1. QueuesKnown
  BY KnownEmpty DEF Init, QueueInit, QueuesKnown
<1>2. LinkKnown
  BY KnownBackground DEF Init, ApiInit, BackendInit, LinkKnown
<1>3. ScreenKnown /\ SheetKnown /\ UserKnown
  BY DEF Init, AppInit, SheetInit, ScreenKnown, SheetKnown, UserKnown
<1>4. Ledger!Init
  BY DEF Init, AppInit, SheetInit, Ledger!Init, LedgerEntry
<1> QED BY <1>1, <1>2, <1>3, <1>4 DEF LedgerInv

\* Whatever the surroundings do, a drink is recorded at most once and only if it
\* was submitted, and reversed only if the user asked, once and for good: the
\* duplicate check of handleRecordPurchase_ against every way a request can be
\* repeated, delayed or replayed after a restart.
THEOREM LedgerImplemented == Spec => ImplementsLedger
<1> QED BY InitTypeInv, NextKeepsTypeInv, InitSlotInv, NextKeepsUndoInv, InitInLedger,
           NextInLedger, PTL DEF Spec, ImplementsLedger, Ledger!Spec

----------------------------------------------------------------------------
(* A purchase and its reversal *)

NoPair(q) == \A t \in Tx : ~(Has(q, Purchase(t)) /\ Has(q, Void(t)))

\* What a waiting or failed submission would push has never been taken back,
\* and what waits to be reversed is an undo that failed or is under way.
PairInv ==
    /\ NoPair(queue) /\ NoPair(file)
    /\ \/ screen = "Submitting"
       \/ screen = "Error" /\ ~undoInFlight
       => tx \notin undoAsked
    /\ screen = "Undoing" => undoInFlight

LEMMA PairTypes ==
    ASSUME TypeInv
    PROVE  /\ queue \in Seq(Entry) /\ file \in Seq(Entry)
           /\ \A t, u : Purchase(t) # Void(u) /\ Purchase(t) # Change /\ Void(t) # Change
           /\ \A t, u : (Purchase(t) = Purchase(u) \/ Void(t) = Void(u)) => t = u
BY DEF TypeInv, TypeOK, QueueTypeOK, Purchase, Void, Change

LEMMA PairPopped ==
    ASSUME NEW q \in Seq(Entry), NoPair(q)
    PROVE  /\ NoPair(Popped(q))
           /\ \A u : HoldsPurchase(q, u) => NoPair(WithoutPurchase(q, u))
BY HeldBefore DEF NoPair

\* A reversal that is queued was asked for.
LEMMA VoidWasAsked ==
    ASSUME LedgerInv, NEW t, Has(queue, Void(t))
    PROVE  t \in undoAsked
<1>1. PICK i \in DOMAIN queue : queue[i] = Void(t)
  BY DEF Has
<1>2. Known(queue[i], submitted, undoAsked)
  BY DEF LedgerInv, QueuesKnown, AllKnown
<1> QED BY <1>1, <1>2 DEF Known, Void

\* What a touch pushes never meets its counterpart in the queue.
LEMMA PairAppended ==
    ASSUME TypeInv, LedgerInv, NoPair(queue), NEW e \in Entry, Offered(e), ~Full(queue),
           screen' = "Submitting" => tx' \notin undoAsked'
    PROVE  undoAsked \subseteq undoAsked' => NoPair(Append(queue, e))
<1> SUFFICES ASSUME undoAsked \subseteq undoAsked', NEW t \in Tx,
                    Has(Append(queue, e), Purchase(t)), Has(Append(queue, e), Void(t))
             PROVE  FALSE
  BY DEF NoPair
<1>1. /\ Has(queue, Purchase(t)) \/ Purchase(t) = e
      /\ Has(queue, Void(t)) \/ Void(t) = e
  BY HasAppend, PairTypes
<1>2. CASE e = Change
  BY <1>1, <1>2, PairTypes DEF NoPair
<1>3. CASE e = Purchase(tx') /\ screen' = "Submitting"
  <2>1. ~Has(queue, Void(tx'))
    BY <1>3, VoidWasAsked
  <2> QED BY <1>1, <1>3, <2>1, PairTypes DEF NoPair
<1>4. CASE e = Void(tx) /\ ~HoldsPurchase(queue, tx)
  <2>1. ~Has(queue, Purchase(tx))
    BY <1>4 DEF HoldsPurchase, Has
  <2> QED BY <1>1, <1>4, <2>1, PairTypes DEF NoPair
<1> QED BY <1>2, <1>3, <1>4 DEF Offered

\* A write leaves a queue without such a pair on flash, whether it succeeds or not.
LEMMA PairStored ==
    ASSUME NoPair(file), NEW q, NoPair(q), NEW faults, Store(q, faults)
    PROVE  NoPair(queue') /\ NoPair(file')
<1>1. \A x : ~Has(<<>>, x)
  BY DEF Has
<1>2. NoPair(<<>>)
  BY <1>1 DEF NoPair
<1>3. queue' = q /\ (file' = q \/ file' = file \/ file' = <<>>)
  BY DEF Store, Flush
<1> QED BY <1>2, <1>3

LEMMA UiKeepsPairInv == TypeInv /\ UndoInv /\ LedgerInv /\ PairInv /\ UiEvent => PairInv'
<1> SUFFICES ASSUME TypeInv, UndoInv, LedgerInv, PairInv, UiEvent PROVE PairInv'
  OBVIOUS
<1>1. TouchesQueue /\ UserStep
  BY UiEffect, UiUserStep DEF LedgerInv
<1>2. undoAsked \subseteq undoAsked'
  BY <1>1 DEF UserStep
<1>3. /\ screen' = "Submitting" => tx' \notin undoAsked'
      /\ screen' = "Error" /\ ~undoInFlight' => tx' \notin undoAsked'
      /\ screen' = "Undoing" => undoInFlight'
  <2>1. CASE \E t \in Tx : UiTurn(TapResident(t))
    BY <2>1 DEF UiTurn, TapResident, LedgerInv, UserKnown
  <2>2. CASE UiTurn(TapUndo)
    BY <2>2 DEF UiTurn, TapUndo
  <2>3. CASE UiTurn(TapRetry)
    BY <2>3 DEF UiTurn, TapRetry, RetryAgain, historyVars, PairInv
  <2>4. CASE UiTurn(UiIdle)
    BY <2>4 DEF UiTurn, UiIdle, appVars, PairInv
  <2>5. CASE screen' \notin {"Submitting", "Undoing", "Error"}
    BY <2>5
  <2> QED BY <2>1, <2>2, <2>3, <2>4, <2>5
          DEF UiEvent, UiTurn, TapProduct, TapBack, BackToCatalog, TapSummary, TapEditor,
              ConfirmEdit, TapAdmin, ToggleFailure, Sleep, Wake
<1>4. NoPair(queue') /\ NoPair(file')
  <2>1. CASE UNCHANGED queueVars
    BY <2>1 DEF PairInv, queueVars
  <2>2. CASE \E e \in Entry : Offered(e) /\ ~Full(queue) /\ Store(Append(queue, e), Env)
    BY <1>2, <1>3, <2>2, PairAppended, PairStored DEF PairInv
  <2>3. CASE HoldsPurchase(queue, tx) /\ Store(WithoutPurchase(queue, tx), Env)
    BY <2>3, PairTypes, PairPopped, PairStored DEF PairInv
  <2> QED BY <1>1, <2>1, <2>2, <2>3 DEF TouchesQueue
<1>5. (NoPair(queue) /\ NoPair(file))'
  BY <1>4 DEF NoPair
<1> QED BY <1>3, <1>5 DEF PairInv

LEMMA NextKeepsPairInv ==
    TypeInv /\ UndoInv /\ LedgerInv /\ PairInv /\ [Next]_vars => PairInv'
<1> SUFFICES ASSUME TypeInv, UndoInv, LedgerInv, PairInv, [Next]_vars PROVE PairInv'
  OBVIOUS
<1>1. CASE BackendUpdate
  <2>1. UNCHANGED appVars /\ (UNCHANGED queueVars \/ ChangeInMemory(Popped(queue)))
    BY <1>1 DEF BackendUpdate, BackendTurn, FetchSummary, DrainQueue, PeriodicSync,
       PostRequest, PostRefused, GiveUpOnRadio, RequestFailed, SummaryArrives, SyncArrives,
       AckOk, AckRejected, AckUnreadable, BackendIdle
  <2> QED BY <2>1, PairTypes, PairPopped DEF PairInv, NoPair, ChangeInMemory, appVars, queueVars
<1>2. CASE AppUpdate
  <2>1. UNCHANGED queueVars /\ undoAsked' = undoAsked
    BY <1>2, AppUpdateEffect
  <2>2. \/ screen' \notin {"Submitting", "Undoing", "Error"}
        \/ screen' = screen /\ tx' = tx /\ undoInFlight' = undoInFlight
        \/ /\ screen \in {"Submitting", "Undoing"} /\ screen' = "Error"
           /\ tx' = tx /\ undoInFlight' = undoInFlight
    BY <1>2 DEF AppUpdate, AppTurn, PollSucceeds, PollFails, SubmitTimer, UndoTimer, Dwell,
       AppIdle, ShowBooked, ShowUndone, BackToCatalog, AwaitsResult, appVars
  <2> QED BY <2>1, <2>2 DEF PairInv, NoPair, queueVars
<1>3. CASE UiEvent
  BY <1>3, UiKeepsPairInv
<1>4. CASE FlushQueue
  <2>1. UNCHANGED appVars /\ (Store(queue, Env) \/ UNCHANGED queueVars)
    BY <1>4 DEF FlushQueue
  <2>2. NoPair(queue') /\ NoPair(file')
    BY <2>1, PairStored DEF PairInv, queueVars
  <2> QED BY <2>1, <2>2 DEF PairInv, NoPair, appVars
<1>5. CASE \/ TaskEnds \/ ServerStep(BackendAnswers) \/ ServerStep(LateExecution)
           \/ ClockStep(DeadlinePasses) \/ ClockStep(BackoffElapses) \/ UNCHANGED vars
  <2>1. UNCHANGED appVars /\ UNCHANGED queueVars
    BY <1>5 DEF TaskEnds, NetworkStep, ServerStep, ClockStep, DeadlinePasses, BackoffElapses,
                vars
  <2> QED BY <2>1 DEF PairInv, NoPair, appVars, queueVars
<1>6. CASE Restart
  BY <1>6 DEF Restart, LoadQueue, PairInv, NoPair
<1> QED BY <1>1, <1>2, <1>3, <1>4, <1>5, <1>6
        DEF Next, LoopStep, PowerCut, PowerReturns

LEMMA InitPairInv == Init => PairInv
BY DEF Init, AppInit, QueueInit, PairInv, NoPair, Has

\* Whatever the surroundings do, a purchase and its reversal never wait side by
\* side, in memory or on flash: not after a retry, a power cut in a write or an
\* old file that comes back, so no reversal is sent while its purchase still waits.
THEOREM PurchaseNeverMeetsItsVoid == Spec => []NoPurchaseWithItsVoid
<1>1. PairInv => NoPurchaseWithItsVoid
  BY DEF PairInv, NoPair, NoPurchaseWithItsVoid
<1> QED BY <1>1, InitTypeInv, NextKeepsTypeInv, InitSlotInv, NextKeepsUndoInv, InitInLedger,
           NextInLedger, InitPairInv, NextKeepsPairInv, PTL DEF Spec

=============================================================================
