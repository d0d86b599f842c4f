----------------------------- MODULE Terminal -----------------------------
(***************************************************************************)
(* The whole terminal around a purchase: the main loop of                  *)
(* beer_terminal.ino, which runs the layers one after another on a single  *)
(* thread, the network task and the backend, which run beside it, and the  *)
(* power supply.  One iteration of loop() passes through the phases        *)
(* backend, app, ui and flush; between any two of them the network task,   *)
(* the backend, the clock or a power cut may come in.  power_manager runs  *)
(* after the flush of one iteration and before the backend's turn in the   *)
(* next; its sleeping and waking are events of the ui phase.               *)
(***************************************************************************)
EXTENDS AppState

VARIABLE phase      \* the call of loop() that comes next

vars == <<phase, appVars, backendVars, apiVars, sheetVars, queueVars>>

Phases == {"backend", "app", "ui", "flush"}

Init ==
    /\ phase = "backend"
    /\ SheetInit /\ ApiInit /\ QueueInit /\ BackendInit /\ AppInit

----------------------------------------------------------------------------
(* The loop *)

Turn(from, to) == up /\ phase = from /\ phase' = to

BackendTurn(Step) == Turn("backend", "app") /\ Step /\ UNCHANGED appVars

AppTurn(Step) == Turn("app", "ui") /\ Step

UiTurn(Step) == Turn("ui", "flush") /\ Step

UiIdle == UNCHANGED <<appVars, backendVars, apiVars, sheetVars, queueVars>>

\* transaction_queue::flush() at the end of the iteration.
FlushQueue ==
    /\ Turn("flush", "backend")
    /\ IF dirty THEN Store(queue, Env) ELSE UNCHANGED queueVars
    /\ UNCHANGED <<appVars, backendVars, apiVars, sheetVars>>

----------------------------------------------------------------------------
(* Beside the loop *)

NetworkStep(Step) == up /\ Step /\ UNCHANGED <<phase, appVars, backendVars, queueVars>>

ClockStep(Step) == up /\ Step /\ UNCHANGED <<phase, appVars>>

ServerStep(Step) == Step /\ UNCHANGED <<phase, appVars, backendVars, queueVars>>

\* Memory is gone; setup() loads the queue file and asks for a sync.
Restart ==
    /\ phase' = "backend"
    /\ LoadQueue
    /\ AbandonClient
    /\ op' = "Sync" /\ posted' = FALSE /\ request' = SyncRequest
    /\ result' = "Idle" /\ expired' = FALSE /\ backoff' = FALSE
    /\ wanted' = FALSE /\ active' = TRUE
    /\ screen' = "SelectingProduct" /\ tx' = NoTx
    /\ simulated' = FALSE /\ deferred' = FALSE /\ failNext' = FALSE
    /\ undone' = FALSE /\ undoInFlight' = FALSE
    /\ UNCHANGED <<sheetVars, historyVars>>

PowerCut == "power_cut" \in Env /\ up /\ Restart

\* The power comes back after a cut in the middle of a write.
PowerReturns == ~up /\ Restart

----------------------------------------------------------------------------
\* backend::update(), one branch per iteration.
BackendUpdate ==
    \/ BackendTurn(FetchSummary)
    \/ BackendTurn(DrainQueue)
    \/ BackendTurn(PeriodicSync)
    \/ BackendTurn(PostRequest)
    \/ BackendTurn(PostRefused)
    \/ BackendTurn(GiveUpOnRadio)
    \/ BackendTurn(RequestFailed)
    \/ BackendTurn(SummaryArrives)
    \/ BackendTurn(SyncArrives)
    \/ BackendTurn(AckOk)
    \/ BackendTurn(AckRejected)
    \/ BackendTurn(AckUnreadable)
    \/ BackendTurn(BackendIdle)

\* app_state::update().
AppUpdate ==
    \/ AppTurn(PollSucceeds)
    \/ AppTurn(PollFails)
    \/ AppTurn(SubmitTimer)
    \/ AppTurn(UndoTimer)
    \/ AppTurn(Dwell)
    \/ AppTurn(AppIdle)

\* At most one touch per iteration, and power_manager::update().
UiEvent ==
    \/ UiTurn(TapProduct)
    \/ \E t \in Tx : UiTurn(TapResident(t))
    \/ UiTurn(TapBack)
    \/ UiTurn(TapUndo)
    \/ UiTurn(TapRetry)
    \/ UiTurn(TapSummary)
    \/ UiTurn(TapEditor)
    \/ UiTurn(ConfirmEdit)
    \/ UiTurn(TapAdmin)
    \/ UiTurn(ToggleFailure)
    \/ UiTurn(Sleep)
    \/ UiTurn(Wake)
    \/ UiTurn(UiIdle)

LoopStep == BackendUpdate \/ AppUpdate \/ UiEvent \/ FlushQueue

TaskEnds ==
    \/ NetworkStep(PerformDone)
    \/ NetworkStep(PerformUnreadable)
    \/ NetworkStep(PerformFails)

Next ==
    \/ LoopStep
    \/ TaskEnds
    \/ ServerStep(BackendAnswers)
    \/ ServerStep(LateExecution)
    \/ ClockStep(DeadlinePasses)
    \/ ClockStep(BackoffElapses)
    \/ PowerCut
    \/ PowerReturns

Spec == Init /\ [][Next]_vars

----------------------------------------------------------------------------
(* Fairness *)

(***************************************************************************)
(* The device keeps running: loop() is called over and over, every call in *)
(* it returns, timers run out, deadlines pass, and perform() returns since *)
(* all its waits are bounded by request_timeout_ms.  Nothing is assumed of *)
(* the radio, the network, the backend or the user.                        *)
(***************************************************************************)
DeviceFairness ==
    /\ WF_vars(LoopStep)
    /\ SF_vars(AppTurn(SubmitTimer)) /\ SF_vars(AppTurn(UndoTimer))
    /\ WF_vars(ClockStep(DeadlinePasses)) /\ WF_vars(ClockStep(BackoffElapses))
    /\ WF_vars(TaskEnds)
    /\ WF_vars(PowerReturns)

DeviceSpec == Spec /\ DeviceFairness

(***************************************************************************)
(* The outage ends: if requests are tried again and again, one of them     *)
(* finds the radio up, reaches the backend and is answered.                *)
(***************************************************************************)
NetworkFairness ==
    /\ SF_vars(BackendTurn(PostRequest))
    /\ SF_vars(ServerStep(BackendAnswers))
    /\ SF_vars(NetworkStep(PerformDone))

NetworkSpec == DeviceSpec /\ NetworkFairness

----------------------------------------------------------------------------
(* Type invariant *)

\* Every variable holds a value of its type; in particular neither the queue
\* in memory nor the file ever outgrows the array of transaction_queue.cpp.
TypeOK ==
    /\ phase \in Phases
    /\ SheetTypeOK /\ ApiTypeOK /\ QueueTypeOK /\ BackendTypeOK /\ AppTypeOK

----------------------------------------------------------------------------
(* Safety of the request slot and the queue, whatever the surroundings do *)

\* A slot that is free or not yet posted has no request under way, and the
\* task works on what the slot holds: an outcome that reaches update() is the
\* outcome of the operation in g_op, never of one that gave the slot up.
OutcomeBelongsToSlot ==
    IF posted THEN op # "None" /\ status # "Idle" /\ wire = request
              ELSE status = "Idle"

\* A submission or reversal the screen waits for is being sent, its result still
\* pending, until update() leaves the outcome, which the screen reads in the same
\* iteration: it never sees the result of an earlier attempt, such as a drain
\* nobody watched (the bug milestone 9 describes under "Four outcomes").
WatchedResultIsFresh ==
    AwaitsResult =>
        \/ result = "Pending" /\ op \in {"Purchase", "Void"}
        \/ phase = "app" /\ result \in {"Success", "Unreachable", "Rejected"}

\* A purchase and the reversal of the same purchase never wait side by side, in
\* memory or on flash: undoing drops the one or appends the other, and Retry on
\* the error screen repeats what failed, whatever happened in between.
Has(q, e) == \E i \in DOMAIN q : q[i] = e

NoPurchaseWithItsVoid ==
    \A t \in Tx : \A q \in {queue, file} : ~(Has(q, Purchase(t)) /\ Has(q, Void(t)))

\* Taking a drink back never fails for lack of room: enqueue_undo() could be
\* refused by a full queue, and the timer would report that as a success.
UndoHasRoom ==
    \/ screen = "Success" /\ ~undone
    \/ screen = "Error" /\ undoInFlight
    => ~Full(queue) \/ HoldsPurchase(queue, tx)

----------------------------------------------------------------------------
(* Safety of a purchase when its surroundings behave as the design assumes *)

\* The entry being sent is the head of the queue, so the acknowledgement pops
\* the entry it acknowledges.
HeadIsInFlight ==
    op \in {"Purchase", "Void"} => queue # <<>> /\ queue[1] = request

\* What the task sends is on flash at that moment: a power cut cannot forget a
\* transaction the backend may be executing.
DurableBeforeSent ==
    status = "Busy" /\ wire \in Entry => Has(file, wire)

\* A drink the terminal called booked, and nobody took back, is in the sheet or
\* on flash, at every instant and so across every power cut and lost answer.
DrinkNeverLost ==
    \A t \in Tx \ undoAsked :
        told[t] = "booked" => rows[t] > 0 \/ Has(file, Purchase(t))

\* A reversal is queued only for a purchase the backend has recorded: one that
\* never got there is dropped from the queue instead.
VoidHasItsPurchase ==
    \A t \in Tx : Has(queue, Void(t)) => rows[t] > 0

\* A drink the terminal called undone is not in the sheet and not on its way
\* there, or its row is marked, or the reversal is on flash.
UndoneIsReversed ==
    \A t \in Tx : told[t] = "undone" =>
        \/ rows[t] = 0 /\ ~Has(queue, Purchase(t)) /\ Purchase(t) \notin late
        \/ voided[t]
        \/ Has(file, Void(t))

----------------------------------------------------------------------------
(* Liveness *)

\* The user never stays on a waiting screen, whatever the network does.
WaitEnds == screen \in {"Submitting", "Undoing"} ~> screen \notin {"Submitting", "Undoing"}

\* The power stays on from some point, and nobody puts the terminal to sleep
\* and wakes it for ever: each wake may start a sync, and a touch a minute for
\* all eternity could hold the slot whenever the queue wants it.
SettlesDown ==
    /\ <>[][~PowerCut]_vars
    /\ <>[]active \/ <>[]~active

\* Every queued transaction leaves the queue, also behind a catalog change that
\* the backend refuses, and also while the terminal sleeps.
Waiting(t) == Has(queue, Purchase(t)) \/ Has(queue, Void(t))

QueueDrains == SettlesDown => \A t \in Tx : Waiting(t) ~> ~Waiting(t)

\* Every drink called booked gets into the sheet unless it is taken back or the
\* backend, which has the last word on residents and prices, refuses it.
BookedGetsRecorded ==
    SettlesDown => \A t \in Tx \ Refusable :
        told[t] = "booked" ~> rows[t] > 0 \/ t \in undoAsked

----------------------------------------------------------------------------
(* Refinement *)

\* What the household's account shows for t; two rows would be charged twice.
LedgerEntry(t) ==
    IF rows[t] = 0 THEN "absent"
    ELSE IF rows[t] > 1 THEN "double"
    ELSE IF voided[t] THEN "voided" ELSE "recorded"

Ledger == INSTANCE PurchaseLedger
            WITH reversed <- undoAsked, entry <- [t \in Tx |-> LedgerEntry(t)]

\* Across lost answers, late executions, retries and power cuts, a drink is
\* recorded at most once and only if submitted, and reversed only if the user
\* asked, once and for good.
ImplementsLedger == Ledger!Spec

=============================================================================
