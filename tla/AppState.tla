----------------------------- MODULE AppState -----------------------------
(***************************************************************************)
(* The screen flow of a purchase (app_state.cpp): pick a beer, pick a      *)
(* resident, submit, confirm, undo, summary, error.  dispatch() and        *)
(* enter() run inside the step that raises the event, so entering          *)
(* SUBMITTING or UNDOING queues the transaction, flushes it and tries to   *)
(* send it in the same step.  The four screens that edit the catalog are   *)
(* one screen, Editing, here: what matters to a purchase is that they put  *)
(* changes into the same queue.                                            *)
(*                                                                         *)
(* submitted, undoAsked and told are history variables: the ids the user   *)
(* has submitted, the ids whose reversal the user asked for, and what the  *)
(* terminal last told the user about each id.                              *)
(***************************************************************************)
EXTENDS Backend

VARIABLES
    screen,         \* g_state
    tx,             \* g_ctx.transaction_id
    simulated,      \* g_simulated; read on the two waiting screens only, FALSE elsewhere
    deferred,       \* g_ctx.deferred
    failNext,       \* g_fail_next_submit
    undone,         \* g_ctx.undone
    undoInFlight,   \* g_ctx.undo_in_flight
    submitted,
    undoAsked,
    told

contextVars == <<tx, deferred, undone, undoInFlight>>
historyVars == <<submitted, undoAsked, told>>
appVars == <<screen, tx, simulated, deferred, failNext, undone, undoInFlight,
             submitted, undoAsked, told>>

Screens == {"Sleeping", "SelectingProduct", "SelectingUser", "Submitting", "Undoing",
            "Success", "Summary", "Error", "Admin", "Editing"}

AppTypeOK ==
    /\ screen \in Screens
    /\ tx \in Tx \cup {NoTx}
    /\ simulated \in BOOLEAN
    /\ deferred \in BOOLEAN
    /\ failNext \in BOOLEAN
    /\ undone \in BOOLEAN
    /\ undoInFlight \in BOOLEAN
    /\ submitted \subseteq Tx
    /\ undoAsked \subseteq Tx
    /\ told \in [Tx -> {"nothing", "booked", "undone"}]

AppInit ==
    /\ screen = "SelectingProduct"
    /\ tx = NoTx
    /\ simulated = FALSE
    /\ deferred = FALSE
    /\ failNext = FALSE
    /\ undone = FALSE
    /\ undoInFlight = FALSE
    /\ submitted = {}
    /\ undoAsked = {}
    /\ told = [t \in Tx |-> "nothing"]

----------------------------------------------------------------------------
(* Handing a transaction to the backend *)

\* enter(SUBMITTING) and enter(UNDOING): a request of ours is in flight, is
\* stored for later, or could not be stored (apply_enqueued).
Watching == simulated' = FALSE /\ deferred' = FALSE /\ UNCHANGED failNext
Deferred == simulated' = TRUE /\ deferred' = TRUE /\ UNCHANGED failNext
Refused == simulated' = TRUE /\ deferred' = FALSE /\ failNext' = TRUE
NoBackend == simulated' = TRUE /\ deferred' = FALSE /\ UNCHANGED failNext

\* Mutant: the newest transaction goes first.
EnqueueInFront(e, r) ==
    \/ /\ Full(queue)
       /\ Refused
       /\ result' = r
       /\ UNCHANGED <<op, posted, request, expired, queueVars>>
    \/ /\ ~Full(queue)
       /\ Store(<<e>> \o queue, Env)
       /\ SendQueuedNow(<<e>> \o queue, r)
       /\ IF op = "None" THEN Watching ELSE Deferred

\* Push entry e, flush, try to send.  r is the caller-visible result so far.
Enqueue(e, r) ==
    \/ /\ Full(queue)
       /\ Refused
       /\ result' = r
       /\ UNCHANGED <<op, posted, request, expired, queueVars>>
    \/ /\ ~Full(queue)
       /\ Store(Append(queue, e), Env)
       /\ SendQueuedNow(Append(queue, e), r)
       /\ IF op = "None" THEN Watching ELSE Deferred

EnqueuePurchase(t, r) == Enqueue(Purchase(t), r)

\* Mutant: a queued purchase is not looked for before a reversal is queued.
EnqueueUndoBlindly == Enqueue(Void(tx), result)

\* Mutant: nothing is sent for a purchase that has left the queue.
EnqueueUndoOfQueuedOnly ==
    /\ IF HoldsPurchase(queue, tx) THEN Store(WithoutPurchase(queue, tx), Env)
                                   ELSE UNCHANGED queueVars
    /\ NoBackend
    /\ UNCHANGED slotVars

\* enqueue_undo(): a purchase still queued is dropped instead of reversed.
EnqueueUndo ==
    \/ /\ HoldsPurchase(queue, tx)
       /\ Store(WithoutPurchase(queue, tx), Env)
       /\ NoBackend
       /\ UNCHANGED slotVars
    \/ /\ ~HoldsPurchase(queue, tx)
       /\ Enqueue(Void(tx), result)

\* reset_context() and back to the catalog.
BackToCatalog ==
    /\ screen' = "SelectingProduct"
    /\ tx' = NoTx
    /\ deferred' = FALSE
    /\ undone' = FALSE
    /\ undoInFlight' = FALSE

restVars == <<backoff, wanted, active, apiVars, sheetVars>>

----------------------------------------------------------------------------
(* update(): results and timers *)

AwaitsResult == ~simulated /\ screen \in {"Submitting", "Undoing"}

\* What the terminal tells the user about its transaction.
Tell(what) == told' = [told EXCEPT ![tx] = what]

ShowBooked ==
    /\ screen = "Submitting"
    /\ screen' = "Success"
    /\ Tell("booked")
    /\ UNCHANGED <<undone, undoInFlight>>

ShowUndone ==
    /\ screen = "Undoing"
    /\ screen' = "Success"
    /\ undone' = TRUE
    /\ undoInFlight' = FALSE
    /\ Tell("undone")

\* The results that end the wait well: recorded, or safely on flash.
PollOk(r) == r \in {"Success", "Unreachable"}

\* The watched request succeeded, or could not reach the backend.
PollSucceeds ==
    /\ AwaitsResult
    /\ PollOk(result)
    /\ deferred' = (result = "Unreachable")
    /\ ShowBooked \/ ShowUndone
    /\ result' = "Idle"
    /\ UNCHANGED <<op, posted, request, expired, restVars, queueVars, tx, simulated,
                   failNext, submitted, undoAsked>>

\* The watched request was refused.
PollFails ==
    /\ AwaitsResult
    /\ result # "Pending" /\ ~PollOk(result)
    /\ deferred' = FALSE
    /\ screen' = "Error"
    /\ result' = "Idle"
    /\ UNCHANGED <<op, posted, request, expired, restVars, queueVars, tx, simulated,
                   failNext, undone, undoInFlight, historyVars>>

\* The timer of a submission nobody watches: an error if failing was asked for.
SubmitTimer ==
    /\ simulated /\ screen = "Submitting"
    /\ IF failNext
       THEN /\ screen' = "Error"
            /\ UNCHANGED <<told, undone, undoInFlight>>
       ELSE ShowBooked
    /\ failNext' = FALSE
    /\ simulated' = FALSE
    /\ UNCHANGED <<slotVars, restVars, queueVars, tx, deferred, submitted, undoAsked>>

\* The timer of an undo nobody watches: always a success.
UndoTimer ==
    /\ simulated /\ ShowUndone
    /\ simulated' = FALSE
    /\ UNCHANGED <<slotVars, restVars, queueVars, tx, deferred, failNext, submitted,
                   undoAsked>>

\* SUCCESS and SUMMARY clear themselves.
Dwell ==
    /\ screen \in {"Success", "Summary"}
    /\ BackToCatalog
    /\ UNCHANGED <<slotVars, restVars, queueVars, simulated, failNext, historyVars>>

\* update() has nothing to do yet.
AppIdle ==
    /\ ~AwaitsResult \/ result = "Pending"
    /\ UNCHANGED <<appVars, backendVars, apiVars, sheetVars, queueVars>>

----------------------------------------------------------------------------
(* Taps *)

TapProduct ==
    /\ screen = "SelectingProduct"
    /\ screen' = "SelectingUser"
    /\ UNCHANGED <<slotVars, restVars, queueVars, contextVars, simulated, failNext,
                   historyVars>>

\* make_transaction_id() draws a fresh id; backend::clear() drops an old result.
TapResident(t) ==
    /\ screen = "SelectingUser"
    /\ t \notin submitted
    /\ tx' = t
    /\ submitted' = submitted \cup {t}
    /\ screen' = "Submitting"
    /\ EnqueuePurchase(t, "Idle")
    /\ UNCHANGED <<restVars, undone, undoInFlight, undoAsked, told>>

TapBack ==
    /\ screen \in {"SelectingUser", "Summary", "Error"}
    /\ BackToCatalog
    /\ UNCHANGED <<slotVars, restVars, queueVars, simulated, failNext, historyVars>>

\* Whether the purchase on screen is being sent right now.
BeingSent == op = "Purchase" /\ request = Purchase(tx)

TapUndo ==
    /\ screen = "Success" /\ ~undone
    /\ "early_undo" \in Env \/ ~BeingSent
    /\ screen' = "Undoing"
    /\ undoInFlight' = TRUE
    /\ undoAsked' = undoAsked \cup {tx}
    /\ EnqueueUndo
    /\ UNCHANGED <<restVars, tx, undone, submitted, told>>

\* ERROR, Retry: the failed undo again, or the failed submission again.
RetryAgain ==
    IF undoInFlight
    THEN screen' = "Undoing" /\ EnqueueUndo
    ELSE screen' = "Submitting" /\ EnqueuePurchase(tx, result)

TapRetry ==
    /\ screen = "Error"
    /\ "early_undo" \in Env \/ ~(undoInFlight /\ BeingSent)
    /\ RetryAgain
    /\ UNCHANGED <<restVars, tx, undone, undoInFlight, historyVars>>

\* request_my_summary(): starts at once on a free slot, else waits its turn.
TapSummary ==
    /\ screen = "Success" /\ ~undone
    /\ screen' = "Summary"
    /\ wanted' = TRUE
    /\ IF op = "None" THEN Start("MySummary", SummaryRequest) ELSE UNCHANGED slotVars
    /\ UNCHANGED <<backoff, active, apiVars, sheetVars, queueVars, contextVars,
                   simulated, failNext, historyVars>>

\* The archive, new-beer and manage screens are opened, or left by Cancel.
TapEditor ==
    /\ "edits" \in Env
    /\ \/ screen \in {"SelectingProduct", "SelectingUser"} /\ screen' = "Editing"
       \/ screen = "Editing" /\ screen' \in {"SelectingProduct", "SelectingUser"}
    /\ UNCHANGED <<slotVars, restVars, queueVars, contextVars, simulated, failNext,
                   historyVars>>

\* Mutant: a change of the catalog jumps the queue.
ConfirmEditFirst ==
    /\ screen = "Editing"
    /\ screen' \in {"SelectingProduct", "SelectingUser"}
    /\ ~Full(queue)
    /\ Store(<<Change>> \o queue, Env)
    /\ SendQueuedNow(<<Change>> \o queue, result)
    /\ UNCHANGED <<restVars, contextVars, simulated, failNext, historyVars>>

\* queue_product_entry(): nobody watches the outcome, and a full queue (or a
\* catalog that refused the change) queues nothing and tells nobody.
ConfirmEdit ==
    /\ screen = "Editing"
    /\ screen' \in {"SelectingProduct", "SelectingUser"}
    /\ \/ UNCHANGED <<slotVars, queueVars>>
       \/ /\ ~Full(queue)
          /\ Store(Append(queue, Change), Env)
          /\ SendQueuedNow(Append(queue, Change), result)
    /\ UNCHANGED <<restVars, contextVars, simulated, failNext, historyVars>>

\* The admin screen and its "fail the next submission" switch.
TapAdmin ==
    /\ "demo_failure" \in Env
    /\ screen' = IF screen = "Admin" THEN "SelectingProduct" ELSE "Admin"
    /\ screen \in {"SelectingProduct", "Admin"}
    /\ UNCHANGED <<slotVars, restVars, queueVars, contextVars, simulated, failNext,
                   historyVars>>

ToggleFailure ==
    /\ screen = "Admin"
    /\ failNext' = ~failNext
    /\ UNCHANGED <<slotVars, restVars, queueVars, screen, contextVars, simulated,
                   historyVars>>

\* The standby button, or power_manager::update() after a minute without touch.
Sleep ==
    /\ screen = "SelectingProduct"
    /\ screen' = "Sleeping"
    /\ active' = FALSE
    /\ UNCHANGED <<slotVars, backoff, wanted, apiVars, sheetVars, queueVars,
                   contextVars, simulated, failNext, historyVars>>

\* The touch that wakes the screen; set_active(true) may ask for a sync.
Wake ==
    /\ screen = "Sleeping"
    /\ screen' = "SelectingProduct"
    /\ active' = TRUE
    /\ \/ UNCHANGED slotVars
       \/ op = "None" /\ StartSync
    /\ UNCHANGED <<backoff, wanted, apiVars, sheetVars, queueVars, contextVars,
                   simulated, failNext, historyVars>>

=============================================================================
