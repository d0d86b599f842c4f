------------------------------ MODULE Backend ------------------------------
(***************************************************************************)
(* The request slot (backend.cpp).  One operation holds it at a time; it   *)
(* may wait for the radio, is then posted to the network task, and is      *)
(* finished when the task has an outcome.  The loop calls update() once an *)
(* iteration; every branch of update() is one action below.                *)
(*                                                                         *)
(* Time is abstract: `expired` says that the slot's deadline has passed,   *)
(* `backoff` that the next drain attempt is not due yet, and a periodic    *)
(* sync may be due whenever the terminal is active.  The radio is up or    *)
(* down as wifi_manager decides in each iteration.  The bytes in g_request *)
(* and the deadline are dead once the slot is free, so finish() clears     *)
(* them here.                                                              *)
(***************************************************************************)
EXTENDS ApiClient, TransactionQueue

VARIABLES
    op,         \* g_op
    posted,     \* g_posted
    request,    \* g_request: what was built for sending
    result,     \* g_result
    expired,    \* the slot's deadline has passed while it waits for the radio
    backoff,    \* now < g_retry_after
    wanted,     \* g_my_state is Loading: an overview screen waits for figures
    active      \* g_active

slotVars == <<op, posted, request, result, expired>>
backendVars == <<op, posted, request, result, expired, backoff, wanted, active>>

QueueTypeOK ==
    /\ queue \in Seq(Entry) /\ Len(queue) <= MaxQueued
    /\ file \in Seq(Entry) /\ Len(file) <= MaxQueued
    /\ dirty \in BOOLEAN
    /\ up \in BOOLEAN

Ops == {"None", "Sync", "Purchase", "Void", "MySummary"}
Results == {"Idle", "Pending", "Success", "Unreachable", "Rejected"}

SlotTypeOK ==
    /\ op \in Ops
    /\ posted \in BOOLEAN
    /\ request \in Request
    /\ result \in Results
    /\ expired \in BOOLEAN

BackendTypeOK ==
    /\ SlotTypeOK
    /\ backoff \in BOOLEAN
    /\ wanted \in BOOLEAN
    /\ active \in BOOLEAN

\* begin() asks for a first sync, so the slot starts out taken.
BackendInit ==
    /\ op = "Sync"
    /\ posted = FALSE
    /\ request = SyncRequest
    /\ result = "Idle"
    /\ expired = FALSE
    /\ backoff = FALSE
    /\ wanted = FALSE
    /\ active = TRUE

----------------------------------------------------------------------------
\* Mutant: what the last operation left is still there for the next one to read.
StartKeepingResult(o, r) ==
    /\ op' = o
    /\ posted' = FALSE
    /\ request' = r
    /\ expired' = FALSE
    /\ UNCHANGED result

\* start() for an operation somebody may be watching.
Start(o, r) ==
    /\ op' = o
    /\ posted' = FALSE
    /\ request' = r
    /\ expired' = FALSE
    /\ result' = "Pending"

\* request_sync() on a free slot; the caller-visible result is left alone.
StartSync ==
    /\ op' = "Sync"
    /\ posted' = FALSE
    /\ request' = SyncRequest
    /\ expired' = FALSE
    /\ UNCHANGED result

OpFor(e) == IF e.kind = "void" THEN "Void" ELSE "Purchase"

\* Mutant: takes the slot although another operation holds it.
SendQueuedNowPreempting(q, r) ==
    \/ q # <<>> /\ Start(OpFor(q[1]), q[1])
    \/ q = <<>> /\ result' = r /\ UNCHANGED <<op, posted, request, expired>>

\* send_queued_now(): the head of queue q goes out if the slot is free;
\* otherwise nothing starts and the result stays r.
SendQueuedNow(q, r) ==
    \/ /\ op = "None" /\ q # <<>>
       /\ Start(OpFor(q[1]), q[1])
    \/ /\ op # "None" \/ q = <<>>
       /\ result' = r
       /\ UNCHANGED <<op, posted, request, expired>>

\* finish(): a background operation never leaves a result behind.
Finish(r) ==
    /\ result' = IF op \in {"Sync", "MySummary"} THEN "Idle" ELSE r
    /\ op' = "None"
    /\ posted' = FALSE
    /\ request' = NoRequest
    /\ expired' = FALSE
    /\ ResetClient

----------------------------------------------------------------------------
(* update() with a free slot *)

\* A waiting overview request goes first.
FetchSummary ==
    /\ op = "None"
    /\ wanted
    /\ Start("MySummary", SummaryRequest)
    /\ UNCHANGED <<backoff, wanted, active, apiVars, sheetVars, queueVars>>

DrainQueue ==
    /\ op = "None"
    /\ ~wanted
    /\ queue # <<>>
    /\ ~backoff
    /\ SendQueuedNow(queue, result)
    /\ UNCHANGED <<backoff, wanted, active, apiVars, sheetVars, queueVars>>

PeriodicSync ==
    /\ op = "None"
    /\ ~wanted
    /\ queue = <<>>
    /\ active
    /\ StartSync
    /\ UNCHANGED <<backoff, wanted, active, apiVars, sheetVars, queueVars>>

----------------------------------------------------------------------------
(* update() while the operation waits for the radio *)

PostRequest ==
    /\ op # "None" /\ ~posted
    /\ Post(request)
    /\ posted' = TRUE
    /\ expired' = FALSE
    /\ UNCHANGED <<op, request, result, backoff, wanted, active,
                   sheetVars, queueVars>>

\* note_send_failure(): the next drain attempt waits.
NoteSendFailure == backoff' = TRUE

\* post() refuses for a reason other than Busy.  A summary stays Loading.
PostRefused ==
    /\ "no_worker" \in Env
    /\ op # "None" /\ ~posted
    /\ NoteSendFailure
    /\ Finish("Unreachable")
    /\ UNCHANGED <<wanted, active, sheetVars, queueVars>>

\* The overview screen shows that no figures came.
SummaryUnavailable == wanted' = (wanted /\ op # "MySummary")

GiveUpOnRadio ==
    /\ op # "None" /\ ~posted
    /\ expired
    /\ SummaryUnavailable
    /\ NoteSendFailure
    /\ Finish("Unreachable")
    /\ UNCHANGED <<active, sheetVars, queueVars>>

----------------------------------------------------------------------------
(* update() once the task has an outcome *)

\* The entry stays queued: whether the backend executed it is unknown.
RequestFailed ==
    /\ op # "None" /\ posted
    /\ status = "Failed"
    /\ SummaryUnavailable
    /\ NoteSendFailure
    /\ Finish("Unreachable")
    /\ UNCHANGED <<active, sheetVars, queueVars>>

SummaryArrives ==
    /\ op = "MySummary" /\ posted
    /\ status = "Done"
    /\ wanted' = FALSE
    /\ Finish("Idle")
    /\ UNCHANGED <<backoff, active, sheetVars, queueVars>>

\* What apply_sync() does to catalog, residents and log is not modelled here.
SyncArrives ==
    /\ op = "Sync" /\ posted
    /\ status = "Done"
    /\ Finish("Idle")
    /\ UNCHANGED <<backoff, wanted, active, sheetVars, queueVars>>

\* Mutant: an unreadable answer counts as an acknowledgement.
ParseAckLax(a) ==
    IF a \in {"recorded", "duplicate", "voided", "changed", "unreadable"} THEN "Ok"
    ELSE IF a \in {"refused", "busy", "not_found"} THEN "Rejected"
    ELSE "Malformed"

\* Mutant: does not know the answer to a replay.
ParseAckNoReplay(a) ==
    IF a \in {"recorded", "voided", "changed"} THEN "Ok"
    ELSE IF a \in {"refused", "busy", "not_found"} THEN "Rejected"
    ELSE "Malformed"

\* parse_ack(): {ok: true}, {ok: false} with any error, or not the API's JSON.
ParseAck(a) ==
    IF a \in {"recorded", "duplicate", "voided", "changed"} THEN "Ok"
    ELSE IF a \in {"refused", "busy", "not_found"} THEN "Rejected"
    ELSE "Malformed"

AckArrives(outcome) ==
    /\ op \in {"Purchase", "Void"} /\ posted
    /\ status = "Done"
    /\ ParseAck(answer) = outcome

AckOk ==
    /\ AckArrives("Ok")
    /\ ChangeInMemory(Popped(queue))
    /\ Finish("Success")
    /\ UNCHANGED <<backoff, wanted, active, sheetVars>>

\* Mutant: what the backend refused stays queued.
AckRejectedKeeps ==
    /\ AckArrives("Rejected")
    /\ Finish("Rejected")
    /\ UNCHANGED <<backoff, wanted, active, sheetVars, queueVars>>

AckRejected ==
    /\ AckArrives("Rejected")
    /\ ChangeInMemory(Popped(queue))
    /\ Finish("Rejected")
    /\ UNCHANGED <<backoff, wanted, active, sheetVars>>

AckUnreadable ==
    /\ AckArrives("Malformed")
    /\ NoteSendFailure
    /\ Finish("Unreachable")
    /\ UNCHANGED <<wanted, active, sheetVars, queueVars>>

----------------------------------------------------------------------------
\* update() finds nothing to do.
BackendIdle ==
    /\ \/ op = "None" /\ ~wanted /\ (queue = <<>> \/ backoff)
       \/ op # "None" /\ ~posted /\ ~expired
       \/ op # "None" /\ posted /\ status = "Busy"
    /\ UNCHANGED <<backendVars, apiVars, sheetVars, queueVars>>

\* Mutant: only a sync is given a deadline.
DeadlinePassesSyncOnly ==
    /\ op = "Sync" /\ ~posted /\ ~expired
    /\ expired' = TRUE
    /\ UNCHANGED <<op, posted, request, result, backoff, wanted, active,
                   apiVars, sheetVars, queueVars>>

\* Time passes: the slot's deadline, or the drain backoff.
DeadlinePasses ==
    /\ op # "None" /\ ~posted /\ ~expired
    /\ expired' = TRUE
    /\ UNCHANGED <<op, posted, request, result, backoff, wanted, active,
                   apiVars, sheetVars, queueVars>>

BackoffElapses ==
    /\ backoff
    /\ backoff' = FALSE
    /\ UNCHANGED <<slotVars, wanted, active, apiVars, sheetVars, queueVars>>

=============================================================================
