----------------------------- MODULE ApiClient -----------------------------
(***************************************************************************)
(* The network task (api_client.cpp) and the network behind it.  The loop  *)
(* hands one request over; the task performs it on its own and leaves Done *)
(* or Failed behind; the loop takes the outcome and resets the client.     *)
(* A request whose connection breaks may still reach the backend: such     *)
(* requests wait in `late` and are executed at any later time; only those  *)
(* that change the Purchases sheet are kept track of.                      *)
(***************************************************************************)
EXTENDS PurchaseSheet

CONSTANT NoTx           \* "no transaction id"

ASSUME NoTxAssumption == NoTx \notin Tx

VARIABLES
    status,     \* api_client::Status
    wire,       \* the request the task is performing
    answer,     \* what the backend answered to it, "none" until it has
    late        \* requests the task gave up on that may still be executed

apiVars == <<status, wire, answer, late>>

Transaction == [kind : {"purchase", "void"}, tx : Tx]
Change == [kind |-> "change", tx |-> NoTx]      \* a change to the catalog
Entry == Transaction \cup {Change}
SyncRequest == [kind |-> "sync", tx |-> NoTx]
SummaryRequest == [kind |-> "summary", tx |-> NoTx]
NoRequest == [kind |-> "none", tx |-> NoTx]
Request == Entry \cup {SyncRequest, SummaryRequest, NoRequest}

Answers == {"none", "recorded", "duplicate", "refused", "busy", "voided",
            "not_found", "changed", "data", "unreadable"}

ApiTypeOK ==
    /\ status \in {"Idle", "Busy", "Done", "Failed"}
    /\ wire \in Request
    /\ answer \in Answers
    /\ late \subseteq Transaction

ApiInit ==
    /\ status = "Idle"
    /\ wire = NoRequest
    /\ answer = "none"
    /\ late = {}

----------------------------------------------------------------------------
\* doPost: the backend executes request r and answers a.  A change of the
\* catalog does not touch the sheet modelled here; nor does reading it.
DoPost(r, a) ==
    \/ r.kind = "purchase" /\ RecordPurchase(r.tx, a)
    \/ r.kind = "void" /\ VoidPurchase(r.tx, a)
    \/ /\ r.kind = "change"
       /\ a \in {"changed", "refused"} \/ (a = "busy" /\ "lock_busy" \in Env)
       /\ UNCHANGED sheetVars
    \/ /\ r.kind \in {"sync", "summary"}
       /\ a = "data" \/ (a = "refused" /\ "throws" \in Env)
       /\ UNCHANGED sheetVars

\* post(): the loop hands request r to the task, which must be idle.
Post(r) ==
    /\ status = "Idle"
    /\ status' = "Busy"
    /\ wire' = r
    /\ answer' = "none"
    /\ UNCHANGED late

\* reset(): the loop has taken the outcome.  The buffers are dead after it.
ResetClient ==
    /\ status' = "Idle"
    /\ wire' = NoRequest
    /\ answer' = "none"
    /\ UNCHANGED late

----------------------------------------------------------------------------
\* The request reaches the backend while the task still waits for the answer.
BackendAnswers ==
    /\ status = "Busy"
    /\ answer = "none"
    /\ \E a \in Answers : DoPost(wire, a) /\ answer' = a
    /\ UNCHANGED <<status, wire, late>>

\* perform(): a 2xx answer has been read to its end.
PerformDone ==
    /\ status = "Busy"
    /\ answer # "none"
    /\ status' = "Done"
    /\ UNCHANGED <<wire, answer, late, sheetVars>>

\* perform(): a 2xx page that is not the API's JSON, after or instead of the
\* execution of the request (Apps Script shows its own errors as HTML pages).
PerformUnreadable ==
    /\ "garbled" \in Env
    /\ status = "Busy"
    /\ status' = "Done"
    /\ answer' = "unreadable"
    /\ UNCHANGED <<wire, late, sheetVars>>

\* perform(): transport error, timeout, HTTP error, refused redirect or an
\* answer too large.  Nothing is known about the request: the backend may have
\* executed it, may never see it, or may still execute it.
PerformFails ==
    /\ "link_fails" \in Env
    /\ status = "Busy"
    /\ status' = "Failed"
    /\ \/ late' = late
       \/ answer = "none" /\ wire \in Transaction /\ late' = late \cup {wire}
    /\ answer' = "none"
    /\ UNCHANGED <<wire, sheetVars>>

\* A request nobody waits for any more reaches the backend.
LateExecution ==
    /\ \E r \in late :
          /\ \E a \in Answers : DoPost(r, a)
          /\ late' = late \ {r}
    /\ UNCHANGED <<status, wire, answer>>

\* The terminal loses power: an unanswered request may be lost or be late.
AbandonClient ==
    /\ status' = "Idle"
    /\ wire' = NoRequest
    /\ answer' = "none"
    /\ \/ late' = late
       \/ /\ status = "Busy" /\ answer = "none" /\ wire \in Transaction
          /\ late' = late \cup {wire}

=============================================================================
