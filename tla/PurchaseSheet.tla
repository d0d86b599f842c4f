--------------------------- MODULE PurchaseSheet ---------------------------
(***************************************************************************)
(* The Purchases sheet of the Apps Script backend, as the terminal's two   *)
(* transaction handlers change it: handleRecordPurchase_ and               *)
(* handleVoidPurchase_ of Api.gs.  Each handler runs under the script      *)
(* lock, so a handler is one atomic step.  Rows are only ever appended;    *)
(* what is kept of a row is the transaction id it carries and whether its  *)
(* voided_at cell is filled.                                               *)
(***************************************************************************)
EXTENDS Naturals

CONSTANTS
    Tx,         \* transaction ids
    Refusable,  \* ids whose purchase the validation may refuse (person gone, bad price)
    Env         \* the environment events under consideration, see EnvEvents

(***************************************************************************)
(* What the surroundings of the program may do.  A configuration lists the *)
(* events its run considers; everything else about the surroundings (order *)
(* of taps, speed of the network, radio coming and going) is always free.  *)
(*   lock_busy    another execution holds the script lock for 20 s         *)
(*   throws       an exception ends a handler before or after its write    *)
(*   link_fails   a request fails in transit and may still be executed     *)
(*   garbled      an answer arrives that is not the API's JSON             *)
(*   no_worker    the network task could not be created                    *)
(*   power_cut    the power fails between two steps                        *)
(*   cut_in_write the power fails between remove() and rename()            *)
(*   write_fails  a LittleFS write or rename reports failure               *)
(*   early_undo   Undo is tapped while that very purchase is being sent    *)
(*   demo_failure the "fail next" switch of the admin screen is used       *)
(*   edits        beers are created, archived, restored or repriced        *)
(***************************************************************************)
EnvEvents == {"lock_busy", "throws", "link_fails", "garbled", "no_worker", "power_cut",
              "cut_in_write", "write_fails", "early_undo", "demo_failure", "edits"}

ASSUME RefusableAssumption == Refusable \subseteq Tx
ASSUME EnvAssumption == Env \subseteq EnvEvents

VARIABLES
    rows,       \* how many rows of the sheet carry each transaction id
    voided      \* whether voided_at of the first row with that id is filled

sheetVars == <<rows, voided>>

SheetTypeOK ==
    /\ rows \in [Tx -> Nat]
    /\ voided \in [Tx -> BOOLEAN]

SheetInit ==
    /\ rows = [t \in Tx |-> 0]
    /\ voided = [t \in Tx |-> FALSE]

----------------------------------------------------------------------------
\* Mutant: the duplicate check misses the row the same id has just appended.
FindPurchaseRowStale(t) == rows[t] > 1

\* findPurchaseRow_: is there a row with this id?
FindPurchaseRow(t) == rows[t] > 0

AppendRow(t) ==
    /\ ~FindPurchaseRow(t)
    /\ rows' = [rows EXCEPT ![t] = @ + 1]
    /\ UNCHANGED voided

MarkRow(t) ==
    /\ FindPurchaseRow(t)
    /\ voided' = [voided EXCEPT ![t] = TRUE]
    /\ UNCHANGED rows

(***************************************************************************)
(* handleRecordPurchase_: the validation comes before the lock, the        *)
(* duplicate check and the append happen under it.  doPost answers an      *)
(* exception, also one thrown once the row is written, like a refusal.     *)
(***************************************************************************)
RecordPurchase(t, answer) ==
    \/ /\ answer = "refused"
       /\ t \in Refusable \/ "throws" \in Env
       /\ UNCHANGED sheetVars
    \/ /\ answer = "refused"
       /\ "throws" \in Env
       /\ AppendRow(t)
    \/ /\ answer = "busy"
       /\ "lock_busy" \in Env
       /\ UNCHANGED sheetVars
    \/ /\ answer = "duplicate"
       /\ FindPurchaseRow(t)
       /\ UNCHANGED sheetVars
    \/ /\ answer = "recorded"
       /\ AppendRow(t)

(***************************************************************************)
(* handleVoidPurchase_: marks the row, once; the row itself stays.         *)
(***************************************************************************)
VoidPurchase(t, answer) ==
    \/ /\ answer = "refused"
       /\ "throws" \in Env
       /\ UNCHANGED sheetVars \/ MarkRow(t)
    \/ /\ answer = "busy"
       /\ "lock_busy" \in Env
       /\ UNCHANGED sheetVars
    \/ /\ answer = "not_found"
       /\ ~FindPurchaseRow(t)
       /\ UNCHANGED sheetVars
    \/ /\ answer = "voided"
       /\ MarkRow(t)

=============================================================================
