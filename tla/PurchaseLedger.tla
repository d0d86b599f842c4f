--------------------------- MODULE PurchaseLedger ---------------------------
(***************************************************************************)
(* What terminal and backend together promise about a purchase, with the   *)
(* queue, the network, retries and power cuts out of sight: a drink the    *)
(* user submitted is recorded at most once, only because the user          *)
(* submitted it, and is taken back only because the user asked, and then   *)
(* for good.                                                               *)
(***************************************************************************)
CONSTANT Tx

VARIABLES
    submitted,  \* ids the user has submitted
    reversed,   \* ids the user has asked to take back
    entry       \* what the household's account shows for each id

vars == <<submitted, reversed, entry>>

Init ==
    /\ submitted = {}
    /\ reversed = {}
    /\ entry = [t \in Tx |-> "absent"]

Submit(t) ==
    /\ submitted' = submitted \cup {t}
    /\ UNCHANGED <<reversed, entry>>

Reverse(t) ==
    /\ t \in submitted
    /\ reversed' = reversed \cup {t}
    /\ UNCHANGED <<submitted, entry>>

Record(t) ==
    /\ t \in submitted
    /\ entry[t] = "absent"
    /\ entry' = [entry EXCEPT ![t] = "recorded"]
    /\ UNCHANGED <<submitted, reversed>>

Void(t) ==
    /\ t \in reversed
    /\ entry[t] = "recorded"
    /\ entry' = [entry EXCEPT ![t] = "voided"]
    /\ UNCHANGED <<submitted, reversed>>

Next == \E t \in Tx : Submit(t) \/ Reverse(t) \/ Record(t) \/ Void(t)

Spec == Init /\ [][Next]_vars

=============================================================================
