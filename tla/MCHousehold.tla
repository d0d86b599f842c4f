---------------------------- MODULE MCHousehold ----------------------------
(***************************************************************************)
(* Household for TLC: two people, both of whom the terminal starts with;   *)
(* the sheet has one of them, or both.  A third has left, and his drink is *)
(* in the sheet, so that the summary cannot hold everybody; the two drinks *)
(* of a behaviour are different beers, and an overview holds only one.     *)
(***************************************************************************)
EXTENDS Household

CONSTANTS anna, ben, carl

Left == {carl}
Beers == {"lager", "ale"}
Tapped == <<"lager", "ale">>
OldDrinks == <<[tx |-> 0, who |-> carl, beer |-> "ale"]>>
NoDrinks == <<>>

Row(p) == [who |-> p, active |-> TRUE]

CompiledIn == <<anna, ben>>
Both == <<Row(anna), Row(ben)>>
One == <<Row(anna)>>

=============================================================================
