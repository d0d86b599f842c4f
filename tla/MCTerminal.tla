---------------------------- MODULE MCTerminal ----------------------------
(***************************************************************************)
(* Terminal for TLC: model values for the transactions, and symmetry for   *)
(* the configurations that check safety and treat all transactions alike.  *)
(***************************************************************************)
EXTENDS Terminal, TLC

CONSTANTS t1, t2

AllEvents == EnvEvents

Symmetry == Permutations({t1, t2})

=============================================================================
