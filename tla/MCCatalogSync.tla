--------------------------- MODULE MCCatalogSync ---------------------------
(***************************************************************************)
(* CatalogSync for TLC: a shelf with room for one beer.  The terminal is   *)
(* set up with the compiled-in list; the sheet holds the same.             *)
(***************************************************************************)
EXTENDS CatalogSync, TLC

CONSTANTS hell, dunkel      \* hell has a barcode, dunkel was typed in

Row(b, on) == [beer |-> b, price |-> 1, active |-> on]

CompiledIn == <<Row(hell, TRUE)>>

=============================================================================
