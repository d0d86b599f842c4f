--------------------------- MODULE ProductsSheet ---------------------------
(***************************************************************************)
(* The Products sheet of the backend and the handlers that change it or    *)
(* read it for the terminal (Data.gs, Admin.gs, Api.gs).  A row is a beer, *)
(* found by its barcode or, without one, by its name; what is kept of the  *)
(* other columns is the price (0 for a free beer is a price like any       *)
(* other) and whether the beer is on the shelf.  Rows are never deleted.   *)
(*                                                                         *)
(* Writing handlers hold the script lock; they write the row first and     *)
(* bump the revision after it.  handleSync_ takes no lock and reads the    *)
(* revision first and the rows after it.  Those two orders are what the    *)
(* split into steps is for.                                                *)
(***************************************************************************)
EXTENDS Naturals, Sequences, FiniteSets

CONSTANTS
    Beer,
    Price,
    MaxActive       \* LIMITS.maxActiveProducts = settings::max_active_products

ASSUME MaxActiveAssumption == MaxActive \in Nat \ {0}

VARIABLES
    sheet,          \* the rows of Products, top to bottom
    writer,         \* who has written and not bumped yet, holding the lock:
                    \* "none", "ours" (the request the task waits for), "other"
    unbumped,       \* since the last bump a handler has died before its own
    late            \* changes the terminal has given up waiting for, that have
                    \* not been executed but still may be

productsVars == <<sheet, writer, unbumped, late>>

Product == [beer : Beer, price : Price, active : BOOLEAN]

----------------------------------------------------------------------------
\* The positions that hold beer b.
RowsOf(list, b) == {i \in DOMAIN list : list[i].beer = b}

\* findProductRow_: the first of them.
FindProductRow(b) == CHOOSE i \in RowsOf(sheet, b) : \A j \in RowsOf(sheet, b) : i <= j

Known(b) == RowsOf(sheet, b) # {}

ActiveRows(list) == {i \in DOMAIN list : list[i].active}

\* assertRoomForActive_
RoomForActive(b) ==
    \/ \E i \in ActiveRows(sheet) : sheet[i].beer = b
    \/ Cardinality(ActiveRows(sheet)) < MaxActive

\* Mutant: appends without looking for the row a first attempt has made.
UpsertProductAppending(b, p) ==
    /\ RoomForActive(b)
    /\ sheet' = Append(sheet, [beer |-> b, price |-> p, active |-> TRUE])

\* upsertProduct_: a known beer is overwritten and put on the shelf, and only
\* an unknown one has to find room there.
UpsertProduct(b, p) ==
    LET product == [beer |-> b, price |-> p, active |-> TRUE]
    IN  \/ /\ Known(b)
           /\ sheet' = [sheet EXCEPT ![FindProductRow(b)] = product]
        \/ /\ ~Known(b)
           /\ RoomForActive(b)
           /\ sheet' = Append(sheet, product)

\* setProductActive_
SetProductActive(b, on) ==
    /\ on => RoomForActive(b)
    /\ Known(b)
    /\ sheet' = [sheet EXCEPT ![FindProductRow(b)].active = on]

\* setProductPrice_
SetProductPrice(b, p) ==
    /\ Known(b)
    /\ sheet' = [sheet EXCEPT ![FindProductRow(b)].price = p]

----------------------------------------------------------------------------
(* A request, from the terminal's queue or from the management page. *)

Change ==
    [kind : {"archive", "restore"}, beer : Beer]
        \cup [kind : {"create", "price"}, beer : Beer, price : Price]

ProductsTypeOK ==
    /\ sheet \in Seq(Product)
    /\ writer \in {"none", "ours", "other"}
    /\ unbumped \in BOOLEAN
    /\ late \subseteq Change

\* The handler accepts the change and writes its row.
Writes(c) ==
    \/ c.kind = "create" /\ UpsertProduct(c.beer, c.price)
    \/ c.kind = "price" /\ SetProductPrice(c.beer, c.price)
    \/ c.kind = "archive" /\ SetProductActive(c.beer, FALSE)
    \/ c.kind = "restore" /\ SetProductActive(c.beer, TRUE)

\* The handler throws: the shelf is full or the beer is unknown.
Refuses(c) ==
    \/ c.kind = "create" /\ ~Known(c.beer) /\ ~RoomForActive(c.beer)
    \/ c.kind = "restore" /\ ~RoomForActive(c.beer)
    \/ c.kind # "create" /\ ~Known(c.beer)

\* The rows as handleSync_ sends them: what does not fit on the grid is
\* presented as archived.
Served(list) ==
    [i \in DOMAIN list |->
        [list[i] EXCEPT !.active = @ /\ Cardinality({j \in 1 .. i : list[j].active}) <= MaxActive]]

=============================================================================
