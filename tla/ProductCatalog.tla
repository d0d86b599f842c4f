--------------------------- MODULE ProductCatalog ---------------------------
(***************************************************************************)
(* The terminal's catalog (product_catalog.cpp): a list of products that   *)
(* the screens address by position, its revision, and /catalog.bin.  The   *)
(* list is the terminal's own copy: edits change it at once and a sync     *)
(* replaces it.                                                            *)
(*                                                                         *)
(* A revision is only ever compared for equality with the backend's, so    *)
(* what is kept of it is whether it equals the backend's; every bump makes *)
(* all copies unequal.                                                     *)
(***************************************************************************)
EXTENDS ProductsSheet

CONSTANTS
    Coded,          \* the beers with a barcode; the others were added at a fridge
    MaxProducts     \* settings::max_products

ASSUME CodedAssumption == Coded \subseteq Beer
ASSUME MaxProductsAssumption == MaxProducts \in Nat

VARIABLES
    items,          \* g_items
    current,        \* g_revision is the backend's revision
    unsaved,        \* g_dirty
    saved           \* /catalog.bin: its items and whether its revision is current

catalogVars == <<items, current, unsaved, saved>>

CatalogTypeOK ==
    /\ items \in Seq(Product) /\ Len(items) <= MaxProducts
    /\ current \in BOOLEAN
    /\ unsaved \in BOOLEAN
    /\ saved \in [items : Seq(Product), current : BOOLEAN]

----------------------------------------------------------------------------
\* Mutant: one tile more than the grid has places for.
CanRestoreOneMore == Cardinality(ActiveRows(items)) <= MaxActive

\* can_restore()
CanRestore == Cardinality(ActiveRows(items)) < MaxActive

\* An edit of the list in memory; flush() writes it at the end of the loop.
Edit(list) == items' = list /\ unsaved' = TRUE /\ UNCHANGED <<current, saved>>

\* archive(), which refuses what is archived already.
Archive(i) ==
    IF items[i].active THEN Edit([items EXCEPT ![i].active = FALSE])
                       ELSE UNCHANGED catalogVars

\* restore()
Restore(i) ==
    /\ ~items[i].active
    /\ CanRestore
    /\ Edit([items EXCEPT ![i].active = TRUE])

\* set_price()
SetPrice(i, p) == Edit([items EXCEPT ![i].price = p])

\* Mutant: the array's end is not looked at.
HasPlaceAlways == CanRestore

HasPlace == CanRestore /\ Len(items) < MaxProducts

\* add_product(): without a barcode, at the end of the list.
AddProduct(b, p) ==
    /\ HasPlace
    /\ Edit(Append(items, [beer |-> b, price |-> p, active |-> TRUE]))

\* The n-th smallest of a set of positions.
Nth(positions, n) ==
    CHOOSE i \in positions : Cardinality({j \in positions : j <= i}) = n

\* replace_all(): the synced list, then the products without a barcode that it
\* does not know, in their order and as far as there is room.  The list itself
\* is not too long: apply_sync() has seen to that.
ReplaceAll(list, isCurrent) ==
    LET local == {i \in DOMAIN items :
                    items[i].beer \notin Coded /\ RowsOf(list, items[i].beer) = {}}
        all == Len(list) + Cardinality(local)
    IN  /\ items' = [n \in 1 .. (IF all < MaxProducts THEN all ELSE MaxProducts) |->
                        IF n <= Len(list) THEN list[n] ELSE items[Nth(local, n - Len(list))]]
        /\ current' = isCurrent
        /\ unsaved' = TRUE
        /\ UNCHANGED saved

\* flush()
FlushCatalog ==
    /\ IF unsaved THEN saved' = [items |-> items, current |-> current] ELSE UNCHANGED saved
    /\ unsaved' = FALSE
    /\ UNCHANGED <<items, current>>

\* begin() after a restart.
LoadCatalog ==
    /\ items' = saved.items
    /\ current' = saved.current
    /\ unsaved' = FALSE
    /\ UNCHANGED saved

=============================================================================
