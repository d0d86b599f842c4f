--------------------------- MODULE ResidentsSheet ---------------------------
(***************************************************************************)
(* The household at the backend: the Residents sheet, which is edited by   *)
(* hand or by adminSaveResident() (Admin.gs, which no page calls yet), the *)
(* revision (Config.gs), and what the handlers read from the Residents and *)
(* Purchases sheets (Api.gs, Data.gs).  A row of Purchases is its          *)
(* transaction, its person, who need not be in Residents any more, and its *)
(* product; voids are in PurchaseSheet.                                    *)
(***************************************************************************)
EXTENDS Naturals, Sequences, FiniteSetsExt

CONSTANTS
    Person,         \* resident ids that may be typed in
    Former,         \* ids that are only in Purchases any more
    Beer,
    BeerOf,         \* the beer of each transaction that may be booked
    MaxResidents,   \* LIMITS.maxResidents, the same as the terminal's
    MaxBreakdown,   \* the products that an overview has room for
    MaxEdits        \* bound on the edits of the Residents and Products sheets

ASSUME LimitsAssumption == MaxResidents \in Nat \ {0} /\ MaxBreakdown \in Nat \ {0}

ASSUME BeersAssumption == IsFiniteSet(Beer) /\ BeerOf \in [DOMAIN BeerOf -> Beer]

VARIABLES
    listed,     \* the rows of Residents: a person, and whether he is active
    revision,   \* the REVISION property
    saving,     \* adminSaveResident() has written its row and not bumped yet
    unbumped,   \* the sheet was edited by hand after the last bump, or by an
                \* execution that ended before its own
    edits,      \* the edits so far
    rows        \* the rows of Purchases

householdVars == <<listed, revision, saving, unbumped, edits, rows>>

NoOne == "nobody"

IsActive(p) == \E i \in DOMAIN listed : listed[i] = [who |-> p, active |-> TRUE]

ActiveRows(rs) == SelectSeq(rs, LAMBDA r : r.active)

\* readResidents_(), cut to what the terminal can hold.
ServedOf(rs) ==
    LET active == ActiveRows(rs)
        n == IF Len(active) < MaxResidents THEN Len(active) ELSE MaxResidents
    IN  [i \in 1 .. n |-> active[i].who]

Served == ServedOf(listed)

----------------------------------------------------------------------------
(* Edits: adminSaveResident(), under the script lock, and others *)

NextEdit == edits < MaxEdits /\ edits' = edits + 1

\* The row of a person who is listed is written as it was typed in.
Rewrite ==
    \E i \in DOMAIN listed : listed' = [listed EXCEPT ![i].active = ~@]

AppendResident ==
    \E p \in Person :
        /\ \A i \in DOMAIN listed : listed[i].who # p
        /\ Len(ActiveRows(listed)) < MaxResidents
        /\ \E a \in BOOLEAN : listed' = Append(listed, [who |-> p, active |-> a])

SaveResident ==
    /\ ~saving
    /\ NextEdit
    /\ Rewrite \/ AppendResident
    /\ saving' = TRUE
    /\ UNCHANGED <<revision, unbumped, rows>>

\* Mutant: the revision stays.
SavedUnbumped ==
    saving /\ saving' = FALSE /\ UNCHANGED <<listed, revision, unbumped, edits, rows>>

BumpRevision ==
    /\ saving
    /\ saving' = FALSE
    /\ revision' = revision + 1
    /\ unbumped' = FALSE
    /\ UNCHANGED <<listed, edits, rows>>

\* The execution ends between its row and its bump: an exception, or the time
\* limit of the host.
SaveDies ==
    /\ saving
    /\ saving' = FALSE
    /\ unbumped' = TRUE
    /\ UNCHANGED <<listed, revision, edits, rows>>

\* A product is edited, which bumps the same revision.
ProductSaved ==
    /\ ~saving
    /\ NextEdit
    /\ revision' = revision + 1
    /\ unbumped' = FALSE
    /\ UNCHANGED <<listed, saving, rows>>

\* Somebody edits the sheet itself, as the documents say.
EditByHand ==
    /\ NextEdit
    /\ Rewrite \/ AppendResident
    /\ unbumped' = TRUE
    /\ UNCHANGED <<revision, saving, rows>>

----------------------------------------------------------------------------
(* What the handlers answer *)

RowOf(t, p) == [tx |-> t, who |-> p, beer |-> BeerOf[t]]

\* Mutant: the id is not looked up in the sheet.
RecordTwice(t, p, known) ==
    IF ~known THEN [verdict |-> "refused", rows |-> rows]
    ELSE [verdict |-> "ok", rows |-> Append(rows, RowOf(t, p))]

\* handleRecordPurchase_() with the lock: known is what findResident_() said of
\* the person before the lock was taken and the transaction looked up.
RecordPurchase(t, p, known) ==
    IF ~known THEN [verdict |-> "refused", rows |-> rows]
    ELSE IF \E i \in DOMAIN rows : rows[i].tx = t THEN [verdict |-> "ok", rows |-> rows]
    ELSE [verdict |-> "ok", rows |-> Append(rows, RowOf(t, p))]

\* residentBreakdown_(), added up: the products with the most drinks, as many as
\* there is room for.
DrinksOf(rs, p, beers) == Cardinality({i \in DOMAIN rs : rs[i].who = p /\ rs[i].beer \in beers})

Breakdowns == {beers \in SUBSET Beer : Cardinality(beers) <= MaxBreakdown}

Drinks(p) == Max({DrinksOf(rows, p, beers) : beers \in Breakdowns})

\* consumptionSummary_(): the first people in the sheet, as many as the terminal
\* can show; the drinks of everybody else are missing.
ChargedBefore(p) ==
    {rows[i].who : i \in {j \in DOMAIN rows : \A k \in 1 .. j : rows[k].who # p}}

ConsumptionSummary ==
    [p \in Person \cup Former |->
        IF Cardinality(ChargedBefore(p)) < MaxResidents THEN DrinksOf(rows, p, Beer) ELSE 0]

=============================================================================
