--------------------------- MODULE CatalogProofs ---------------------------
(***************************************************************************)
(* For every set of beers, size of array, shelf and queue:                 *)
(*                                                                         *)
(* No beer gets a second row in the sheet.  A terminal at the backend's    *)
(* revision has the backend's beers.  The active beers fit the grid.  What *)
(* the household said last about a beer stays on its screen, or is about   *)
(* to be set right there after a power cut.                                *)
(*                                                                         *)
(* The argument names the beers for which a copy of the catalog may differ *)
(* from the sheet: those whose change is still queued, and those whose     *)
(* change was lost (astray).  Of all others a copy that is at the          *)
(* backend's revision agrees with the sheet.  This holds for the list in   *)
(* memory, for the list on flash together with the queue on flash, and for *)
(* a list on its way; it survives a cut between the two files because the  *)
(* queue is flushed whenever it grows, and an answer, because what was     *)
(* written bumped the revision and so put every older copy out of date.    *)
(*                                                                         *)
(* What was said is followed first through the queue and the sheet         *)
(* (WishInv): the sheet has it, or the queue still says it.  What the      *)
(* screen and the list on flash show of it comes after (ScreenInv): where  *)
(* one of them is not as said, the change is queued or has outdated it.    *)
(***************************************************************************)
EXTENDS CatalogSync, FiniteSetTheorems, SequenceTheorems, WellFoundedInduction, TLAPS

----------------------------------------------------------------------------
(* Positions and how many there are *)

\* Every non-empty set of natural numbers has a least element.
LEMMA LeastElement ==
    ASSUME NEW T \in SUBSET Nat, T # {}
    PROVE  \E x \in T : \A y \in T : x <= y
<1> DEFINE R == OpToRel(<, Nat)
<1>1. IsWellFoundedOn(R, Nat)
  BY NatLessThanWellFounded
<1>2. \A x, y \in Nat : (<<y, x>> \in R) <=> y < x
  BY SMT DEF OpToRel
<1> HIDE DEF R
<1>3. PICK x \in T : \A y \in T : ~(<<y, x>> \in R)
  BY <1>1, WFMin
<1>4. \A y \in T : x \in Nat /\ y \in Nat /\ ~(y < x)
  BY <1>2, <1>3
<1> QED BY <1>3, <1>4

LEMMA ListShape ==
    ASSUME NEW S, NEW q \in Seq(S)
    PROVE  /\ Len(q) \in Nat /\ DOMAIN q = 1 .. Len(q)
           /\ \A i \in DOMAIN q : q[i] \in S
           /\ IsFiniteSet(DOMAIN q) /\ Cardinality(DOMAIN q) = Len(q)
<1>1. Len(q) \in Nat /\ DOMAIN q = 1 .. Len(q) /\ \A i \in DOMAIN q : q[i] \in S
  BY LenProperties, ElementOfSeq
<1>2. IsFiniteSet(1 .. Len(q)) /\ Cardinality(1 .. Len(q)) = Len(q)
  BY <1>1, FS_Interval
<1> QED BY <1>1, <1>2

\* Whatever is written position by position is a list.
LEMMA ListOf ==
    ASSUME NEW S, NEW n \in Nat, NEW f \in [1 .. n -> S]
    PROVE  f \in Seq(S) /\ Len(f) = n
<1>1. f \in Seq(S)
  BY SeqDef
<1> QED BY <1>1, LenProperties

\* How many of a set of positions there are up to one of them.
Rank(P, i) == Cardinality({j \in P : j <= i})

\* Counting tells positions apart.
LEMMA RankTells ==
    ASSUME NEW m \in Nat, NEW P \in SUBSET (1 .. m)
    PROVE  /\ IsFiniteSet(P) /\ Cardinality(P) \in Nat
           /\ \A i \in P : Rank(P, i) \in 1 .. Cardinality(P)
           /\ \A i, j \in P : i # j => Rank(P, i) # Rank(P, j)
<1> DEFINE UpTo(i) == {j \in P : j <= i}
<1>1. IsFiniteSet(P) /\ Cardinality(P) \in Nat
  <2>1. IsFiniteSet(1 .. m)
    BY FS_Interval
  <2> QED BY <2>1, FS_Subset, FS_CardinalityType
<1>2. \A i \in P : IsFiniteSet(UpTo(i)) /\ Cardinality(UpTo(i)) \in 1 .. Cardinality(P)
  <2> TAKE i \in P
  <2>1. UpTo(i) \in SUBSET P /\ i \in UpTo(i)
    OBVIOUS
  <2> HIDE DEF UpTo
  <2>2. /\ IsFiniteSet(UpTo(i)) /\ Cardinality(UpTo(i)) <= Cardinality(P)
        /\ Cardinality(UpTo(i)) \in Nat /\ Cardinality(UpTo(i)) # 0
    BY <1>1, <2>1, FS_Subset, FS_CardinalityType, FS_EmptySet
  <2> QED BY <1>1, <2>2
<1>3. \A i, j \in P : i < j => Cardinality(UpTo(i)) # Cardinality(UpTo(j))
  <2> SUFFICES ASSUME NEW i \in P, NEW j \in P, i < j
               PROVE  Cardinality(UpTo(i)) # Cardinality(UpTo(j))
    OBVIOUS
  <2>1. i \in Nat /\ j \in Nat /\ \A k \in P : k \in Nat
    OBVIOUS
  <2>2. j \in UpTo(j) /\ j \notin UpTo(i)
    BY <2>1
  <2>3. UpTo(i) \in SUBSET UpTo(j)
    <3>1. ASSUME NEW k \in UpTo(i) PROVE k \in UpTo(j)
      BY <2>1
    <3> QED BY <3>1
  <2> HIDE DEF UpTo
  <2> QED BY <1>2, <2>2, <2>3, FS_Subset
<1>4. \A i, j \in P : i # j => i < j \/ j < i
  OBVIOUS
<1> HIDE DEF UpTo
<1>5. \A i : Rank(P, i) = Cardinality(UpTo(i))
  BY DEF Rank, UpTo
<1> QED BY <1>1, <1>2, <1>3, <1>4, <1>5

\* So there is an n-th position for every n up to their number.
LEMMA NthIsThere ==
    ASSUME NEW m \in Nat, NEW P \in SUBSET (1 .. m), NEW n \in 1 .. Cardinality(P)
    PROVE  Nth(P, n) \in P
<1> DEFINE rank == [i \in P |-> Rank(P, i)]
           places == 1 .. Cardinality(P)
<1>1. IsFiniteSet(P) /\ Cardinality(P) \in Nat
  BY RankTells
<1>2. SUFFICES ASSUME \A i \in P : Rank(P, i) # n PROVE FALSE
  BY DEF Nth, Rank
<1>3. rank \in [P -> places \ {n}]
  BY <1>2, RankTells
<1>4. n \in places /\ IsFiniteSet(places) /\ Cardinality(places) = Cardinality(P)
  BY <1>1, FS_Interval
<1>5. \A i, j \in P : i # j => rank[i] # rank[j]
  BY RankTells
<1> HIDE DEF rank, places
<1>6. IsFiniteSet(places \ {n}) /\ Cardinality(places \ {n}) < Cardinality(P)
  <2>1. Cardinality(places \ {n}) = Cardinality(places) - 1 /\ IsFiniteSet(places \ {n})
    BY <1>4, FS_RemoveElement
  <2> QED BY <1>1, <1>4, <2>1
<1>7. \E i, j \in P : i # j /\ rank[i] = rank[j]
  BY <1>1, <1>3, <1>6, FS_PigeonHole
<1> QED BY <1>5, <1>7

LEMMA PoppedProperties ==
    ASSUME NEW S, NEW q \in Seq(S), q # <<>>
    PROVE  /\ Popped(q) \in Seq(S)
           /\ Len(Popped(q)) = Len(q) - 1
           /\ \A j \in DOMAIN Popped(q) : j + 1 \in DOMAIN q /\ Popped(q)[j] = q[j + 1]
           /\ \A j \in DOMAIN q : j = 1 \/ (j - 1 \in DOMAIN Popped(q) /\ q[j] = Popped(q)[j - 1])
<1>1. Len(q) \in Nat /\ Len(q) > 0 /\ DOMAIN q = 1 .. Len(q) /\ \A i \in DOMAIN q : q[i] \in S
  BY ListShape, EmptySeq
<1> DEFINE w == [j \in 1 .. (Len(q) - 1) |-> IF j < 1 THEN q[j] ELSE q[j + 1]]
<1>2. w \in [1 .. (Len(q) - 1) -> S] /\ Len(q) - 1 \in Nat
  BY <1>1
<1>3. w \in Seq(S) /\ Len(w) = Len(q) - 1
  <2> HIDE DEF w
  <2> QED BY <1>2, ListOf
<1>4. Popped(q) = w
  BY DEF Popped, Without
<1> QED BY <1>1, <1>3, <1>4

LEMMA AppendShape ==
    ASSUME NEW S, NEW q \in Seq(S), NEW e \in S
    PROVE  /\ Append(q, e) \in Seq(S) /\ Len(Append(q, e)) = Len(q) + 1
           /\ Append(q, e) # <<>>
           /\ DOMAIN Append(q, e) = DOMAIN q \cup {Len(q) + 1} /\ Len(q) + 1 \notin DOMAIN q
           /\ \A i \in DOMAIN q : Append(q, e)[i] = q[i]
           /\ Append(q, e)[Len(q) + 1] = e
  BY ListShape, AppendProperties

----------------------------------------------------------------------------
(* Lists of products *)

\* The grid has a place for every active product of the list.
Fits(list) == Cardinality(ActiveRows(list)) <= MaxActive

SameRows(list, other, b) ==
    /\ RowsOf(list, b) = RowsOf(other, b)
    /\ \A i \in RowsOf(list, b) : list[i] = other[i]

LEMMA ActiveShape ==
    ASSUME NEW list \in Seq(Product)
    PROVE  /\ ActiveRows(list) \in SUBSET (1 .. Len(list)) /\ Len(list) \in Nat
           /\ IsFiniteSet(ActiveRows(list)) /\ Cardinality(ActiveRows(list)) \in Nat
<1>1. ActiveRows(list) \in SUBSET (1 .. Len(list)) /\ Len(list) \in Nat
  BY ListShape DEF ActiveRows
<1> HIDE DEF ActiveRows
<1> QED BY <1>1, RankTells

\* A product is its beer, its price and whether it is on the shelf.
LEMMA ProductEqual ==
    ASSUME NEW p \in Product, NEW r \in Product,
           p.beer = r.beer, p.price = r.price, p.active = r.active
    PROVE  p = r
  BY DEF Product

\* What handleSync_() sends has the rows of the sheet, no more of them active
\* than the grid has places, and is the sheet itself when that fits.
LEMMA ServedShape ==
    ASSUME NEW list \in Seq(Product)
    PROVE  /\ Served(list) \in Seq(Product) /\ DOMAIN Served(list) = DOMAIN list
           /\ \A i \in DOMAIN list : Served(list)[i].beer = list[i].beer
           /\ Fits(Served(list))
           /\ Fits(list) => Served(list) = list
<1> DEFINE shown(i) == Rank(ActiveRows(list), i) <= MaxActive
           row(i) == [list[i] EXCEPT !.active = @ /\ shown(i)]
<1>1. Len(list) \in Nat /\ DOMAIN list = 1 .. Len(list) /\ \A i \in DOMAIN list : list[i] \in Product
  BY ListShape
<1>2. \A i \in DOMAIN list : {j \in 1 .. i : list[j].active} = {j \in ActiveRows(list) : j <= i}
  BY <1>1 DEF ActiveRows
<1>3. Served(list) = [i \in DOMAIN list |-> row(i)]
  BY <1>2 DEF Served, Rank
<1> HIDE DEF shown
<1>4. \A i \in DOMAIN list :
        /\ row(i) \in Product /\ row(i).beer = list[i].beer /\ row(i).price = list[i].price
        /\ row(i).active = (list[i].active /\ shown(i))
        /\ shown(i) => row(i) = list[i]
  BY <1>1, Zenon DEF Product
<1> HIDE DEF row
<1>5. Served(list) \in Seq(Product) /\ DOMAIN Served(list) = DOMAIN list
  BY <1>1, <1>3, <1>4, ListOf
<1>6. Fits(Served(list))
  <2> DEFINE A == ActiveRows(Served(list))
             rank == [i \in A |-> Rank(ActiveRows(list), i)]
  <2>1. A \in SUBSET ActiveRows(list) /\ \A i \in A : shown(i)
    BY <1>3, <1>4 DEF ActiveRows
  <2>2. /\ \A i \in ActiveRows(list) : Rank(ActiveRows(list), i) \in Nat \ {0}
        /\ \A i, j \in ActiveRows(list) :
             i # j => Rank(ActiveRows(list), i) # Rank(ActiveRows(list), j)
    <3>1. ActiveRows(list) \in SUBSET (1 .. Len(list)) /\ Len(list) \in Nat
      BY ActiveShape
    <3>2. /\ Cardinality(ActiveRows(list)) \in Nat
          /\ \A i \in ActiveRows(list) :
               Rank(ActiveRows(list), i) \in 1 .. Cardinality(ActiveRows(list))
          /\ \A i, j \in ActiveRows(list) :
               i # j => Rank(ActiveRows(list), i) # Rank(ActiveRows(list), j)
      BY <3>1, RankTells, Zenon
    <3>3. \A i \in ActiveRows(list) : Rank(ActiveRows(list), i) \in Nat \ {0}
      BY <3>2
    <3> QED BY <3>2, <3>3, Zenon
  <2>3. \A i \in A : Rank(ActiveRows(list), i) \in 1 .. MaxActive
    BY <2>1, <2>2, MaxActiveAssumption DEF shown
  <2>4. rank \in Injection(A, 1 .. MaxActive)
    <3>1. rank \in [A -> 1 .. MaxActive]
      BY <2>3
    <3>2. \A i, j \in A : rank[i] = rank[j] => i = j
      BY <2>1, <2>2
    <3> HIDE DEF rank
    <3> QED BY <3>1, <3>2 DEF Injection, IsInjective
  <2> HIDE DEF rank
  <2>5. IsFiniteSet(1 .. MaxActive) /\ Cardinality(1 .. MaxActive) = MaxActive
    BY FS_Interval, MaxActiveAssumption
  <2>6. Cardinality(A) <= MaxActive
    BY <2>4, <2>5, FS_Injection
  <2> QED BY <2>6 DEF Fits
<1>7. ASSUME Fits(list) PROVE Served(list) = list
  <2>1. \A i \in DOMAIN list : list[i].active => shown(i)
    <3> SUFFICES ASSUME NEW i \in DOMAIN list, list[i].active PROVE shown(i)
      OBVIOUS
    <3>1. i \in ActiveRows(list)
      BY DEF ActiveRows
    <3>2. Rank(ActiveRows(list), i) \in 1 .. Cardinality(ActiveRows(list))
      BY <3>1, ActiveShape, RankTells
    <3> QED BY <1>7, <3>2, ActiveShape, MaxActiveAssumption DEF Fits, shown
  <2>2. \A i \in DOMAIN list : row(i) = list[i]
    <3> SUFFICES ASSUME NEW i \in DOMAIN list PROVE row(i) = list[i]
      OBVIOUS
    <3>1. CASE shown(i)
      BY <1>4, <3>1
    <3>2. CASE ~shown(i)
      <4>1. ~list[i].active /\ ~row(i).active
        BY <1>4, <2>1, <3>2
      <4>2. list[i].active \in BOOLEAN /\ row(i).active \in BOOLEAN
        BY <1>1, <1>4 DEF Product
      <4>3. row(i).active = list[i].active
        BY <4>1, <4>2, Zenon
      <4> QED BY <1>1, <1>4, <4>3, ProductEqual
    <3> QED BY <3>1, <3>2
  <2>3. list = [i \in DOMAIN list |-> list[i]]
    BY <1>1
  <2> QED BY <1>3, <2>2, <2>3
<1> QED BY <1>3, <1>4, <1>5, <1>6, <1>7

LEMMA ServedRows ==
    ASSUME NEW list \in Seq(Product)
    PROVE  \A b : RowsOf(Served(list), b) = RowsOf(list, b)
  BY ServedShape DEF RowsOf

\* replace_all() puts the synced list first and keeps nothing behind it but
\* products of its own, without a barcode, that the list does not know.
LEMMA Replaced ==
    ASSUME items \in Seq(Product), NEW list \in Seq(Product), Len(list) <= MaxProducts,
           NEW c, ReplaceAll(list, c)
    PROVE  /\ items' \in Seq(Product) /\ Len(items') <= MaxProducts
           /\ \A i \in DOMAIN list : i \in DOMAIN items' /\ items'[i] = list[i]
           /\ \A i \in DOMAIN items' :
                \/ i \in DOMAIN list
                \/ \E k \in DOMAIN items : /\ items'[i] = items[k] /\ items[k].beer \notin Coded
                                           /\ RowsOf(list, items[k].beer) = {}
           /\ (\A k \in DOMAIN items : \/ items[k].beer \in Coded
                                       \/ RowsOf(list, items[k].beer) # {}) => items' = list
<1> DEFINE local == {i \in DOMAIN items :
                       items[i].beer \notin Coded /\ RowsOf(list, items[i].beer) = {}}
           all == Len(list) + Cardinality(local)
           size == IF all < MaxProducts THEN all ELSE MaxProducts
           row(n) == IF n <= Len(list) THEN list[n] ELSE items[Nth(local, n - Len(list))]
<1>1. /\ Len(list) \in Nat /\ DOMAIN list = 1 .. Len(list) /\ \A i \in DOMAIN list : list[i] \in Product
      /\ Len(items) \in Nat /\ DOMAIN items = 1 .. Len(items)
      /\ \A i \in DOMAIN items : items[i] \in Product
  BY ListShape
<1>2. local \in SUBSET (1 .. Len(items))
  BY <1>1
<1>3. items' = [n \in 1 .. size |-> row(n)]
  BY DEF ReplaceAll
<1>4. \A k \in local : /\ k \in DOMAIN items /\ items[k].beer \notin Coded
                       /\ RowsOf(list, items[k].beer) = {}
  OBVIOUS
<1>5. (\A k \in DOMAIN items : items[k].beer \in Coded \/ RowsOf(list, items[k].beer) # {})
        => local = {}
  OBVIOUS
<1> HIDE DEF local
<1>6. Cardinality(local) \in Nat
  BY <1>1, <1>2, RankTells
<1>7. size \in Nat /\ Len(list) <= size /\ size <= MaxProducts /\ size <= all
  BY <1>1, <1>6, MaxProductsAssumption
<1>8. ASSUME NEW n \in 1 .. size, ~(n <= Len(list))
      PROVE  Nth(local, n - Len(list)) \in local
  <2>1. n - Len(list) \in 1 .. Cardinality(local)
    BY <1>1, <1>6, <1>7, <1>8
  <2> QED BY <1>1, <1>2, <2>1, NthIsThere
<1> HIDE DEF size
<1>9. \A n \in 1 .. size : row(n) \in Product
  BY <1>1, <1>4, <1>8
<1>10. items' \in Seq(Product) /\ Len(items') = size /\ DOMAIN items' = 1 .. size
  BY <1>3, <1>7, <1>9, ListOf
<1>11. \A i \in DOMAIN list : i \in DOMAIN items' /\ items'[i] = list[i]
  BY <1>1, <1>3, <1>7, <1>10
<1>12. \A i \in DOMAIN items' :
         \/ i \in DOMAIN list
         \/ \E k \in DOMAIN items : /\ items'[i] = items[k] /\ items[k].beer \notin Coded
                                    /\ RowsOf(list, items[k].beer) = {}
  <2> SUFFICES ASSUME NEW i \in DOMAIN items', i \notin DOMAIN list
               PROVE  \E k \in DOMAIN items : /\ items'[i] = items[k] /\ items[k].beer \notin Coded
                                              /\ RowsOf(list, items[k].beer) = {}
    OBVIOUS
  <2>1. i \in 1 .. size /\ ~(i <= Len(list))
    BY <1>1, <1>10
  <2>2. items'[i] = items[Nth(local, i - Len(list))] /\ Nth(local, i - Len(list)) \in local
    BY <1>3, <1>8, <2>1
  <2> QED BY <1>4, <2>2
<1>13. ASSUME local = {} PROVE items' = list
  <2>1. Cardinality(local) = 0
    BY <1>13, FS_EmptySet
  <2>2. size = Len(list)
    BY <1>1, <1>7, <2>1 DEF size
  <2>3. list = [i \in 1 .. Len(list) |-> list[i]]
    BY <1>1
  <2>4. \A n \in 1 .. size : row(n) = list[n]
    BY <1>1, <2>2
  <2> QED BY <1>3, <2>2, <2>3, <2>4
<1> QED BY <1>5, <1>7, <1>10, <1>11, <1>12, <1>13

\* What becomes of the rows of a beer that the synced list knows.
LEMMA ReplacedRows ==
    ASSUME items \in Seq(Product), NEW list \in Seq(Product), Len(list) <= MaxProducts,
           NEW c, ReplaceAll(list, c), NEW b, RowsOf(list, b) # {}
    PROVE  SameRows(items', list, b)
<1>1. /\ \A i \in DOMAIN list : i \in DOMAIN items' /\ items'[i] = list[i]
      /\ \A i \in DOMAIN items' :
           \/ i \in DOMAIN list
           \/ \E k \in DOMAIN items : /\ items'[i] = items[k]
                                      /\ RowsOf(list, items[k].beer) = {}
  BY Replaced
<1>2. \A i \in RowsOf(items', b) : i \in RowsOf(list, b)
  BY <1>1 DEF RowsOf
<1>3. \A i \in RowsOf(list, b) : i \in RowsOf(items', b) /\ items'[i] = list[i]
  BY <1>1 DEF RowsOf
<1> QED BY <1>2, <1>3 DEF SameRows

----------------------------------------------------------------------------
(* What a handler writes *)

LEMMA FoundRow ==
    ASSUME sheet \in Seq(Product), NEW b, Known(b)
    PROVE  FindProductRow(b) \in RowsOf(sheet, b)
<1>1. RowsOf(sheet, b) \in SUBSET Nat /\ RowsOf(sheet, b) # {}
  BY ListShape DEF RowsOf, Known
<1>2. \E i \in RowsOf(sheet, b) : \A j \in RowsOf(sheet, b) : i <= j
  BY <1>1, LeastElement
<1> QED BY <1>2 DEF FindProductRow

\* The row r is written for the change c, in the place of row k or at the end.
Overwrites(c, r, k) ==
    /\ k \in RowsOf(sheet, c.beer)
    /\ sheet' = [sheet EXCEPT ![k] = r]
    /\ c.kind = "price" => r.active = sheet[k].active

Appends(c, r) == ~Known(c.beer) /\ sheet' = Append(sheet, r)

RowFor(c, r) ==
    /\ r \in Product /\ r.beer = c.beer
    /\ c.kind = "archive" => ~r.active
    /\ c.kind \in {"create", "restore"} => r.active

LEMMA WritesARow ==
    ASSUME sheet \in Seq(Product), NEW c \in Change, Writes(c)
    PROVE  \E r : RowFor(c, r) /\ (Appends(c, r) \/ \E k : Overwrites(c, r, k))
<1> DEFINE k == FindProductRow(c.beer)
<1>1. c.beer \in Beer /\ (c.kind \in {"create", "price"} => c.price \in Price)
  BY DEF Change
<1>2. ASSUME Known(c.beer) PROVE k \in RowsOf(sheet, c.beer) /\ sheet[k] \in Product
                                 /\ sheet[k].beer = c.beer
  BY <1>2, FoundRow, ListShape DEF RowsOf
<1>3. CASE c.kind = "create" /\ UpsertProduct(c.beer, c.price)
  <2> DEFINE r == [beer |-> c.beer, price |-> c.price, active |-> TRUE]
  <2>1. RowFor(c, r)
    BY <1>1, <1>3 DEF RowFor, Product
  <2>2. \/ Known(c.beer) /\ sheet' = [sheet EXCEPT ![k] = r]
        \/ ~Known(c.beer) /\ sheet' = Append(sheet, r)
    BY <1>3 DEF UpsertProduct
  <2> HIDE DEF r, k
  <2> QED BY <1>2, <1>3, <2>1, <2>2 DEF Overwrites, Appends
<1>4. CASE c.kind = "price" /\ SetProductPrice(c.beer, c.price)
  <2> DEFINE r == [sheet[k] EXCEPT !.price = c.price]
  <2>1. Known(c.beer) /\ sheet' = [sheet EXCEPT ![k] = r]
    BY <1>4 DEF SetProductPrice
  <2>2. r \in Product /\ r.beer = c.beer /\ r.active = sheet[k].active
    BY <1>1, <1>2, <1>4, <2>1 DEF Product
  <2> HIDE DEF r, k
  <2> QED BY <1>2, <1>4, <2>1, <2>2 DEF Overwrites, RowFor
<1>5. ASSUME NEW on \in BOOLEAN, c.kind = IF on THEN "restore" ELSE "archive",
             SetProductActive(c.beer, on)
      PROVE  \E r : RowFor(c, r) /\ (Appends(c, r) \/ \E i : Overwrites(c, r, i))
  <2> DEFINE r == [sheet[k] EXCEPT !.active = on]
  <2>1. Known(c.beer) /\ sheet' = [sheet EXCEPT ![k] = r]
    BY <1>5 DEF SetProductActive
  <2>2. r \in Product /\ r.beer = c.beer /\ r.active = on
    BY <1>2, <2>1 DEF Product
  <2> HIDE DEF r, k
  <2>3. RowFor(c, r)
    BY <1>5, <2>2 DEF RowFor
  <2> QED BY <1>2, <1>5, <2>1, <2>3 DEF Overwrites
<1>6. \/ c.kind = "create" /\ UpsertProduct(c.beer, c.price)
      \/ c.kind = "price" /\ SetProductPrice(c.beer, c.price)
      \/ c.kind = "archive" /\ SetProductActive(c.beer, FALSE)
      \/ c.kind = "restore" /\ SetProductActive(c.beer, TRUE)
  BY DEF Writes
<1> HIDE DEF k
<1> QED BY <1>3, <1>4, <1>5, <1>6

\* The sheet keeps its rows and their beers, and gets to know the beer.
LEMMA SheetGrows ==
    ASSUME sheet \in Seq(Product), NEW c \in Change, Writes(c)
    PROVE  /\ sheet' \in Seq(Product)
           /\ Known(c.beer)' /\ \A b : Known(b) => Known(b)'
           /\ \A b : b # c.beer => SameRows(sheet', sheet, b)
<1>1. PICK r : RowFor(c, r) /\ (Appends(c, r) \/ \E k : Overwrites(c, r, k))
  BY WritesARow
<1>2. r \in Product /\ r.beer = c.beer
  BY <1>1 DEF RowFor
<1>3. CASE Appends(c, r)
  <2>1. /\ sheet' \in Seq(Product)
        /\ DOMAIN sheet' = DOMAIN sheet \cup {Len(sheet) + 1} /\ Len(sheet) + 1 \notin DOMAIN sheet
        /\ \A i \in DOMAIN sheet : sheet'[i] = sheet[i]
        /\ sheet'[Len(sheet) + 1] = r
    BY <1>2, <1>3, AppendShape DEF Appends
  <2> QED BY <1>2, <2>1 DEF Known, RowsOf, SameRows
<1>4. ASSUME NEW k, Overwrites(c, r, k)
      PROVE  /\ sheet' \in Seq(Product)
             /\ Known(c.beer)' /\ \A b : Known(b) => Known(b)'
             /\ \A b : b # c.beer => SameRows(sheet', sheet, b)
  <2>1. k \in DOMAIN sheet /\ sheet[k].beer = c.beer
    BY <1>4 DEF Overwrites, RowsOf
  <2>2. sheet' \in Seq(Product)
    BY <1>2, <1>4, <2>1 DEF Overwrites
  <2>3. DOMAIN sheet' = DOMAIN sheet /\ \A i \in DOMAIN sheet : sheet'[i] = IF i = k THEN r ELSE sheet[i]
    BY <1>4, <2>1 DEF Overwrites
  <2> QED BY <1>2, <2>1, <2>2, <2>3 DEF Known, RowsOf, SameRows
<1> QED BY <1>1, <1>3, <1>4

\* No two rows of a list are the same beer.
Distinct(list) == \A i, j \in DOMAIN list : list[i].beer = list[j].beer => i = j

LEMMA WritesKeepDistinct ==
    ASSUME sheet \in Seq(Product), Distinct(sheet), NEW c \in Change, Writes(c)
    PROVE  Distinct(sheet)'
<1>1. PICK r : RowFor(c, r) /\ (Appends(c, r) \/ \E k : Overwrites(c, r, k))
  BY WritesARow
<1>2. r \in Product /\ r.beer = c.beer
  BY <1>1 DEF RowFor
<1>3. CASE Appends(c, r)
  <2>1. /\ DOMAIN sheet' = DOMAIN sheet \cup {Len(sheet) + 1} /\ Len(sheet) + 1 \notin DOMAIN sheet
        /\ \A i \in DOMAIN sheet : sheet'[i] = sheet[i]
        /\ sheet'[Len(sheet) + 1] = r
    BY <1>2, <1>3, AppendShape DEF Appends
  <2>2. \A i \in DOMAIN sheet : sheet[i].beer # c.beer
    BY <1>3 DEF Appends, Known, RowsOf
  <2> QED BY <1>2, <2>1, <2>2 DEF Distinct
<1>4. ASSUME NEW k, Overwrites(c, r, k) PROVE Distinct(sheet)'
  <2>1. k \in DOMAIN sheet /\ sheet[k].beer = c.beer
    BY <1>4 DEF Overwrites, RowsOf
  <2>2. DOMAIN sheet' = DOMAIN sheet /\ \A i \in DOMAIN sheet : sheet'[i] = IF i = k THEN r ELSE sheet[i]
    BY <1>4, <2>1 DEF Overwrites
  <2> QED BY <1>2, <2>1, <2>2 DEF Distinct
<1> QED BY <1>1, <1>3, <1>4

----------------------------------------------------------------------------
(* What an edit at the fridge does *)

TypeInv ==
    /\ TypeOK
    /\ Len(file) <= MaxQueued /\ Len(saved.items) <= MaxProducts
    /\ op = "Change" => queue # <<>> /\ request = queue[1]

\* The list is edited for the change c.
EditOf(c) ==
    /\ c \in Change
    /\ items' \in Seq(Product) /\ Len(items') <= MaxProducts
    /\ UNCHANGED <<current, saved>>
    /\ unsaved' \in BOOLEAN /\ (unsaved' \/ UNCHANGED <<items, unsaved>>)
    /\ \A b : b # c.beer => SameRows(items', items, b)
    /\ Fits(items) => Fits(items)'
    /\ c.kind = "price" =>
          /\ RowsOf(items', c.beer) = RowsOf(items, c.beer)
          /\ \A i \in RowsOf(items, c.beer) : items'[i].active = items[i].active
    /\ c.kind # "price" =>
          \A i \in RowsOf(items', c.beer) :
             (\A j \in RowsOf(items', c.beer) : j = i) => Shows(items', i) = Says(c)

\* A list with no more active products than before, or with one more where there
\* was room, fits.
LEMMA StillFits ==
    ASSUME NEW l \in Seq(Product), NEW m \in Seq(Product), NEW k,
           \/ ActiveRows(m) \subseteq ActiveRows(l) /\ Fits(l)
           \/ /\ ActiveRows(m) \subseteq ActiveRows(l) \cup {k}
              /\ Cardinality(ActiveRows(l)) < MaxActive
    PROVE  Fits(m)
<1>1. IsFiniteSet(ActiveRows(l)) /\ Cardinality(ActiveRows(l)) \in Nat
      /\ IsFiniteSet(ActiveRows(m)) /\ Cardinality(ActiveRows(m)) \in Nat
  BY ActiveShape
<1>2. CASE ActiveRows(m) \subseteq ActiveRows(l) /\ Fits(l)
  BY <1>1, <1>2, FS_Subset, MaxActiveAssumption DEF Fits
<1>3. CASE ActiveRows(m) \subseteq ActiveRows(l) \cup {k} /\ Cardinality(ActiveRows(l)) < MaxActive
  <2>1. /\ IsFiniteSet(ActiveRows(l) \cup {k})
        /\ Cardinality(ActiveRows(l) \cup {k}) <= Cardinality(ActiveRows(l)) + 1
        /\ Cardinality(ActiveRows(l) \cup {k}) \in Nat
    <3>1. /\ IsFiniteSet(ActiveRows(l) \cup {k})
          /\ \/ Cardinality(ActiveRows(l) \cup {k}) = Cardinality(ActiveRows(l))
             \/ Cardinality(ActiveRows(l) \cup {k}) = Cardinality(ActiveRows(l)) + 1
      BY <1>1, FS_AddElement, Zenon
    <3> QED BY <1>1, <3>1
  <2>2. Cardinality(ActiveRows(m)) <= Cardinality(ActiveRows(l) \cup {k})
    BY <1>3, <2>1, FS_Subset
  <2> QED BY <1>1, <1>3, <2>1, <2>2, MaxActiveAssumption DEF Fits
<1> QED BY <1>2, <1>3

\* One product of the list is replaced by one of the same beer.
LEMMA ItemReplaced ==
    ASSUME TypeInv, NEW k \in DOMAIN items, NEW r \in Product, r.beer = items[k].beer,
           items' = [items EXCEPT ![k] = r]
    PROVE  /\ items' \in Seq(Product) /\ Len(items') <= MaxProducts
           /\ DOMAIN items' = DOMAIN items
           /\ \A i \in DOMAIN items : items'[i] = IF i = k THEN r ELSE items[i]
           /\ \A b : RowsOf(items', b) = RowsOf(items, b)
           /\ \A b : b # r.beer => SameRows(items', items, b)
<1>1. items \in Seq(Product) /\ Len(items) <= MaxProducts
  BY DEF TypeInv, TypeOK, CatalogTypeOK
<1>2. items' \in Seq(Product) /\ Len(items') = Len(items)
  BY <1>1
<1>3. DOMAIN items' = DOMAIN items /\ \A i \in DOMAIN items : items'[i] = IF i = k THEN r ELSE items[i]
  OBVIOUS
<1>4. \A b : RowsOf(items', b) = RowsOf(items, b)
  BY <1>3 DEF RowsOf
<1>5. \A b : b # r.beer => SameRows(items', items, b)
  BY <1>3, <1>4 DEF RowsOf, SameRows
<1> QED BY <1>1, <1>2, <1>3, <1>4, <1>5

LEMMA ArchiveEdits ==
    ASSUME TypeInv, NEW k \in DOMAIN items, Archive(k)
    PROVE  EditOf([kind |-> "archive", beer |-> items[k].beer])
<1> DEFINE c == [kind |-> "archive", beer |-> items[k].beer]
           r == [items[k] EXCEPT !.active = FALSE]
<1>1. items \in Seq(Product) /\ items[k] \in Product /\ unsaved \in BOOLEAN
      /\ Len(items) <= MaxProducts
  BY ListShape DEF TypeInv, TypeOK, CatalogTypeOK
<1>2. c \in Change /\ c.beer = items[k].beer /\ c.kind = "archive" /\ Says(c) = "off shelf"
  BY <1>1 DEF Change, Product, Says
<1>3. r \in Product /\ r.beer = items[k].beer /\ r.active = FALSE
  BY <1>1 DEF Product
<1>4. k \in RowsOf(items, items[k].beer)
  BY DEF RowsOf
<1> HIDE DEF c
<1>5. ASSUME ~items[k].active PROVE EditOf(c)
  <2>1. UNCHANGED <<items, current, unsaved, saved>>
    BY <1>5 DEF Archive, catalogVars
  <2>2. \A b : SameRows(items', items, b) /\ RowsOf(items', b) = RowsOf(items, b)
    BY <2>1 DEF SameRows, RowsOf
  <2>3. Shows(items', k) = "off shelf"
    BY <1>5, <2>1 DEF Shows
  <2>4. Fits(items) => Fits(items)'
    BY <2>1 DEF Fits
  <2>5. items' \in Seq(Product) /\ Len(items') <= MaxProducts /\ unsaved' \in BOOLEAN
    BY <1>1, <2>1, Zenon
  <2>6. \A i \in RowsOf(items', c.beer) :
           (\A j \in RowsOf(items', c.beer) : j = i) => Shows(items', i) = Says(c)
    <3>1. k \in RowsOf(items', c.beer)
      BY <1>2, <1>4, <2>2
    <3> QED BY <1>2, <2>3, <3>1
  <2> QED BY <1>2, <2>1, <2>2, <2>4, <2>5, <2>6, Zenon DEF EditOf
<1>6. ASSUME items[k].active PROVE EditOf(c)
  <2>1. items' = [items EXCEPT ![k] = r] /\ unsaved' = TRUE /\ UNCHANGED <<current, saved>>
    BY <1>6 DEF Archive, Edit
  <2> HIDE DEF r
  <2>2. /\ items' \in Seq(Product) /\ Len(items') <= MaxProducts
        /\ DOMAIN items' = DOMAIN items
        /\ \A i \in DOMAIN items : items'[i] = IF i = k THEN r ELSE items[i]
        /\ \A b : RowsOf(items', b) = RowsOf(items, b)
        /\ \A b : b # r.beer => SameRows(items', items, b)
    BY <1>3, <2>1, ItemReplaced
  <2>3. ActiveRows(items') \subseteq ActiveRows(items)
    BY <1>3, <2>2 DEF ActiveRows
  <2>4. Fits(items) => Fits(items)'
    BY <1>1, <2>2, <2>3, StillFits DEF Fits
  <2>5. Shows(items', k) = "off shelf"
    BY <1>3, <2>2 DEF Shows
  <2>6. \A i \in RowsOf(items', c.beer) :
           (\A j \in RowsOf(items', c.beer) : j = i) => Shows(items', i) = Says(c)
    <3>1. k \in RowsOf(items', c.beer)
      BY <1>2, <1>4, <2>2
    <3> QED BY <1>2, <2>5, <3>1
  <2> QED BY <1>2, <1>3, <2>1, <2>2, <2>4, <2>6 DEF EditOf
<1>7. EditOf(c)
  BY <1>5, <1>6
<1> QED BY <1>7 DEF c

LEMMA PriceEdits ==
    ASSUME TypeInv, NEW k \in DOMAIN items, NEW p \in Price, SetPrice(k, p)
    PROVE  EditOf([kind |-> "price", beer |-> items[k].beer, price |-> p])
<1> DEFINE c == [kind |-> "price", beer |-> items[k].beer, price |-> p]
           r == [items[k] EXCEPT !.price = p]
<1>1. items \in Seq(Product) /\ items[k] \in Product
  BY ListShape DEF TypeInv, TypeOK, CatalogTypeOK
<1>2. c \in Change /\ c.beer = items[k].beer /\ c.kind = "price"
  BY <1>1 DEF Change, Product
<1>3. r \in Product /\ r.beer = items[k].beer /\ r.active = items[k].active
  BY <1>1 DEF Product
<1>4. items' = [items EXCEPT ![k] = r] /\ unsaved' = TRUE /\ UNCHANGED <<current, saved>>
  BY DEF SetPrice, Edit
<1> HIDE DEF c, r
<1>5. /\ items' \in Seq(Product) /\ Len(items') <= MaxProducts
      /\ DOMAIN items' = DOMAIN items
      /\ \A i \in DOMAIN items : items'[i] = IF i = k THEN r ELSE items[i]
      /\ \A b : RowsOf(items', b) = RowsOf(items, b)
      /\ \A b : b # r.beer => SameRows(items', items, b)
  BY <1>3, <1>4, ItemReplaced
<1>6. ActiveRows(items') \subseteq ActiveRows(items)
  BY <1>3, <1>5 DEF ActiveRows
<1>7. Fits(items) => Fits(items)'
  BY <1>1, <1>5, <1>6, StillFits DEF Fits
<1>8. \A i \in DOMAIN items : items'[i].active = items[i].active
  BY <1>3, <1>5
<1>9. RowsOf(items, c.beer) \subseteq DOMAIN items
  BY DEF RowsOf
<1>10. EditOf(c)
  BY <1>2, <1>3, <1>4, <1>5, <1>7, <1>8, <1>9 DEF EditOf
<1> QED BY <1>10 DEF c

LEMMA RestoreEdits ==
    ASSUME TypeInv, NEW k \in DOMAIN items, Restore(k)
    PROVE  EditOf([kind |-> "restore", beer |-> items[k].beer])
<1> DEFINE c == [kind |-> "restore", beer |-> items[k].beer]
           r == [items[k] EXCEPT !.active = TRUE]
<1>1. items \in Seq(Product) /\ items[k] \in Product
  BY ListShape DEF TypeInv, TypeOK, CatalogTypeOK
<1>2. c \in Change /\ c.beer = items[k].beer /\ c.kind = "restore" /\ Says(c) = "on shelf"
  BY <1>1 DEF Change, Product, Says
<1>3. r \in Product /\ r.beer = items[k].beer /\ r.active = TRUE
  BY <1>1 DEF Product
<1>4. items' = [items EXCEPT ![k] = r] /\ unsaved' = TRUE /\ UNCHANGED <<current, saved>>
  BY DEF Restore, Edit
<1> HIDE DEF c, r
<1>5. /\ items' \in Seq(Product) /\ Len(items') <= MaxProducts
      /\ DOMAIN items' = DOMAIN items
      /\ \A i \in DOMAIN items : items'[i] = IF i = k THEN r ELSE items[i]
      /\ \A b : RowsOf(items', b) = RowsOf(items, b)
      /\ \A b : b # r.beer => SameRows(items', items, b)
  BY <1>3, <1>4, ItemReplaced
<1>6. ActiveRows(items') \subseteq ActiveRows(items) \cup {k}
  BY <1>3, <1>5 DEF ActiveRows
<1>7. Fits(items)'
  BY <1>1, <1>5, <1>6, StillFits DEF Fits, Restore, CanRestore
<1>8. Shows(items', k) = "on shelf"
  BY <1>3, <1>5 DEF Shows
<1>9. k \in RowsOf(items, items[k].beer)
  BY DEF RowsOf
<1>10. \A i \in RowsOf(items', c.beer) :
         (\A j \in RowsOf(items', c.beer) : j = i) => Shows(items', i) = Says(c)
  <2>1. k \in RowsOf(items', c.beer)
    BY <1>2, <1>5, <1>9
  <2> QED BY <1>2, <1>8, <2>1
<1>11. EditOf(c)
  BY <1>2, <1>3, <1>4, <1>5, <1>7, <1>10 DEF EditOf
<1> QED BY <1>11 DEF c

LEMMA NewProductEdits ==
    ASSUME TypeInv, NEW b \in Beer \ Coded, NEW p \in Price, AddProduct(b, p)
    PROVE  EditOf([kind |-> "create", beer |-> b, price |-> p])
<1> DEFINE c == [kind |-> "create", beer |-> b, price |-> p]
           r == [beer |-> b, price |-> p, active |-> TRUE]
           n == Len(items) + 1
<1>1. items \in Seq(Product)
  BY DEF TypeInv, TypeOK, CatalogTypeOK
<1>2. c \in Change /\ c.beer = b /\ c.kind = "create" /\ Says(c) = "on shelf"
  BY DEF Change, Says
<1>3. r \in Product /\ r.beer = b /\ r.active = TRUE
  BY DEF Product
<1>4. items' = Append(items, r) /\ unsaved' = TRUE /\ UNCHANGED <<current, saved>>
  BY DEF AddProduct, Edit
<1> HIDE DEF c, r
<1>5. /\ items' \in Seq(Product) /\ Len(items') = n
      /\ DOMAIN items' = DOMAIN items \cup {n} /\ n \notin DOMAIN items
      /\ \A i \in DOMAIN items : items'[i] = items[i]
      /\ items'[n] = r
  BY <1>1, <1>3, <1>4, AppendShape
<1>6. Len(items') <= MaxProducts
  BY <1>1, <1>5, ListShape, MaxProductsAssumption DEF AddProduct, HasPlace
<1> HIDE DEF n
<1>7. ActiveRows(items') \subseteq ActiveRows(items) \cup {n}
  BY <1>5 DEF ActiveRows
<1>8. Fits(items)'
  BY <1>1, <1>5, <1>7, StillFits DEF Fits, AddProduct, HasPlace, CanRestore
<1>9. Shows(items', n) = "on shelf" /\ n \in RowsOf(items', b)
  <2>1. n \in DOMAIN items' /\ items'[n].beer = b /\ items'[n].active = TRUE
    BY <1>3, <1>5
  <2> QED BY <2>1 DEF Shows, RowsOf
<1>10. \A a : a # b => SameRows(items', items, a)
  BY <1>3, <1>5 DEF RowsOf, SameRows
<1>11. \A i \in RowsOf(items', c.beer) :
         (\A j \in RowsOf(items', c.beer) : j = i) => Shows(items', i) = Says(c)
  BY <1>2, <1>9, Zenon
<1>12. EditOf(c)
  BY <1>2, <1>4, <1>5, <1>6, <1>8, <1>10, <1>11 DEF EditOf
<1> QED BY <1>12 DEF c

LEMMA EditEffect ==
    ASSUME TypeInv, EditAtFridge
    PROVE  \/ UNCHANGED <<slotVars, historyVars, catalogVars, queueVars>>
           \/ \E c : EditOf(c) /\ QueueProductEntry(c)
<1>1. CASE ConfirmArchive
  BY <1>1, ArchiveEdits DEF ConfirmArchive
<1>2. CASE ConfirmPrice
  BY <1>2, PriceEdits DEF ConfirmPrice
<1>3. CASE TapRestore
  BY <1>3, RestoreEdits DEF TapRestore
<1>4. CASE ConfirmNewProduct
  BY <1>4, NewProductEdits DEF ConfirmNewProduct
<1> QED BY <1>1, <1>2, <1>3, <1>4 DEF EditAtFridge

----------------------------------------------------------------------------
(* Types *)

QueueTypes ==
    /\ queue \in Seq(Change) /\ Len(queue) <= MaxQueued
    /\ file \in Seq(Change) /\ Len(file) <= MaxQueued
    /\ dirty \in BOOLEAN /\ up

SlotTypes ==
    /\ op \in {"None", "Sync", "Change"}
    /\ net \in {"idle", "waiting", "sent", "reading", "answered", "failed"}
    /\ request \in Change \cup {NoRequest}
    /\ answer \in {"none", "ok", "refused", "unchanged", "changed"}
    /\ synced \in [list : Seq(Product), current : BOOLEAN]
    /\ op = "Change" => queue # <<>> /\ request = queue[1]

HistoryTypes ==
    /\ wish \in [Beer -> {"on shelf", "off shelf", Nothing}]
    /\ setBack \subseteq Beer /\ astray \subseteq Beer /\ astraySaved \subseteq Beer

CatalogTypes ==
    /\ items \in Seq(Product) /\ Len(items) <= MaxProducts
    /\ current \in BOOLEAN /\ unsaved \in BOOLEAN
    /\ saved \in [items : Seq(Product), current : BOOLEAN]
    /\ Len(saved.items) <= MaxProducts

PlaceTypes ==
    /\ phase \in {"backend", "ui", "catalog", "queue"}
    /\ selected \in Nat
    /\ events \in 0 .. MaxEvents

LEMMA TypeParts ==
    /\ TypeInv <=> /\ ProductsTypeOK /\ CatalogTypes /\ QueueTypes
                   /\ SlotTypes /\ HistoryTypes /\ PlaceTypes
    /\ TypeInv' <=> /\ ProductsTypeOK' /\ CatalogTypes' /\ QueueTypes'
                    /\ SlotTypes' /\ HistoryTypes' /\ PlaceTypes'
<1> USE DEF TypeInv, TypeOK, CatalogTypeOK, CatalogTypes, QueueTypes, SlotTypes, HistoryTypes,
            PlaceTypes
<1>1. TypeInv <=> /\ ProductsTypeOK /\ CatalogTypes /\ QueueTypes
                  /\ SlotTypes /\ HistoryTypes /\ PlaceTypes
  BY Zenon
<1>2. TypeInv' <=> /\ ProductsTypeOK' /\ CatalogTypes' /\ QueueTypes'
                   /\ SlotTypes' /\ HistoryTypes' /\ PlaceTypes'
  BY Zenon
<1> QED BY <1>1, <1>2

LEMMA TypeInit == Init => TypeInv
<1> SUFFICES ASSUME Init PROVE TypeInv
  OBVIOUS
<1>1. <<>> \in Seq(Product) /\ <<>> \in Seq(Change) /\ Len(<<>>) = 0
  BY EmptySeq
<1>2. ProductsTypeOK /\ CatalogTypes
  BY InitialAssumption DEF Init, ProductsTypeOK, CatalogTypes
<1>3. QueueTypes
  <2>1. Len(<<>>) <= MaxQueued
    BY <1>1, MaxQueuedAssumption
  <2> QED BY <1>1, <2>1, Zenon DEF Init, QueueInit, QueueTypes
<1>4. SlotTypes
  BY <1>1 DEF Init, SlotTypes, NoList
<1>5. HistoryTypes /\ PlaceTypes
  BY MaxEventsAssumption DEF Init, HistoryTypes, PlaceTypes
<1> QED BY <1>2, <1>3, <1>4, <1>5, TypeParts

\* A request that starts, a slot that is freed, a queue that loses its head.
LEMMA StartTypes ==
    ASSUME SlotTypes, NEW o \in {"None", "Sync"}, Start(o, NoRequest)
    PROVE  SlotTypes'
  BY EmptySeq DEF SlotTypes, Start, NoList

LEMMA FreeTypes == ASSUME FreeSlot PROVE SlotTypes'
  BY EmptySeq DEF SlotTypes, FreeSlot, NoList

LEMMA SendTypes ==
    ASSUME SlotTypes, queue' \in Seq(Change), op = "None", queue' # <<>>,
           Start("Change", queue'[1])
    PROVE  SlotTypes'
<1>1. queue'[1] \in Change
  BY EmptySeq, ListShape
<1> QED BY <1>1, EmptySeq DEF SlotTypes, Start, NoList

LEMMA PopTypes ==
    ASSUME QueueTypes, ChangeInMemory(Popped(queue))
    PROVE  QueueTypes'
<1>1. Popped(queue) \in Seq(Change) /\ Len(Popped(queue)) <= MaxQueued
  <2>1. CASE queue = <<>>
    BY <2>1 DEF QueueTypes, Popped
  <2>2. CASE queue # <<>>
    BY <2>2, PoppedProperties, ListShape, MaxQueuedAssumption DEF QueueTypes
  <2> QED BY <2>1, <2>2
<1>2. queue' = Popped(queue) /\ file' = file /\ up' = up
      /\ dirty' = (dirty \/ Popped(queue) # queue)
  BY DEF ChangeInMemory
<1>3. dirty' \in BOOLEAN
  BY <1>2
<1> QED BY <1>1, <1>2, <1>3 DEF QueueTypes

\* A change that is entered is queued, written out and perhaps sent at once, or
\* not queued at all.
Entered(c) ==
    /\ queue' = Append(queue, c) /\ file' = queue' /\ dirty' = FALSE /\ up' = up
    /\ IF op = "None" THEN Start("Change", queue'[1]) ELSE UNCHANGED slotVars
    /\ Said(c)
    /\ UNCHANGED <<astray, astraySaved>>
    /\ Len(queue) < MaxQueued

NotEntered(c) ==
    /\ astray' = astray \cup {c.beer}
    /\ wish' = [wish EXCEPT ![c.beer] = Nothing]
    /\ UNCHANGED <<setBack, astraySaved, slotVars, queueVars>>

LEMMA EntryCases ==
    ASSUME QueueTypes, NEW c \in Change, QueueProductEntry(c)
    PROVE  NotEntered(c) \/ Entered(c)
<1>1. ASSUME ~Full(queue), Store(Append(queue, c), {}), SendQueuedNow(Append(queue, c)),
             Said(c), UNCHANGED <<astray, astraySaved>>
      PROVE  Entered(c)
  <2>1. Append(queue, c) # <<>>
    BY AppendShape DEF QueueTypes
  <2>2. queue' = Append(queue, c) /\ file' = queue' /\ dirty' = FALSE /\ up' = up
    BY <1>1 DEF Store, Flush
  <2>3. Len(queue) < MaxQueued
    BY <1>1, ListShape, MaxQueuedAssumption DEF QueueTypes, Full
  <2> QED BY <1>1, <2>1, <2>2, <2>3 DEF Entered, SendQueuedNow
<1>2. ASSUME UNCHANGED <<setBack, astraySaved, slotVars, queueVars>>, astray' = astray \cup {c.beer},
             wish' = [wish EXCEPT ![c.beer] = Nothing]
      PROVE  NotEntered(c)
  BY <1>2 DEF NotEntered
<1> QED BY <1>1, <1>2 DEF QueueProductEntry

LEMMA EntryTypes ==
    ASSUME QueueTypes, SlotTypes, HistoryTypes, NEW c \in Change, QueueProductEntry(c)
    PROVE  QueueTypes' /\ SlotTypes' /\ HistoryTypes'
<1>0. c.beer \in Beer
  BY DEF Change
<1>1. CASE NotEntered(c)
  <2>1. QueueTypes'
    BY <1>1 DEF NotEntered, QueueTypes, queueVars
  <2>2. SlotTypes'
    BY <1>1 DEF NotEntered, SlotTypes, slotVars, queueVars
  <2>3. HistoryTypes'
    BY <1>0, <1>1 DEF NotEntered, HistoryTypes
  <2> QED BY <2>1, <2>2, <2>3
<1>2. CASE Entered(c)
  <2>1. /\ queue' \in Seq(Change) /\ Len(queue') <= MaxQueued /\ queue' # <<>>
        /\ queue # <<>> => queue'[1] = queue[1]
    <3>1. /\ queue \in Seq(Change) /\ Len(queue) \in Nat /\ DOMAIN queue = 1 .. Len(queue)
          /\ queue # <<>> => Len(queue) # 0
      BY ListShape, EmptySeq DEF QueueTypes
    <3> QED BY <1>2, <3>1, AppendShape, MaxQueuedAssumption DEF Entered
  <2>2. QueueTypes'
    BY <1>2, <2>1 DEF Entered, QueueTypes
  <2>3. SlotTypes'
    <3>1. CASE op = "None"
      BY <1>2, <2>1, <3>1, SendTypes DEF Entered
    <3>2. CASE op # "None"
      BY <1>2, <2>1, <3>2 DEF Entered, SlotTypes, slotVars
    <3> QED BY <3>1, <3>2
  <2>4. HistoryTypes'
    BY <1>0, <1>2 DEF Entered, HistoryTypes, Said, Says, screenVars
  <2> QED BY <2>2, <2>3, <2>4
<1> QED BY <1>1, <1>2, EntryCases

\* The parts of the state that most steps leave alone.
LEMMA KeepTypes ==
    TypeInv =>
        /\ UNCHANGED productsVars => ProductsTypeOK'
        /\ UNCHANGED catalogVars => CatalogTypes'
        /\ UNCHANGED queueVars => QueueTypes'
        /\ UNCHANGED <<slotVars, queueVars>> => SlotTypes'
        /\ UNCHANGED historyVars => HistoryTypes'
<1> SUFFICES ASSUME TypeInv
             PROVE  /\ UNCHANGED productsVars => ProductsTypeOK'
                    /\ UNCHANGED catalogVars => CatalogTypes'
                    /\ UNCHANGED queueVars => QueueTypes'
                    /\ UNCHANGED <<slotVars, queueVars>> => SlotTypes'
                    /\ UNCHANGED historyVars => HistoryTypes'
  OBVIOUS
<1>1. ProductsTypeOK /\ CatalogTypes /\ QueueTypes /\ SlotTypes /\ HistoryTypes
  BY TypeParts
<1>2. UNCHANGED productsVars => ProductsTypeOK'
  BY <1>1 DEF ProductsTypeOK, productsVars
<1>3. UNCHANGED catalogVars => CatalogTypes'
  BY <1>1 DEF CatalogTypes, catalogVars
<1>4. UNCHANGED queueVars => QueueTypes'
  BY <1>1 DEF QueueTypes, queueVars
<1>5. UNCHANGED <<slotVars, queueVars>> => SlotTypes'
  BY <1>1 DEF SlotTypes, slotVars, queueVars
<1>6. UNCHANGED historyVars => HistoryTypes'
  BY <1>1 DEF HistoryTypes, historyVars, screenVars
<1> QED BY <1>2, <1>3, <1>4, <1>5, <1>6

\* Every step counts itself or is not counted.
Counted == events' \in 0 .. MaxEvents

LEMMA TypeUpdate == ASSUME TypeInv, BackendUpdate, Counted PROVE TypeInv'
<1>1. /\ ProductsTypeOK /\ CatalogTypes /\ QueueTypes /\ SlotTypes /\ HistoryTypes /\ PlaceTypes
  BY TypeParts
<1>2. PlaceTypes'
  BY <1>1 DEF BackendUpdate, StartNext, BackendIdle, PostRequest, RequestFails, ChangeDone,
              ChangeRefused, SyncKept, SyncApplied, Turn, PlaceTypes, Counted
<1>3. CASE StartNext
  <2>1. UNCHANGED <<historyVars, productsVars, catalogVars, queueVars>> /\ queue' = queue
    BY <1>3 DEF StartNext, queueVars
  <2>2. SlotTypes'
    <3>1. CASE queue # <<>> /\ SendQueuedNow(queue) /\ op = "None"
      BY <1>1, <2>1, <3>1, SendTypes DEF SendQueuedNow, QueueTypes
    <3>2. CASE Start("Sync", NoRequest)
      BY <1>1, <3>2, StartTypes
    <3> QED BY <1>3, <3>1, <3>2 DEF StartNext
  <2> QED BY <1>2, <2>1, <2>2, KeepTypes, TypeParts
<1>4. CASE BackendIdle
  BY <1>2, <1>4, KeepTypes, TypeParts DEF BackendIdle
<1>5. CASE PostRequest
  <2>1. SlotTypes'
    BY <1>1, <1>5 DEF PostRequest, SlotTypes, queueVars
  <2> QED BY <1>2, <1>5, <2>1, KeepTypes, TypeParts DEF PostRequest
<1>6. CASE RequestFails
  BY <1>2, <1>6, FreeTypes, KeepTypes, TypeParts DEF RequestFails
<1>7. CASE ChangeDone
  BY <1>1, <1>2, <1>7, FreeTypes, PopTypes, KeepTypes, TypeParts DEF ChangeDone
<1>8. CASE ChangeRefused
  <2>1. request \in Change /\ request.beer \in Beer
    <3>1. request \in Change
      BY <1>1, <1>8, ListShape, EmptySeq DEF ChangeRefused, SlotTypes, QueueTypes
    <3> QED BY <3>1 DEF Change
  <2>2. HistoryTypes'
    BY <1>1, <1>8, <2>1 DEF ChangeRefused, HistoryTypes
  <2> QED BY <1>1, <1>2, <1>8, <2>2, FreeTypes, PopTypes, KeepTypes, TypeParts DEF ChangeRefused
<1>9. CASE SyncKept
  BY <1>2, <1>9, FreeTypes, KeepTypes, TypeParts DEF SyncKept
<1>10. CASE SyncApplied
  <2>1. CatalogTypes'
    <3>1. synced.list \in Seq(Product) /\ synced.current \in BOOLEAN /\ Len(synced.list) <= MaxProducts
      BY <1>1, <1>10, ListShape, MaxProductsAssumption DEF SyncApplied, SlotTypes, TooManyItems
    <3>2. items' \in Seq(Product) /\ Len(items') <= MaxProducts
      BY <1>1, <1>10, <3>1, Replaced DEF SyncApplied, CatalogTypes
    <3>3. current' = synced.current /\ unsaved' = TRUE /\ saved' = saved
      BY <1>10 DEF SyncApplied, ReplaceAll
    <3> QED BY <1>1, <3>1, <3>2, <3>3 DEF CatalogTypes
  <2>2. HistoryTypes'
    BY <1>1, <1>10 DEF SyncApplied, HistoryTypes
  <2> QED BY <1>2, <1>10, <2>1, <2>2, FreeTypes, KeepTypes, TypeParts DEF SyncApplied
<1> QED BY <1>3, <1>4, <1>5, <1>6, <1>7, <1>8, <1>9, <1>10 DEF BackendUpdate

UiEvent == EditAtFridge \/ UiStep

LEMMA TypeUi == ASSUME TypeInv, UiEvent, Counted PROVE TypeInv'
<1>1. /\ ProductsTypeOK /\ CatalogTypes /\ QueueTypes /\ SlotTypes /\ HistoryTypes /\ PlaceTypes
  BY TypeParts
<1>2. UNCHANGED productsVars
  BY DEF UiEvent, UiStep, EditAtFridge, ConfirmArchive, ConfirmPrice, TapRestore, ConfirmNewProduct,
         TapManage, TapBack, Wake, UiIdle, UiTurn
<1>3. PlaceTypes'
  <2>1. phase' = "catalog"
    BY DEF UiEvent, UiStep, EditAtFridge, ConfirmArchive, ConfirmPrice, TapRestore, ConfirmNewProduct,
           TapManage, TapBack, Wake, UiIdle, UiTurn, Turn
  <2>2. ActiveRows(items) \subseteq Nat
    BY <1>1, ActiveShape DEF CatalogTypes
  <2>3. selected' \in {selected, 0} \cup ActiveRows(items)
    BY DEF UiEvent, UiStep, EditAtFridge, ConfirmArchive, ConfirmPrice, TapRestore, ConfirmNewProduct,
           TapManage, TapBack, Wake, UiIdle, LeaveManage
  <2> QED BY <1>1, <2>1, <2>2, <2>3 DEF PlaceTypes, Counted
<1>4. CASE EditAtFridge
  <2>1. CASE UNCHANGED <<slotVars, historyVars, catalogVars, queueVars>>
    BY <1>2, <1>3, <2>1, KeepTypes, TypeParts
  <2>2. ASSUME NEW c, EditOf(c), QueueProductEntry(c) PROVE TypeInv'
    <3>1. CatalogTypes'
      BY <1>1, <2>2 DEF EditOf, CatalogTypes
    <3>2. c \in Change
      BY <2>2 DEF EditOf
    <3> QED BY <1>1, <1>2, <1>3, <2>2, <3>1, <3>2, EntryTypes, KeepTypes, TypeParts
  <2> QED BY <1>4, <2>1, <2>2, EditEffect
<1>5. CASE TapManage \/ TapBack \/ UiIdle
  BY <1>2, <1>3, <1>5, KeepTypes, TypeParts DEF TapManage, TapBack, UiIdle
<1>6. CASE Wake
  BY <1>1, <1>2, <1>3, <1>6, StartTypes, KeepTypes, TypeParts DEF Wake
<1> QED BY <1>4, <1>5, <1>6 DEF UiEvent, UiStep

LEMMA TrimmedTypes ==
    ASSUME NEW w \in [Beer -> {"on shelf", "off shelf", Nothing}]
    PROVE  Trimmed(w) \in [Beer -> {"on shelf", "off shelf", Nothing}]
  BY DEF Trimmed

LEMMA TypeHandlers ==
    ASSUME TypeInv, Handlers \/ ChangedElsewhere \/ HandlerDies, Counted
    PROVE  TypeInv'
<1>1. /\ ProductsTypeOK /\ CatalogTypes /\ QueueTypes /\ SlotTypes /\ HistoryTypes /\ PlaceTypes
  BY TypeParts
<1>2. PlaceTypes'
  BY <1>1 DEF Handlers, ChangeWritten, ChangeNotWritten, HandlerEnds, HandlerDies, ExecutedLate,
              SyncReadsRevision, SyncReadsProducts, ChangedElsewhere, PlaceTypes, Counted
<1>3. CASE ChangeWritten
  <2>1. request \in Change
    BY <1>1, <1>3, ListShape, EmptySeq DEF ChangeWritten, SlotTypes, QueueTypes
  <2>2. ProductsTypeOK'
    BY <1>1, <1>3, <2>1, SheetGrows DEF ChangeWritten, ProductsTypeOK
  <2>3. HistoryTypes'
    BY <1>1, <1>3, TrimmedTypes DEF ChangeWritten, HistoryTypes
  <2>4. UNCHANGED slotVars /\ UNCHANGED catalogVars /\ UNCHANGED queueVars
    BY <1>3 DEF ChangeWritten
  <2> QED BY <1>2, <2>2, <2>3, <2>4, KeepTypes, TypeParts
<1>4. CASE ChangeNotWritten
  <2>1. SlotTypes'
    BY <1>1, <1>4 DEF ChangeNotWritten, SlotTypes, queueVars
  <2> QED BY <1>2, <1>4, <2>1, KeepTypes, TypeParts DEF ChangeNotWritten
<1>5. CASE HandlerEnds
  <2>1. SlotTypes'
    BY <1>1, <1>5 DEF HandlerEnds, Release, BumpRevision, SlotTypes, queueVars
  <2>2. CatalogTypes'
    BY <1>1, <1>5 DEF HandlerEnds, BumpRevision, CatalogTypes
  <2>3. ProductsTypeOK'
    BY <1>1, <1>5 DEF HandlerEnds, Release, ProductsTypeOK
  <2> QED BY <1>2, <1>5, <2>1, <2>2, <2>3, KeepTypes, TypeParts DEF HandlerEnds
<1>6. CASE SyncReadsRevision
  <2>1. SlotTypes'
    BY <1>1, <1>6, EmptySeq DEF SyncReadsRevision, SlotTypes, NoList, queueVars
  <2> QED BY <1>2, <1>6, <2>1, KeepTypes, TypeParts DEF SyncReadsRevision
<1>7. CASE SyncReadsProducts
  <2>1. SlotTypes'
    BY <1>1, <1>7, ServedShape DEF SyncReadsProducts, SlotTypes, ProductsTypeOK, queueVars
  <2> QED BY <1>2, <1>7, <2>1, KeepTypes, TypeParts DEF SyncReadsProducts
<1>8. CASE ChangedElsewhere
  <2>1. PICK c \in Change : Writes(c) /\ wish' = Trimmed([wish EXCEPT ![c.beer] = Nothing])
    BY <1>8 DEF ChangedElsewhere
  <2>2. ProductsTypeOK'
    BY <1>1, <1>8, <2>1, SheetGrows DEF ChangedElsewhere, ProductsTypeOK
  <2>3. HistoryTypes'
    <3>1. [wish EXCEPT ![c.beer] = Nothing] \in [Beer -> {"on shelf", "off shelf", Nothing}]
      BY <1>1 DEF HistoryTypes
    <3> QED BY <1>1, <1>8, <2>1, <3>1, TrimmedTypes DEF ChangedElsewhere, HistoryTypes
  <2>4. UNCHANGED slotVars /\ UNCHANGED catalogVars /\ UNCHANGED queueVars
    BY <1>8 DEF ChangedElsewhere
  <2> QED BY <1>2, <2>2, <2>3, <2>4, KeepTypes, TypeParts
<1>9. CASE ExecutedLate
  <2>1. PICK c \in late :
           /\ Writes(c) /\ late' = late \ {c}
           /\ wish' = Trimmed(IF Overrules(c) THEN [wish EXCEPT ![c.beer] = Nothing] ELSE wish)
    BY <1>9 DEF ExecutedLate
  <2>2. ProductsTypeOK'
    BY <1>1, <1>9, <2>1, SheetGrows DEF ExecutedLate, ProductsTypeOK
  <2>3. HistoryTypes'
    <3>1. (IF Overrules(c) THEN [wish EXCEPT ![c.beer] = Nothing] ELSE wish)
             \in [Beer -> {"on shelf", "off shelf", Nothing}]
      BY <1>1 DEF HistoryTypes
    <3> QED BY <1>1, <1>9, <2>1, <3>1, TrimmedTypes DEF ExecutedLate, HistoryTypes
  <2>4. UNCHANGED slotVars /\ UNCHANGED catalogVars /\ UNCHANGED queueVars
    BY <1>9 DEF ExecutedLate
  <2> QED BY <1>2, <2>2, <2>3, <2>4, KeepTypes, TypeParts
<1>10. CASE HandlerDies
  <2>1. SlotTypes'
    BY <1>1, <1>10 DEF HandlerDies, Release, SlotTypes, queueVars
  <2>2. ProductsTypeOK'
    BY <1>1, <1>10 DEF HandlerDies, Release, ProductsTypeOK
  <2> QED BY <1>2, <1>10, <2>1, <2>2, KeepTypes, TypeParts DEF HandlerDies
<1> QED BY <1>3, <1>4, <1>5, <1>6, <1>7, <1>8, <1>9, <1>10 DEF Handlers

LEMMA GivenUpTypes ==
    ASSUME ProductsTypeOK, SlotTypes, QueueTypes, GivenUp
    PROVE  writer' \in {"none", "other"} /\ late' \subseteq Change
<1>1. op = "Change" => request \in Change
  BY ListShape, EmptySeq DEF SlotTypes, QueueTypes
<1> QED BY <1>1 DEF ProductsTypeOK, GivenUp

LEMMA TypeRest ==
    ASSUME TypeInv, SaveCatalog \/ SaveQueue \/ LinkFails \/ PowerCut \/ UNCHANGED vars, Counted
    PROVE  TypeInv'
<1>1. /\ ProductsTypeOK /\ CatalogTypes /\ QueueTypes /\ SlotTypes /\ HistoryTypes /\ PlaceTypes
  BY TypeParts
<1>2. CASE SaveCatalog
  <2>1. CatalogTypes'
    <3>1. /\ items' = items /\ current' = current /\ unsaved' = FALSE
          /\ saved' = IF unsaved THEN [items |-> items, current |-> current] ELSE saved
      BY <1>2 DEF SaveCatalog, FlushCatalog
    <3>2. saved' \in [items : Seq(Product), current : BOOLEAN] /\ Len(saved'.items) <= MaxProducts
      BY <1>1, <3>1 DEF CatalogTypes
    <3>3. current' \in BOOLEAN /\ unsaved' \in BOOLEAN
      BY <1>1, <3>1, Zenon DEF CatalogTypes
    <3>4. items' \in Seq(Product) /\ Len(items') <= MaxProducts
      BY <1>1, <3>1 DEF CatalogTypes
    <3> QED BY <3>2, <3>3, <3>4, Zenon DEF CatalogTypes
  <2>2. HistoryTypes'
    BY <1>1, <1>2 DEF SaveCatalog, HistoryTypes, screenVars
  <2>3. PlaceTypes'
    BY <1>1, <1>2 DEF SaveCatalog, Turn, PlaceTypes, Counted
  <2> QED BY <1>2, <2>1, <2>2, <2>3, KeepTypes, TypeParts DEF SaveCatalog
<1>3. CASE SaveQueue
  <2>1. queue' = queue /\ QueueTypes'
    <3>1. CASE dirty
      BY <1>1, <1>3, <3>1 DEF SaveQueue, Store, Flush, QueueTypes
    <3>2. CASE ~dirty
      BY <1>1, <1>3, <3>2 DEF SaveQueue, QueueTypes, queueVars
    <3> QED BY <3>1, <3>2
  <2>2. SlotTypes'
    BY <1>1, <1>3, <2>1 DEF SaveQueue, SlotTypes, slotVars
  <2>3. PlaceTypes'
    BY <1>1, <1>3 DEF SaveQueue, Turn, PlaceTypes, Counted
  <2> QED BY <1>3, <2>1, <2>2, <2>3, KeepTypes, TypeParts DEF SaveQueue
<1>4. CASE LinkFails
  <2>1. SlotTypes'
    BY <1>1, <1>4, EmptySeq DEF LinkFails, SlotTypes, NoList, queueVars
  <2>2. ProductsTypeOK'
    BY <1>1, <1>4, GivenUpTypes DEF LinkFails, ProductsTypeOK
  <2>3. PlaceTypes'
    BY <1>1, <1>4 DEF LinkFails, PlaceTypes, Counted
  <2> QED BY <1>4, <2>1, <2>2, <2>3, KeepTypes, TypeParts DEF LinkFails
<1>5. CASE PowerCut
  <2>1. SlotTypes'
    BY <1>1, <1>5, StartTypes DEF PowerCut
  <2>2. ProductsTypeOK'
    BY <1>1, <1>5, GivenUpTypes DEF PowerCut, ProductsTypeOK
  <2>3. PlaceTypes'
    BY <1>1, <1>5 DEF PowerCut, LeaveManage, PlaceTypes, Counted
  <2>4. QueueTypes'
    BY <1>1, <1>5 DEF PowerCut, LoadQueue, QueueTypes
  <2>5. CatalogTypes'
    BY <1>1, <1>5 DEF PowerCut, LoadCatalog, CatalogTypes
  <2>6. HistoryTypes'
    BY <1>1, <1>5 DEF PowerCut, HistoryTypes
  <2> QED BY <2>1, <2>2, <2>3, <2>4, <2>5, <2>6, TypeParts
<1>6. CASE UNCHANGED vars
  <2>1. PlaceTypes'
    BY <1>1, <1>6 DEF vars, PlaceTypes
  <2>2. /\ UNCHANGED productsVars /\ UNCHANGED catalogVars /\ UNCHANGED queueVars
        /\ UNCHANGED slotVars /\ UNCHANGED historyVars
    BY <1>6 DEF vars
  <2> QED BY <2>1, <2>2, KeepTypes, TypeParts
<1> QED BY <1>2, <1>3, <1>4, <1>5, <1>6

LEMMA StepsCount == ASSUME TypeInv, [Next]_vars PROVE Counted
<1>1. events \in 0 .. MaxEvents
  BY DEF TypeInv, TypeOK
<1>2. events' = events \/ (events < MaxEvents /\ events' = events + 1)
  BY DEF Next, vars
<1> QED BY <1>1, <1>2, MaxEventsAssumption DEF Counted

LEMMA TypeStep == ASSUME TypeInv, [Next]_vars PROVE TypeInv'
  BY StepsCount, TypeUpdate, TypeUi, TypeHandlers, TypeRest DEF Next, Step, Event, UiEvent

LEMMA TypesHold == Spec => []TypeInv
  BY TypeInit, TypeStep, PTL DEF Spec

\* Every variable keeps its type: in particular the list, whatever is synced,
\* typed in at the fridge or read back after a cut, stays within g_items
\* (product_catalog.cpp), and the queue within g_items (transaction_queue.cpp).
THEOREM CatalogTypeCorrect == Spec => []TypeOK
<1>1. TypeInv => TypeOK
  BY DEF TypeInv
<1> QED BY <1>1, TypesHold, PTL

\* A beer never has two rows in the Products sheet, whatever is retried after a
\* lost answer, created in two places at once or executed late (upsertProduct_,
\* setProductActive_ and setProductPrice_ under the script lock).  The sheet
\* must not have two to begin with: findProductRow_ would not repair it.
THEOREM OneRowCorrect ==
    ASSUME Distinct(InitialSheet)
    PROVE  Spec => []OneRowPerBeer
<1>1. Init => Distinct(sheet)
  BY DEF Init
<1>2. ASSUME TypeInv, Distinct(sheet), [Next]_vars PROVE Distinct(sheet)'
  <2>1. CASE sheet' = sheet
    BY <1>2, <2>1 DEF Distinct
  <2>2. CASE \E c \in Change : Writes(c)
    BY <1>2, <2>2, WritesKeepDistinct DEF TypeInv, TypeOK, ProductsTypeOK
  <2>3. ASSUME sheet' # sheet PROVE \E c \in Change : Writes(c)
    <3>1. ChangeWritten \/ ChangedElsewhere \/ ExecutedLate
      BY <1>2, <2>3 DEF Next, Step, Event, BackendUpdate, StartNext, BackendIdle, PostRequest,
         RequestFails, ChangeDone, ChangeRefused, SyncKept, SyncApplied, UiStep, EditAtFridge,
         ConfirmArchive, ConfirmPrice, TapRestore, ConfirmNewProduct, TapManage, TapBack, Wake,
         UiIdle, UiTurn, SaveCatalog, SaveQueue, Handlers, ChangeNotWritten, HandlerEnds,
         HandlerDies, SyncReadsRevision, SyncReadsProducts, LinkFails, PowerCut, vars, productsVars
    <3>2. ChangeWritten => request \in Change
      BY <1>2, TypeParts, ListShape, EmptySeq DEF ChangeWritten, SlotTypes, QueueTypes
    <3>3. late \subseteq Change
      BY <1>2 DEF TypeInv, TypeOK, ProductsTypeOK
    <3> QED BY <3>1, <3>2, <3>3 DEF ChangeWritten, ChangedElsewhere, ExecutedLate
  <2> QED BY <2>1, <2>2, <2>3
<1>3. TypeInv /\ Distinct(sheet) => OneRowPerBeer
  <2> SUFFICES ASSUME TypeInv, Distinct(sheet), NEW b \in Beer
               PROVE  Cardinality(RowsOf(sheet, b)) <= 1
    BY DEF OneRowPerBeer
  <2>1. \A i, j \in RowsOf(sheet, b) : i = j
    BY DEF Distinct, RowsOf
  <2>2. CASE RowsOf(sheet, b) = {}
    BY <2>2, FS_EmptySet
  <2>3. ASSUME NEW i \in RowsOf(sheet, b) PROVE Cardinality(RowsOf(sheet, b)) = 1
    <3>1. RowsOf(sheet, b) = {i}
      BY <2>1, <2>3
    <3> QED BY <3>1, FS_Singleton
  <2> QED BY <2>2, <2>3
<1>4. TypeInv /\ Distinct(sheet) /\ [Next]_vars => Distinct(sheet)'
  BY <1>2
<1> QED BY <1>1, <1>3, <1>4, TypesHold, PTL DEF Spec

----------------------------------------------------------------------------
(* What the two lists owe the sheet *)

\* The beers of a list.
Beers(list) == {list[i].beer : i \in DOMAIN list}

\* The sheet s knows every beer of the list that has no barcode, those in out
\* aside.
Listed(list, out, s) == Beers(list) \ Coded \subseteq out \cup Beers(s)

\* The list says of every beer what the sheet s says, those in out aside.
SameIn(list, s, b) == {list[i] : i \in RowsOf(list, b)} = {Served(s)[i] : i \in RowsOf(s, b)}
Agrees(list, out, s) == \A b \in Beer \ out : SameIn(list, s, b)

\* No handler is between its row and its bump, and none has stayed there.
Settled == writer = "none" /\ ~unbumped

\* In memory, the exceptions are what is astray and what is queued.
MemoryInv ==
    /\ Listed(items, astray \cup Pending(queue), sheet)
    /\ current /\ Settled => Agrees(items, astray \cup Pending(queue), sheet)
    /\ astray = {} => Fits(items)

\* On flash, they are what was astray then or is now, and what is on file.
FlashInv ==
    /\ Listed(saved.items, astray \cup astraySaved \cup Pending(file), sheet)
    /\ saved.current /\ Settled =>
          Agrees(saved.items, astray \cup astraySaved \cup Pending(file), sheet)
    /\ astraySaved = {} => Fits(saved.items)
    /\ saved.current => current
    /\ ~unsaved => saved.items = items /\ saved.current = current

\* What the file still holds and the queue does not, the backend has executed
\* since the terminal's revision, or the terminal has dropped.
FileInv ==
    /\ Pending(queue) \subseteq Pending(file)
    /\ Pending(file) \subseteq Pending(queue) \cup astray \cup Beers(sheet)
    /\ current => Pending(file) \subseteq Pending(queue) \cup astray
    /\ phase = "backend" \/ ~dirty => file = queue

\* A change that is answered "ok" is in the sheet and has outdated the list.
WrittenInv ==
    /\ writer = "ours" => op = "Change" /\ net = "sent" /\ request.beer \in Beers(sheet)
    /\ op = "Change" /\ net = "answered" /\ answer = "ok" =>
          ~current /\ request.beer \in Beers(sheet)

\* A list that arrives is the sheet's while its revision is the backend's, and
\* brings every beer without a barcode that is neither astray nor queued.
Arrived == op = "Sync" /\ net = "answered" /\ answer = "changed"

ArrivedInv ==
    /\ op = "Sync" /\ net = "reading" => ~current
    /\ Arrived =>
          /\ ~current
          /\ Beers(synced.list) \subseteq Beers(sheet)
          /\ Fits(synced.list)
          /\ synced.current /\ Settled => synced.list = Served(sheet)
          /\ queue = <<>> => Listed(items, astray, synced.list)

CopiesInv == MemoryInv /\ FlashInv /\ FileInv /\ WrittenInv /\ ArrivedInv

LEMMA RowsTell == \A list, b : b \in Beers(list) <=> RowsOf(list, b) # {}
  BY DEF Beers, RowsOf

LEMMA PendingShape ==
    ASSUME NEW q \in Seq(Change)
    PROVE  /\ Pending(q) \subseteq Beer
           /\ q = <<>> => Pending(q) = {}
           /\ q # <<>> => q[1] \in Change /\ Pending(q) = Pending(Popped(q)) \cup {q[1].beer}
           /\ \A c \in Change : Pending(Append(q, c)) = Pending(q) \cup {c.beer}
<1>1. Pending(q) \subseteq Beer
  BY ListShape DEF Pending, Change
<1>2. q = <<>> => Pending(q) = {}
  BY DEF Pending
<1>3. ASSUME q # <<>>
      PROVE  q[1] \in Change /\ Pending(q) = Pending(Popped(q)) \cup {q[1].beer}
  <2>1. 1 \in DOMAIN q /\ q[1] \in Change
    BY <1>3, ListShape, EmptySeq
  <2>2. Pending(q) \subseteq Pending(Popped(q)) \cup {q[1].beer}
    <3> SUFFICES ASSUME NEW j \in DOMAIN q PROVE q[j].beer \in Pending(Popped(q)) \cup {q[1].beer}
      BY DEF Pending
    <3>1. j = 1 \/ (j - 1 \in DOMAIN Popped(q) /\ q[j] = Popped(q)[j - 1])
      BY <1>3, PoppedProperties
    <3> QED BY <3>1 DEF Pending
  <2>3. Pending(Popped(q)) \subseteq Pending(q)
    BY <1>3, PoppedProperties DEF Pending
  <2> QED BY <2>1, <2>2, <2>3 DEF Pending
<1>4. ASSUME NEW c \in Change PROVE Pending(Append(q, c)) = Pending(q) \cup {c.beer}
  <2>1. /\ DOMAIN Append(q, c) = DOMAIN q \cup {Len(q) + 1}
        /\ \A i \in DOMAIN q : Append(q, c)[i] = q[i]
        /\ Append(q, c)[Len(q) + 1] = c
    BY AppendShape
  <2> QED BY <2>1 DEF Pending
<1> QED BY <1>1, <1>2, <1>3, <1>4

LEMMA SheetBeers ==
    ASSUME sheet \in Seq(Product), NEW c \in Change, Writes(c)
    PROVE  Beers(sheet) \cup {c.beer} \subseteq Beers(sheet')
<1>1. \A b : b \in Beers(sheet) => b \in Beers(sheet')
  BY SheetGrows, RowsTell DEF Known
<1>2. c.beer \in Beers(sheet')
  BY SheetGrows, RowsTell DEF Known
<1> QED BY <1>1, <1>2

LEMMA EditBeers ==
    ASSUME NEW c, EditOf(c)
    PROVE  /\ Beers(items') \subseteq Beers(items) \cup {c.beer}
           /\ \A s, b : b # c.beer /\ SameIn(items, s, b) => SameIn(items', s, b)
<1>1. \A b : b # c.beer => SameRows(items', items, b)
  BY DEF EditOf
<1>2. \A b : b # c.beer /\ b \in Beers(items') => b \in Beers(items)
  BY <1>1, RowsTell DEF SameRows
<1>3. \A s, b : b # c.beer /\ SameIn(items, s, b) => SameIn(items', s, b)
  <2> SUFFICES ASSUME NEW s, NEW b, b # c.beer, SameIn(items, s, b) PROVE SameIn(items', s, b)
    OBVIOUS
  <2>1. {items'[i] : i \in RowsOf(items', b)} = {items[i] : i \in RowsOf(items, b)}
    BY <1>1 DEF SameRows
  <2> QED BY <2>1 DEF SameIn
<1> QED BY <1>2, <1>3

\* After replace_all() the list is the synced one, but for beers in a that this
\* does not know.
LEMMA Installed ==
    ASSUME items \in Seq(Product), NEW list \in Seq(Product), Len(list) <= MaxProducts,
           NEW c, ReplaceAll(list, c), NEW a, Listed(items, a, list),
           NEW left, left = {b \in a : RowsOf(list, b) = {}}
    PROVE  /\ Beers(items') \subseteq Beers(list) \cup left
           /\ \A b : b \notin left => SameRows(items', list, b)
           /\ left = {} => items' = list
<1>1. /\ \A i \in DOMAIN list : i \in DOMAIN items' /\ items'[i] = list[i]
      /\ \A i \in DOMAIN items' :
           \/ i \in DOMAIN list
           \/ \E k \in DOMAIN items : /\ items'[i] = items[k] /\ items[k].beer \notin Coded
                                      /\ RowsOf(list, items[k].beer) = {}
      /\ (\A k \in DOMAIN items : items[k].beer \in Coded \/ RowsOf(list, items[k].beer) # {})
           => items' = list
  BY Replaced
<1>2. \A k \in DOMAIN items :
        items[k].beer \in Coded \/ RowsOf(list, items[k].beer) # {} \/ items[k].beer \in left
  <2> SUFFICES ASSUME NEW k \in DOMAIN items, items[k].beer \notin Coded,
                      RowsOf(list, items[k].beer) = {}
               PROVE  items[k].beer \in left
    OBVIOUS
  <2>1. items[k].beer \in Beers(items) \ Coded
    BY DEF Beers
  <2>2. items[k].beer \notin Beers(list)
    BY RowsTell
  <2> QED BY <2>1, <2>2 DEF Listed
<1>3. Beers(items') \subseteq Beers(list) \cup left
  <2> SUFFICES ASSUME NEW i \in DOMAIN items' PROVE items'[i].beer \in Beers(list) \cup left
    BY DEF Beers
  <2>1. CASE i \in DOMAIN list
    BY <1>1, <2>1 DEF Beers
  <2>2. CASE \E k \in DOMAIN items : /\ items'[i] = items[k] /\ items[k].beer \notin Coded
                                     /\ RowsOf(list, items[k].beer) = {}
    BY <1>2, <2>2
  <2> QED BY <1>1, <2>1, <2>2
<1>4. ASSUME NEW b, b \notin left PROVE SameRows(items', list, b)
  <2>1. CASE RowsOf(list, b) # {}
    BY <2>1, ReplacedRows
  <2>2. CASE RowsOf(list, b) = {}
    <3>1. b \notin Beers(items')
      BY <1>3, <1>4, <2>2, RowsTell
    <3>2. RowsOf(items', b) = {}
      BY <3>1, RowsTell
    <3> QED BY <2>2, <3>2 DEF SameRows
  <2> QED BY <2>1, <2>2
<1> QED BY <1>1, <1>2, <1>3, <1>4

LEMMA CopiesInit == Init => CopiesInv
<1> SUFFICES ASSUME Init PROVE CopiesInv
  OBVIOUS
<1>1. Beers(Seed) \subseteq Coded /\ Fits(Seed)
  BY InitialAssumption DEF Beers, Fits
<1>2. /\ items = Seed /\ saved = [items |-> Seed, current |-> FALSE] /\ current = FALSE
      /\ writer = "none" /\ op = "Sync" /\ net = "waiting"
      /\ queue = <<>> /\ file = <<>>
  BY DEF Init, QueueInit
<1>3. MemoryInv /\ FlashInv
  BY <1>1, <1>2 DEF MemoryInv, FlashInv, Listed
<1>4. FileInv
  BY <1>2 DEF FileInv
<1>5. WrittenInv /\ ArrivedInv
  BY <1>2 DEF WrittenInv, ArrivedInv, Arrived
<1> QED BY <1>3, <1>4, <1>5 DEF CopiesInv

\* Most steps touch neither list, nor the queue, nor the sheet.
listVars == <<sheet, catalogVars, queueVars, astray, astraySaved>>

LEMMA CopiesKeep ==
    ASSUME MemoryInv, FlashInv, FileInv, UNCHANGED listVars,
           Settled' => Settled, phase' = "backend" => phase = "backend"
    PROVE  MemoryInv' /\ FlashInv' /\ FileInv'
<1>1. UNCHANGED <<sheet, items, current, unsaved, saved, queue, dirty, file, astray, astraySaved>>
  BY DEF listVars, catalogVars, queueVars
<1>2. MemoryInv'
  BY <1>1 DEF MemoryInv, Fits
<1>3. FlashInv'
  BY <1>1 DEF FlashInv, Fits
<1>4. FileInv'
  BY <1>1 DEF FileInv
<1> QED BY <1>2, <1>3, <1>4

\* No answer is there, and no handler of ours holds the lock.
LEMMA NoAnswer ==
    ASSUME writer' # "ours", net' \notin {"reading", "answered"}
    PROVE  WrittenInv' /\ ArrivedInv'
  BY DEF WrittenInv, ArrivedInv, Arrived

LEMMA SlotKeeps ==
    ASSUME WrittenInv, ArrivedInv,
           UNCHANGED <<slotVars, sheet, writer, unbumped, items, current, queue, astray>>
    PROVE  WrittenInv' /\ ArrivedInv'
<1>1. UNCHANGED <<op, net, request, answer, synced, sheet, writer, unbumped, items, current, queue,
                  astray>>
  BY DEF slotVars
<1> QED BY <1>1 DEF WrittenInv, ArrivedInv, Arrived, Settled, Fits

LEMMA CopiesQuiet ==
    ASSUME TypeInv, CopiesInv,
           \/ StartNext \/ BackendIdle \/ PostRequest \/ RequestFails \/ SyncKept
           \/ TapManage \/ TapBack \/ Wake \/ UiIdle
           \/ ChangeNotWritten \/ SyncReadsRevision \/ SyncReadsProducts
           \/ LinkFails \/ HandlerDies \/ UNCHANGED vars
    PROVE  CopiesInv'
<1>1. MemoryInv /\ FlashInv /\ FileInv /\ WrittenInv /\ ArrivedInv
  BY DEF CopiesInv
<1>2. ASSUME UNCHANGED listVars, Settled' => Settled,
             phase' = "backend" => phase = "backend", WrittenInv' /\ ArrivedInv'
      PROVE  CopiesInv'
  BY <1>1, <1>2, CopiesKeep DEF CopiesInv
<1>3. CASE \/ StartNext \/ PostRequest \/ RequestFails \/ SyncKept \/ Wake
  <2>1. /\ UNCHANGED listVars /\ writer' = writer /\ unbumped' = unbumped /\ phase' # "backend"
        /\ net' \in {"waiting", "sent", "idle"}
        /\ \/ op = "None" \/ op = "Sync" \/ net # "sent"
    BY <1>3 DEF StartNext, SendQueuedNow, PostRequest, RequestFails, SyncKept, Wake, Turn, UiTurn,
                Start, FreeSlot, listVars, historyVars, productsVars
  <2> QED BY <1>1, <1>2, <2>1, NoAnswer DEF WrittenInv, Settled
<1>4. CASE BackendIdle \/ TapManage \/ TapBack \/ UiIdle \/ UNCHANGED vars
  <2>1. /\ UNCHANGED <<slotVars, listVars, writer, unbumped>>
        /\ phase' = "backend" => phase = "backend"
        /\ UNCHANGED <<sheet, items, current, queue, astray>>
    BY <1>4 DEF BackendIdle, TapManage, TapBack, UiIdle, vars, Turn, UiTurn, listVars, historyVars,
                productsVars, catalogVars, queueVars
  <2> QED BY <1>1, <1>2, <2>1, SlotKeeps DEF Settled
<1>5. CASE ChangeNotWritten
  <2>1. UNCHANGED listVars /\ UNCHANGED <<writer, unbumped, phase>>
    BY <1>5 DEF ChangeNotWritten, listVars, historyVars, productsVars
  <2>2. writer # "ours" /\ op' = "Change" /\ answer' = "refused"
    BY <1>5 DEF ChangeNotWritten
  <2>3. WrittenInv' /\ ArrivedInv'
    BY <2>1, <2>2 DEF WrittenInv, ArrivedInv, Arrived
  <2> QED BY <1>2, <2>1, <2>3 DEF Settled
<1>6. CASE SyncReadsRevision
  <2>1. UNCHANGED listVars /\ UNCHANGED <<writer, unbumped, phase>>
    BY <1>6 DEF SyncReadsRevision, listVars, historyVars, productsVars
  <2>2. /\ writer # "ours" /\ op' = "Sync" /\ current' = current
        /\ \/ net' = "answered" /\ answer' = "unchanged"
           \/ net' = "reading" /\ ~current
    BY <1>1, <1>6 DEF SyncReadsRevision, WrittenInv, catalogVars
  <2>3. WrittenInv' /\ ArrivedInv'
    BY <2>1, <2>2 DEF WrittenInv, ArrivedInv, Arrived
  <2> QED BY <1>2, <2>1, <2>3 DEF Settled
<1>7. CASE SyncReadsProducts
  <2>1. UNCHANGED listVars /\ UNCHANGED <<writer, unbumped, phase>>
    BY <1>7 DEF SyncReadsProducts, listVars, historyVars, productsVars
  <2>2. UNCHANGED <<sheet, items, current, queue, astray>>
    BY <2>1 DEF listVars, catalogVars, queueVars
  <2>3. /\ writer # "ours" /\ op' = "Sync" /\ net' = "answered" /\ ~current
        /\ synced'.list = Served(sheet)
    <3>1. synced \in [list : Seq(Product), current : BOOLEAN]
      BY DEF TypeInv, TypeOK
    <3> QED BY <1>1, <1>7, <3>1 DEF SyncReadsProducts, WrittenInv, ArrivedInv
  <2>4. Beers(Served(sheet)) = Beers(sheet) /\ Fits(Served(sheet))
    <3>1. sheet \in Seq(Product)
      BY DEF TypeInv, TypeOK, ProductsTypeOK
    <3> QED BY <3>1, ServedShape DEF Beers
  <2>5. queue = <<>> => Listed(items, astray, Served(sheet))
    <3>1. queue = <<>> => Pending(queue) = {}
      BY DEF Pending
    <3> QED BY <1>1, <2>4, <3>1 DEF MemoryInv, Listed
  <2>6. WrittenInv'
    BY <2>1, <2>3 DEF WrittenInv
  <2>7. ArrivedInv'
    BY <2>2, <2>3, <2>4, <2>5 DEF ArrivedInv, Arrived, Fits
  <2> QED BY <1>2, <2>1, <2>6, <2>7 DEF Settled
<1>8. CASE LinkFails
  <2>1. /\ UNCHANGED <<listVars, unbumped, phase>> /\ (writer' = "none" => writer = "none")
        /\ writer' # "ours" /\ net' = "failed"
    BY <1>8 DEF LinkFails, GivenUp, listVars, historyVars
  <2> QED BY <1>2, <2>1, NoAnswer DEF Settled
<1>9. CASE HandlerDies
  <2>1. /\ UNCHANGED <<listVars, phase, op, synced>> /\ writer' = "none" /\ unbumped'
        /\ IF writer = "ours" THEN net' = "answered" /\ answer' = "refused"
                              ELSE UNCHANGED <<net, answer>>
    BY <1>9 DEF HandlerDies, Release, listVars, historyVars
  <2>2. UNCHANGED <<sheet, items, current, queue, astray, request>>
    BY <1>9, <2>1 DEF HandlerDies, listVars, catalogVars, queueVars
  <2>3. ~Settled'
    BY <2>1 DEF Settled
  <2>4. WrittenInv' /\ ArrivedInv'
    BY <1>1, <2>1, <2>2, <2>3 DEF WrittenInv, ArrivedInv, Arrived, Fits
  <2> QED BY <1>2, <2>1, <2>3, <2>4
<1> QED BY <1>3, <1>4, <1>5, <1>6, <1>7, <1>8, <1>9

\* More may be excepted, and the sheet may know more.
LEMMA Widened ==
    ASSUME NEW l, NEW o, NEW o2, NEW s, NEW s2,
           Listed(l, o, s), Beers(s) \subseteq Beers(s2), o \subseteq o2 \cup Beers(s2)
    PROVE  Listed(l, o2, s2)
  BY DEF Listed

LEMMA FewerClaimed ==
    ASSUME NEW l, NEW o, NEW o2, NEW s, Agrees(l, o, s), o \subseteq o2
    PROVE  Agrees(l, o2, s)
  BY DEF Agrees

LEMMA CopiesPop ==
    ASSUME TypeInv, CopiesInv, ChangeDone \/ ChangeRefused
    PROVE  CopiesInv'
<1>1. MemoryInv /\ FlashInv /\ FileInv /\ WrittenInv /\ ArrivedInv
  BY DEF CopiesInv
<1>2. queue \in Seq(Change) /\ queue # <<>> /\ request = queue[1]
  BY DEF TypeInv, TypeOK, ChangeDone, ChangeRefused
<1>3. /\ queue' = Popped(queue) /\ dirty' = (dirty \/ queue' # queue) /\ file' = file
      /\ UNCHANGED <<sheet, writer, unbumped, items, current, unsaved, saved, astraySaved>>
      /\ op = "Change" /\ net = "answered" /\ net' = "idle" /\ phase' # "backend"
  BY DEF ChangeDone, ChangeRefused, ChangeInMemory, FreeSlot, Turn, productsVars, catalogVars,
         historyVars
<1>4. Pending(queue) = Pending(queue') \cup {request.beer}
  BY <1>2, <1>3, PendingShape
<1>5. WrittenInv' /\ ArrivedInv'
  <2>1. writer' # "ours"
    BY <1>1, <1>3 DEF WrittenInv
  <2> QED BY <1>3, <2>1, NoAnswer
<1>6. ~dirty' => file' = queue'
  BY <1>1, <1>3 DEF FileInv
<1>7. CASE ChangeDone
  <2>1. astray' = astray /\ ~current /\ request.beer \in Beers(sheet)
    BY <1>1, <1>7 DEF ChangeDone, WrittenInv, historyVars
  <2>2. MemoryInv'
    BY <1>1, <1>3, <1>4, <2>1, Widened DEF MemoryInv, Fits
  <2>3. FlashInv'
    BY <1>1, <1>3, <2>1 DEF FlashInv, Fits
  <2>4. FileInv'
    BY <1>1, <1>3, <1>4, <1>6, <2>1 DEF FileInv
  <2> QED BY <1>5, <2>2, <2>3, <2>4 DEF CopiesInv
<1>8. CASE ChangeRefused
  <2>1. astray' = astray \cup {request.beer}
    BY <1>8 DEF ChangeRefused
  <2>2. MemoryInv'
    <3>1. astray' \cup Pending(queue') = astray \cup Pending(queue) /\ astray' # {}
      BY <1>4, <2>1
    <3> QED BY <1>1, <1>3, <3>1 DEF MemoryInv, Settled
  <2>3. FlashInv'
    <3>1. astray \cup astraySaved \cup Pending(file) \subseteq astray' \cup astraySaved' \cup Pending(file')
      BY <1>3, <2>1
    <3>2. Listed(saved.items, astray' \cup astraySaved' \cup Pending(file'), sheet)
      BY <1>1, <3>1, Widened DEF FlashInv
    <3>3. saved.current /\ Settled =>
            Agrees(saved.items, astray' \cup astraySaved' \cup Pending(file'), sheet)
      BY <1>1, <3>1, FewerClaimed DEF FlashInv
    <3> QED BY <1>1, <1>3, <3>2, <3>3 DEF FlashInv, Settled, Fits
  <2>4. FileInv'
    BY <1>1, <1>3, <1>4, <1>6, <2>1 DEF FileInv
  <2> QED BY <1>5, <2>2, <2>3, <2>4 DEF CopiesInv
<1> QED BY <1>7, <1>8

LEMMA CopiesSync == ASSUME TypeInv, CopiesInv, SyncApplied PROVE CopiesInv'
<1> DEFINE list == synced.list
           left == {b \in astray : RowsOf(list, b) = {}}
<1>1. MemoryInv /\ FlashInv /\ FileInv /\ WrittenInv /\ ArrivedInv
  BY DEF CopiesInv
<1>2. /\ items \in Seq(Product) /\ list \in Seq(Product) /\ sheet \in Seq(Product)
      /\ Len(list) <= MaxProducts
  <2>1. /\ items \in Seq(Product) /\ sheet \in Seq(Product)
        /\ synced \in [list : Seq(Product), current : BOOLEAN]
    BY DEF TypeInv, TypeOK, CatalogTypeOK, ProductsTypeOK
  <2>2. Len(list) \in Nat /\ ~(Len(list) > MaxProducts)
    BY <2>1, ListShape DEF SyncApplied, TooManyItems
  <2> QED BY <2>1, <2>2, MaxProductsAssumption
<1>3. /\ queue = <<>> /\ file = <<>> /\ Pending(queue) = {} /\ Pending(file) = {}
      /\ UNCHANGED <<queue, file, dirty, sheet, writer, unbumped, saved, astraySaved>>
      /\ astray' = left /\ unsaved' = TRUE /\ current' = synced.current
      /\ op = "Sync" /\ net' = "idle" /\ phase' # "backend"
  BY <1>1 DEF SyncApplied, HasProductChanges, FileInv, ReplaceAll, FreeSlot, Turn, queueVars,
              productsVars, Pending
<1>4. /\ ~current /\ Beers(list) \subseteq Beers(sheet) /\ Fits(list)
      /\ synced.current /\ Settled => list = Served(sheet)
      /\ Listed(items, astray, list)
  BY <1>1, <1>3 DEF SyncApplied, ArrivedInv, Arrived
<1>5. ReplaceAll(list, synced.current)
  BY DEF SyncApplied
<1> HIDE DEF list
<1>6. /\ Beers(items') \subseteq Beers(list) \cup left
      /\ \A b : b \notin left => SameRows(items', list, b)
      /\ left = {} => items' = list
  BY <1>2, <1>4, <1>5, Installed
<1>7. astray \subseteq left \cup Beers(sheet)
  BY <1>4, RowsTell
<1> HIDE DEF left
<1>8. MemoryInv'
  <2>1. Listed(items', astray' \cup Pending(queue'), sheet')
    BY <1>3, <1>4, <1>6 DEF Listed
  <2>2. ASSUME current', Settled'
        PROVE  Agrees(items', astray' \cup Pending(queue'), sheet')
    <3>1. list = Served(sheet) /\ \A b : RowsOf(list, b) = RowsOf(sheet, b)
      <4>1. synced.current /\ Settled
        BY <1>3, <2>2 DEF Settled
      <4> QED BY <1>2, <1>4, <4>1, ServedRows
    <3>2. SUFFICES ASSUME NEW b, b \notin left PROVE SameIn(items', sheet, b)
      BY <1>3 DEF Agrees
    <3>3. SameRows(items', list, b)
      BY <1>6, <3>2
    <3> QED BY <3>1, <3>3 DEF SameRows, SameIn
  <2>3. astray' = {} => Fits(items')
    BY <1>3, <1>4, <1>6
  <2> QED BY <2>1, <2>2, <2>3 DEF MemoryInv, Fits
<1>9. FlashInv'
  <2>1. Listed(saved.items, left \cup astraySaved \cup Pending(file), sheet)
    BY <1>1, <1>7, Widened DEF FlashInv
  <2>2. ~saved.current
    BY <1>1, <1>4 DEF FlashInv
  <2> QED BY <1>1, <1>3, <2>1, <2>2 DEF FlashInv, Fits
<1>10. FileInv'
  BY <1>3 DEF FileInv
<1>11. WrittenInv' /\ ArrivedInv'
  <2>1. writer' # "ours"
    BY <1>1, <1>3 DEF WrittenInv
  <2> QED BY <1>3, <2>1, NoAnswer
<1> QED BY <1>8, <1>9, <1>10, <1>11 DEF CopiesInv

LEMMA CopiesEdit == ASSUME TypeInv, CopiesInv, EditAtFridge PROVE CopiesInv'
<1>1. MemoryInv /\ FlashInv /\ FileInv /\ WrittenInv /\ ArrivedInv
  BY DEF CopiesInv
<1>2. phase' # "backend" /\ UNCHANGED <<sheet, writer, unbumped>>
  BY DEF EditAtFridge, ConfirmArchive, ConfirmPrice, TapRestore, ConfirmNewProduct, UiTurn, Turn,
         productsVars
<1>3. CASE UNCHANGED <<slotVars, historyVars, catalogVars, queueVars>>
  <2>1. UNCHANGED listVars /\ UNCHANGED <<slotVars, sheet, writer, unbumped, items, current, queue, astray>>
    BY <1>2, <1>3 DEF listVars, historyVars, catalogVars, queueVars
  <2>2. Settled' => Settled
    BY <1>2 DEF Settled
  <2> QED BY <1>1, <1>2, <2>1, <2>2, CopiesKeep, SlotKeeps DEF CopiesInv
<1>4. ASSUME NEW c, EditOf(c), QueueProductEntry(c) PROVE CopiesInv'
  <2>1. /\ c \in Change /\ UNCHANGED <<current, saved>>
        /\ unsaved' \/ UNCHANGED <<items, unsaved>>
        /\ Fits(items) => Fits(items')
    BY <1>4 DEF EditOf, Fits
  <2>2. /\ Beers(items') \subseteq Beers(items) \cup {c.beer}
        /\ \A s, b : b # c.beer /\ SameIn(items, s, b) => SameIn(items', s, b)
    BY <1>4, EditBeers
  <2>3. ASSUME NEW o, NEW o2, o \cup {c.beer} \subseteq o2
        PROVE  /\ \A s : Listed(items, o, s) => Listed(items', o2, s)
               /\ \A s : Agrees(items, o, s) => Agrees(items', o2, s)
    BY <2>2, <2>3 DEF Listed, Agrees
  <2>4. ~unsaved' => saved'.items = items' /\ saved'.current = current'
    BY <1>1, <2>1 DEF FlashInv
  <2>5. CASE NotEntered(c)
    <3>1. UNCHANGED <<slotVars, queue, dirty, file, astraySaved>> /\ astray' = astray \cup {c.beer}
      BY <2>5 DEF NotEntered, queueVars
    <3>2. MemoryInv'
      <4> DEFINE o == astray \cup Pending(queue)
                 o2 == astray' \cup Pending(queue')
      <4>1. o \cup {c.beer} \subseteq o2 /\ astray' # {}
        BY <3>1
      <4> HIDE DEF o, o2
      <4>2. Listed(items', o2, sheet) /\ (Agrees(items, o, sheet) => Agrees(items', o2, sheet))
        BY <1>1, <2>3, <4>1 DEF MemoryInv, o
      <4> QED BY <1>1, <1>2, <2>1, <4>1, <4>2 DEF MemoryInv, Settled, o, o2
    <3>3. FlashInv'
      <4> DEFINE o == astray \cup astraySaved \cup Pending(file)
                 o2 == astray' \cup astraySaved' \cup Pending(file')
      <4>1. o \subseteq o2
        BY <3>1
      <4> HIDE DEF o, o2
      <4>2. /\ Listed(saved.items, o2, sheet)
            /\ Agrees(saved.items, o, sheet) => Agrees(saved.items, o2, sheet)
        BY <1>1, <4>1, Widened, FewerClaimed DEF FlashInv, o
      <4> QED BY <1>1, <1>2, <2>1, <2>4, <3>1, <4>2 DEF FlashInv, Settled, Fits, o, o2
    <3>4. FileInv'
      BY <1>1, <1>2, <2>1, <3>1 DEF FileInv
    <3>5. WrittenInv'
      BY <1>1, <1>2, <2>1, <3>1 DEF WrittenInv, slotVars
    <3>6. ArrivedInv'
      <4>1. Listed(items, astray, synced.list) => Listed(items', astray', synced.list)
        BY <2>3, <3>1
      <4> QED BY <1>1, <1>2, <2>1, <3>1, <4>1 DEF ArrivedInv, Settled, Arrived, Fits, slotVars
    <3> QED BY <3>2, <3>3, <3>4, <3>5, <3>6 DEF CopiesInv
  <2>6. CASE Entered(c)
    <3>1. /\ queue' = Append(queue, c) /\ file' = queue' /\ UNCHANGED <<astray, astraySaved>>
          /\ queue' # <<>> /\ queue \in Seq(Change)
          /\ IF op = "None" THEN op' = "Change" /\ net' = "waiting" ELSE UNCHANGED slotVars
      <4>1. queue \in Seq(Change)
        BY DEF TypeInv, TypeOK
      <4> QED BY <2>1, <2>6, <4>1, AppendShape DEF Entered, Start
    <3>2. Pending(queue') = Pending(queue) \cup {c.beer}
      BY <2>1, <3>1, PendingShape
    <3>3. MemoryInv'
      <4> DEFINE o == astray \cup Pending(queue)
                 o2 == astray' \cup Pending(queue')
      <4>1. o \cup {c.beer} \subseteq o2
        BY <3>1, <3>2
      <4> HIDE DEF o, o2
      <4>2. Listed(items', o2, sheet) /\ (Agrees(items, o, sheet) => Agrees(items', o2, sheet))
        BY <1>1, <2>3, <4>1 DEF MemoryInv, o
      <4> QED BY <1>1, <1>2, <2>1, <3>1, <4>2 DEF MemoryInv, Settled, o, o2
    <3>4. FlashInv'
      <4> DEFINE o == astray \cup astraySaved \cup Pending(file)
                 o2 == astray' \cup astraySaved' \cup Pending(file')
      <4>1. o \subseteq o2 \cup Beers(sheet) /\ (current => o \subseteq o2)
        BY <1>1, <3>1, <3>2 DEF FileInv
      <4> HIDE DEF o, o2
      <4>2. /\ Listed(saved.items, o2, sheet)
            /\ saved.current /\ Agrees(saved.items, o, sheet) => Agrees(saved.items, o2, sheet)
        BY <1>1, <4>1, Widened, FewerClaimed DEF FlashInv, o
      <4> QED BY <1>1, <1>2, <2>1, <2>4, <3>1, <4>2 DEF FlashInv, Settled, Fits, o, o2
    <3>5. FileInv'
      BY <3>1 DEF FileInv
    <3>6. WrittenInv' /\ ArrivedInv'
      <4>1. CASE op = "None"
        BY <1>1, <1>2, <3>1, <4>1, NoAnswer DEF WrittenInv
      <4>2. CASE op # "None"
        BY <1>1, <1>2, <2>1, <3>1, <4>2 DEF WrittenInv, ArrivedInv, Settled, Arrived, Fits, slotVars
      <4> QED BY <4>1, <4>2
    <3> QED BY <3>3, <3>4, <3>5, <3>6 DEF CopiesInv
  <2> QED BY <1>4, <2>1, <2>5, <2>6, EntryCases, TypeParts
<1> QED BY <1>3, <1>4, EditEffect

LEMMA CopiesHandlers ==
    ASSUME TypeInv, CopiesInv, ChangeWritten \/ ChangedElsewhere \/ ExecutedLate \/ HandlerEnds
    PROVE  CopiesInv'
<1>1. MemoryInv /\ FlashInv /\ FileInv /\ WrittenInv /\ ArrivedInv
  BY DEF CopiesInv
<1>2. CASE ChangeWritten \/ ChangedElsewhere \/ ExecutedLate
  <2>1. /\ UNCHANGED <<phase, slotVars, items, current, unsaved, saved, queue, dirty, file, astray,
                       astraySaved>>
        /\ writer' \in {"ours", "other"}
        /\ writer' = "ours" => op = "Change" /\ net = "sent" /\ Writes(request)
    BY <1>2 DEF ChangeWritten, ChangedElsewhere, ExecutedLate, catalogVars, queueVars
  <2>2. PICK c \in Change : Writes(c) /\ (writer' = "ours" => c = request)
    <3>1. ChangeWritten => request \in Change
      BY TypeParts, PendingShape DEF ChangeWritten, SlotTypes, QueueTypes
    <3>2. ChangedElsewhere \/ ExecutedLate => writer' = "other"
      BY DEF ChangedElsewhere, ExecutedLate
    <3>3. late \subseteq Change
      BY DEF TypeInv, TypeOK, ProductsTypeOK
    <3> QED BY <1>2, <3>1, <3>2, <3>3 DEF ChangeWritten, ChangedElsewhere, ExecutedLate
  <2>3. Beers(sheet) \cup {c.beer} \subseteq Beers(sheet')
    BY <2>2, SheetBeers DEF TypeInv, TypeOK, ProductsTypeOK
  <2>4. MemoryInv'
    BY <1>1, <2>1, <2>3, Widened DEF MemoryInv, Settled, Fits
  <2>5. FlashInv'
    BY <1>1, <2>1, <2>3, Widened DEF FlashInv, Settled, Fits
  <2>6. FileInv'
    BY <1>1, <2>1, <2>3 DEF FileInv
  <2>7. WrittenInv'
    BY <1>1, <2>1, <2>2, <2>3 DEF WrittenInv, slotVars
  <2>8. ArrivedInv'
    BY <1>1, <2>1, <2>3 DEF ArrivedInv, Settled, Arrived, Fits, slotVars
  <2> QED BY <2>4, <2>5, <2>6, <2>7, <2>8 DEF CopiesInv
<1>3. CASE HandlerEnds
  <2>1. /\ UNCHANGED <<phase, op, request, sheet, items, unsaved, queue, dirty, file, astray,
                       astraySaved>>
        /\ current' = FALSE /\ saved' = [saved EXCEPT !.current = FALSE]
        /\ synced' = [synced EXCEPT !.current = FALSE]
        /\ writer' = "none"
        /\ IF writer = "ours" THEN net' = "answered" /\ answer' = "ok"
                              ELSE UNCHANGED <<net, answer>>
    BY <1>3 DEF HandlerEnds, Release, BumpRevision, queueVars, historyVars
  <2>2. /\ saved'.items = saved.items /\ saved'.current = FALSE
        /\ synced'.list = synced.list /\ synced'.current = FALSE
    BY <2>1 DEF TypeInv, TypeOK, CatalogTypeOK
  <2>3. MemoryInv'
    BY <1>1, <2>1 DEF MemoryInv, Fits
  <2>4. FlashInv'
    <3>1. ~unsaved => saved'.items = items' /\ saved'.current = current'
      BY <1>1, <2>1, <2>2 DEF FlashInv
    <3> QED BY <1>1, <2>1, <2>2, <3>1 DEF FlashInv, Fits
  <2>5. FileInv'
    BY <1>1, <2>1 DEF FileInv
  <2>6. WrittenInv'
    BY <1>1, <2>1 DEF WrittenInv
  <2>7. ArrivedInv'
    BY <1>1, <2>1, <2>2 DEF ArrivedInv, WrittenInv, Arrived, Fits
  <2> QED BY <2>3, <2>4, <2>5, <2>6, <2>7 DEF CopiesInv
<1> QED BY <1>2, <1>3

LEMMA CopiesSave ==
    ASSUME TypeInv, CopiesInv, SaveCatalog \/ SaveQueue \/ PowerCut
    PROVE  CopiesInv'
<1>1. MemoryInv /\ FlashInv /\ FileInv /\ WrittenInv /\ ArrivedInv
  BY DEF CopiesInv
<1>2. CASE SaveCatalog
  <2>1. /\ UNCHANGED <<slotVars, sheet, writer, unbumped, items, current, queue, dirty, file,
                       astray>>
        /\ astraySaved' = astray /\ unsaved' = FALSE /\ phase' # "backend"
        /\ saved' = IF unsaved THEN [items |-> items, current |-> current] ELSE saved
    BY <1>2 DEF SaveCatalog, FlushCatalog, Turn, productsVars, queueVars
  <2>2. saved'.items = items /\ saved'.current = current
    <3>1. CASE unsaved
      BY <2>1, <3>1
    <3>2. CASE ~unsaved
      BY <1>1, <2>1, <3>2 DEF FlashInv
    <3> QED BY <3>1, <3>2
  <2>3. MemoryInv'
    BY <1>1, <2>1 DEF MemoryInv, Settled, Fits
  <2>4. FlashInv'
    <3> DEFINE o == astray \cup Pending(queue)
               o2 == astray' \cup astraySaved' \cup Pending(file')
    <3>1. o \subseteq o2
      BY <1>1, <2>1 DEF FileInv
    <3> HIDE DEF o, o2
    <3>2. /\ Listed(items, o2, sheet)
          /\ Agrees(items, o, sheet) => Agrees(items, o2, sheet)
      BY <1>1, <3>1, Widened, FewerClaimed DEF MemoryInv, o
    <3> QED BY <1>1, <2>1, <2>2, <3>2 DEF MemoryInv, Settled, FlashInv, Fits, o, o2
  <2>5. FileInv'
    BY <1>1, <2>1 DEF FileInv
  <2> QED BY <1>1, <2>1, <2>3, <2>4, <2>5, SlotKeeps DEF CopiesInv
<1>3. CASE SaveQueue
  <2>1. /\ UNCHANGED <<slotVars, sheet, writer, unbumped, items, current, unsaved, saved, queue,
                       astray, astraySaved>>
        /\ file' = queue
    <3>1. CASE dirty
      BY <1>3, <3>1 DEF SaveQueue, Store, Flush, historyVars, productsVars, catalogVars
    <3>2. CASE ~dirty
      BY <1>1, <1>3, <3>2 DEF SaveQueue, FileInv, historyVars, productsVars, catalogVars, queueVars
    <3> QED BY <3>1, <3>2
  <2>2. MemoryInv'
    BY <1>1, <2>1 DEF MemoryInv, Settled, Fits
  <2>3. FlashInv'
    <3> DEFINE o == astray \cup astraySaved \cup Pending(file)
               o2 == astray' \cup astraySaved' \cup Pending(file')
    <3>1. o \subseteq o2 \cup Beers(sheet) /\ (current => o \subseteq o2)
      BY <1>1, <2>1 DEF FileInv
    <3> HIDE DEF o, o2
    <3>2. /\ Listed(saved.items, o2, sheet)
          /\ saved.current /\ Agrees(saved.items, o, sheet) => Agrees(saved.items, o2, sheet)
      BY <1>1, <3>1, Widened, FewerClaimed DEF FlashInv, o
    <3> QED BY <1>1, <2>1, <3>2 DEF FlashInv, Settled, Fits, o, o2
  <2>4. FileInv'
    BY <1>1, <2>1 DEF FileInv
  <2> QED BY <1>1, <2>1, <2>2, <2>3, <2>4, SlotKeeps DEF CopiesInv
<1>4. CASE PowerCut
  <2>1. /\ UNCHANGED <<sheet, unbumped, saved, file, astraySaved>>
        /\ items' = saved.items /\ current' = saved.current /\ unsaved' = FALSE
        /\ queue' = file /\ astray' = astray \cup astraySaved
        /\ net' = "waiting" /\ writer' # "ours" /\ (writer' = "none" => writer = "none")
    BY <1>4 DEF PowerCut, LoadCatalog, LoadQueue, Start, GivenUp
  <2>2. /\ astray' \cup Pending(queue') = astray \cup astraySaved \cup Pending(file)
        /\ astray' \cup astraySaved' \cup Pending(file') = astray \cup astraySaved \cup Pending(file)
    BY <2>1
  <2>3. MemoryInv'
    BY <1>1, <2>1, <2>2 DEF MemoryInv, Settled, FlashInv, Fits
  <2>4. FlashInv'
    BY <1>1, <2>1, <2>2 DEF FlashInv, Settled, Fits
  <2>5. FileInv'
    BY <2>1 DEF FileInv
  <2> QED BY <2>1, <2>3, <2>4, <2>5, NoAnswer DEF CopiesInv
<1> QED BY <1>2, <1>3, <1>4

LEMMA CopiesStep == ASSUME TypeInv, CopiesInv, [Next]_vars PROVE CopiesInv'
  BY CopiesQuiet, CopiesPop, CopiesSync, CopiesEdit, CopiesHandlers, CopiesSave
     DEF Next, Step, Event, BackendUpdate, UiStep, Handlers

LEMMA CopiesHold == Spec => [](TypeInv /\ CopiesInv)
  BY TypeInit, TypeStep, CopiesInit, CopiesStep, PTL DEF Spec

\* Equal revisions mean equal catalogs: what replace_all(), the edits at the
\* fridge, flush() and begin() (product_catalog.cpp) make of the list, together
\* with bumpRevision_() after every handler's row, leaves a terminal whose
\* revision is the backend's with what handleSync_() would send it.
THEOREM RevisionCorrect == Spec => []RevisionTells
<1>1. TypeInv /\ CopiesInv => RevisionTells
  <2> SUFFICES ASSUME CopiesInv, current, queue = <<>>, writer = "none", ~unbumped,
                      NEW b \in Beer \ astray
               PROVE  Same(b)
    BY DEF RevisionTells
  <2>1. Pending(queue) = {}
    BY DEF Pending
  <2> QED BY <2>1 DEF CopiesInv, MemoryInv, Settled, Agrees, SameIn, Same
<1> QED BY <1>1, CopiesHold, PTL

\* The grid has a place for every active beer, so long as no change made at the
\* fridge was lost: can_restore() (product_catalog.cpp) keeps the terminal's own
\* edits within it, and handleSync_() everybody else's.
THEOREM ShelfCorrect == Spec => []ShelfFits
<1>1. CopiesInv => ShelfFits
  BY DEF CopiesInv, MemoryInv, ShelfFits, Fits
<1> QED BY <1>1, CopiesHold, PTL

----------------------------------------------------------------------------
(* What the household said last *)

\* Entry i of the queue is the last that puts its beer on or off the shelf.
LastSaid(q, i) ==
    /\ q[i].kind # "price"
    /\ \A j \in DOMAIN q : j > i /\ q[j].beer = q[i].beer => q[j].kind = "price"

\* The wishes w are not against the last word of the queue.
Speaks(q, w) == \A i \in DOMAIN q : LastSaid(q, i) => w[q[i].beer] \in {Nothing, Says(q[i])}

\* The sheet s has every beer as wished that the queue does not speak of any more.
Kept(w, q, f, s) ==
    \A b \in Beer : w[b] # Nothing =>
        \/ Unwritten(q, b, f)
        \/ Fits(s) /\ b \in Beers(s) /\ ShowsWish(s, b, w[b])

WishInv ==
    /\ Speaks(queue, wish) /\ Speaks(file, wish)
    /\ \A i \in DOMAIN queue : \E j \in DOMAIN file : file[j] = queue[i]
    /\ Kept(wish, queue, FirstUnwritten, sheet)
    /\ Arrived /\ queue = <<>> =>
          \A b \in Beer : wish[b] # Nothing =>
             b \in Beers(synced.list) /\ ShowsWish(synced.list, b, wish[b])

\* Some wishes may have been given up.
Softer(w2, w) == \A b \in Beer : w2[b] = Nothing \/ w2[b] = w[b]

LEMMA SpeaksSofter ==
    ASSUME NEW q \in Seq(Change), NEW w, NEW w2, Speaks(q, w), Softer(w2, w)
    PROVE  Speaks(q, w2)
<1>1. \A i \in DOMAIN q : q[i].beer \in Beer
  BY ListShape DEF Change
<1> QED BY <1>1 DEF Speaks, Softer

LEMMA KeptSofter ==
    ASSUME NEW q \in Seq(Change), NEW w, NEW w2, NEW s, NEW f \in Nat, NEW f2 \in Nat,
           Kept(w, q, f, s), Softer(w2, w), f2 <= f
    PROVE  Kept(w2, q, f2, s)
<1>1. \A b : Unwritten(q, b, f) => Unwritten(q, b, f2)
  <2>1. DOMAIN q \subseteq Nat
    BY ListShape
  <2> QED BY <2>1 DEF Unwritten
<1> QED BY <1>1 DEF Kept, Softer

LEMMA FirstIs == FirstUnwritten \in {1, 2} /\ FirstUnwritten' \in {1, 2}
                 /\ ((HeadWritten' => HeadWritten) => FirstUnwritten' <= FirstUnwritten)
  BY DEF FirstUnwritten

\* Steps that leave the queue and the sheet alone.
LEMMA WishQuiet ==
    ASSUME TypeInv, WishInv, UNCHANGED <<queue, sheet>>, file' \in {file, queue},
           Softer(wish', wish), HeadWritten' => HeadWritten,
           Arrived' => Arrived /\ synced'.list = synced.list
    PROVE  WishInv'
<1>1. queue \in Seq(Change) /\ file \in Seq(Change)
  BY DEF TypeInv, TypeOK
<1>2. Speaks(queue', wish') /\ Speaks(file', wish')
  BY <1>1, SpeaksSofter DEF WishInv
<1>3. \A i \in DOMAIN queue' : \E j \in DOMAIN file' : file'[j] = queue'[i]
  BY DEF WishInv
<1>4. Kept(wish', queue', FirstUnwritten', sheet')
  <2>1. FirstUnwritten \in Nat /\ FirstUnwritten' \in Nat /\ FirstUnwritten' <= FirstUnwritten
    BY FirstIs
  <2> QED BY <1>1, <2>1, KeptSofter DEF WishInv
<1>5. Arrived' /\ queue' = <<>> =>
        \A b \in Beer : wish'[b] # Nothing =>
          b \in Beers(synced'.list) /\ ShowsWish(synced'.list, b, wish'[b])
  BY DEF WishInv, Softer
<1> QED BY <1>2, <1>3, <1>4, <1>5 DEF WishInv

LEMMA WishInit == Init => WishInv
<1> SUFFICES ASSUME Init PROVE WishInv
  OBVIOUS
<1>1. queue = <<>> /\ file = <<>> /\ wish = [b \in Beer |-> Nothing] /\ net = "waiting"
  BY DEF Init, QueueInit
<1> QED BY <1>1 DEF WishInv, Speaks, Kept, Arrived

\* The last word of a list that loses its head or gets a new entry at the end.
LEMMA SpeaksPopped ==
    ASSUME NEW q \in Seq(Change), q # <<>>, NEW w, Speaks(q, w)
    PROVE  Speaks(Popped(q), w)
<1> SUFFICES ASSUME NEW i \in DOMAIN Popped(q), LastSaid(Popped(q), i)
             PROVE  w[Popped(q)[i].beer] \in {Nothing, Says(Popped(q)[i])}
  BY DEF Speaks
<1>1. /\ i + 1 \in DOMAIN q /\ Popped(q)[i] = q[i + 1] /\ i \in Nat /\ DOMAIN q \subseteq Nat
      /\ \A j \in DOMAIN q : j = 1 \/ (j - 1 \in DOMAIN Popped(q) /\ q[j] = Popped(q)[j - 1])
  <2>1. Popped(q) \in Seq(Change)
    BY PoppedProperties
  <2>2. DOMAIN Popped(q) \subseteq Nat \ {0} /\ DOMAIN q \subseteq Nat
    BY <2>1, ListShape
  <2> QED BY <2>2, PoppedProperties
<1>2. i # 0
  <2>1. Popped(q) \in Seq(Change)
    BY PoppedProperties
  <2> QED BY <2>1, ListShape
<1>3. LastSaid(q, i + 1)
  <2> SUFFICES ASSUME NEW j \in DOMAIN q, j > i + 1, q[j].beer = q[i + 1].beer
               PROVE  q[j].kind = "price"
    BY <1>1 DEF LastSaid
  <2>1. j # 1 /\ j - 1 > i
    BY <1>1, <1>2
  <2> QED BY <1>1, <2>1 DEF LastSaid
<1> QED BY <1>1, <1>3 DEF Speaks

LEMMA AppendChange ==
    ASSUME NEW q \in Seq(Change), NEW c \in Change
    PROVE  /\ DOMAIN Append(q, c) = DOMAIN q \cup {Len(q) + 1} /\ Len(q) + 1 \notin DOMAIN q
           /\ Append(q, c)[Len(q) + 1] = c /\ Len(q) + 1 \in Nat
           /\ \A i \in DOMAIN q : /\ Append(q, c)[i] = q[i] /\ i \in Nat /\ i < Len(q) + 1
                                  /\ q[i] \in Change /\ q[i].beer \in Beer
<1>1. Len(q) \in Nat /\ DOMAIN q = 1 .. Len(q) /\ \A i \in DOMAIN q : q[i] \in Change
  BY ListShape
<1>2. \A e \in Change : e.beer \in Beer
  BY DEF Change
<1>3. \A i \in DOMAIN q : i \in Nat /\ i < Len(q) + 1
  BY <1>1
<1>4. /\ DOMAIN Append(q, c) = DOMAIN q \cup {Len(q) + 1} /\ Len(q) + 1 \notin DOMAIN q
      /\ Append(q, c)[Len(q) + 1] = c
      /\ \A i \in DOMAIN q : Append(q, c)[i] = q[i]
  BY AppendShape
<1> QED BY <1>1, <1>2, <1>3, <1>4

LEMMA SpeaksAppended ==
    ASSUME NEW q \in Seq(Change), NEW c \in Change, NEW w, NEW w2, Speaks(q, w),
           \A b \in Beer : w2[b] = IF c.kind # "price" /\ b = c.beer THEN Says(c) ELSE w[b]
    PROVE  Speaks(Append(q, c), w2)
<1> DEFINE q2 == Append(q, c)
           n == Len(q) + 1
<1>1. /\ DOMAIN q2 = DOMAIN q \cup {n} /\ n \notin DOMAIN q /\ q2[n] = c
      /\ \A i \in DOMAIN q : q2[i] = q[i] /\ i < n /\ q[i].beer \in Beer
  BY AppendChange
<1>2. c.beer \in Beer
  BY DEF Change
<1> HIDE DEF q2, n
<1> SUFFICES ASSUME NEW i \in DOMAIN q2, LastSaid(q2, i)
             PROVE  w2[q2[i].beer] \in {Nothing, Says(q2[i])}
  BY DEF Speaks, q2
<1>3. CASE i = n
  BY <1>1, <1>2, <1>3 DEF LastSaid
<1>4. CASE i # n
  <2>1. i \in DOMAIN q /\ i < n /\ q2[i] = q[i] /\ n \in DOMAIN q2
    BY <1>1, <1>4
  <2>2. LastSaid(q, i)
    BY <1>1, <2>1 DEF LastSaid
  <2>3. w[q[i].beer] \in {Nothing, Says(q[i])}
    BY <2>1, <2>2 DEF Speaks
  <2>4. c.kind = "price" \/ c.beer # q[i].beer
    <3>1. n > i
      BY <2>1, AppendChange DEF n
    <3> QED BY <1>1, <2>1, <3>1 DEF LastSaid
  <2>5. w2[q[i].beer] = w[q[i].beer]
    BY <1>1, <1>2, <2>1, <2>4
  <2> QED BY <2>1, <2>3, <2>5
<1> QED BY <1>3, <1>4

LEMMA ShowsSame ==
    ASSUME NEW l, NEW l2, NEW b, NEW w, SameRows(l2, l, b), ShowsWish(l, b, w)
    PROVE  ShowsWish(l2, b, w)
  BY DEF SameRows, ShowsWish, Shows

\* What a handler's row shows of its beer.
LEMMA SheetShows ==
    ASSUME sheet \in Seq(Product), NEW c \in Change, Writes(c)
    PROVE  /\ c.kind # "price" => ShowsWish(sheet', c.beer, Says(c))
           /\ \A w : c.beer \in Beers(sheet) /\ ShowsWish(sheet, c.beer, w) /\ c.kind = "price"
                => ShowsWish(sheet', c.beer, w)
<1>1. PICK r : RowFor(c, r) /\ (Appends(c, r) \/ \E k : Overwrites(c, r, k))
  BY WritesARow
<1>2. /\ r \in Product /\ r.beer = c.beer
      /\ c.kind # "price" => Says(c) = IF r.active THEN "on shelf" ELSE "off shelf"
  <2>1. c.kind \in {"archive", "restore", "create", "price"}
    BY DEF Change
  <2> QED BY <1>1, <2>1 DEF RowFor, Says
<1>3. CASE Appends(c, r)
  <2>1. /\ DOMAIN sheet' = DOMAIN sheet \cup {Len(sheet) + 1} /\ Len(sheet) + 1 \notin DOMAIN sheet
        /\ \A i \in DOMAIN sheet : sheet'[i] = sheet[i]
        /\ sheet'[Len(sheet) + 1] = r
    <3>1. r \in Product /\ sheet' = Append(sheet, r)
      BY <1>2, <1>3 DEF Appends
    <3> QED BY <3>1, AppendShape
  <2>2. c.beer \notin Beers(sheet)
    BY <1>3, RowsTell DEF Appends, Known
  <2>3. \A i \in DOMAIN sheet : sheet[i].beer # c.beer
    BY <2>2 DEF Beers
  <2>4. RowsOf(sheet', c.beer) \subseteq {Len(sheet) + 1}
    BY <2>1, <2>3 DEF RowsOf
  <2>5. c.kind # "price" => Shows(sheet', Len(sheet) + 1) = Says(c)
    BY <1>2, <2>1 DEF Shows
  <2>6. c.kind # "price" => ShowsWish(sheet', c.beer, Says(c))
    BY <2>4, <2>5 DEF ShowsWish
  <2> QED BY <2>2, <2>6
<1>4. ASSUME NEW k, Overwrites(c, r, k)
      PROVE  /\ c.kind # "price" => ShowsWish(sheet', c.beer, Says(c))
             /\ \A w : ShowsWish(sheet, c.beer, w) /\ c.kind = "price"
                  => ShowsWish(sheet', c.beer, w)
  <2>1. k \in DOMAIN sheet /\ sheet[k].beer = c.beer /\ k \in RowsOf(sheet, c.beer)
    BY <1>4 DEF Overwrites, RowsOf
  <2>2. DOMAIN sheet' = DOMAIN sheet /\ \A i \in DOMAIN sheet : sheet'[i] = IF i = k THEN r ELSE sheet[i]
    BY <1>4, <2>1 DEF Overwrites
  <2>3. RowsOf(sheet', c.beer) = RowsOf(sheet, c.beer)
    BY <1>2, <2>1, <2>2 DEF RowsOf
  <2>4. c.kind # "price" => Shows(sheet', k) = Says(c)
    BY <1>2, <2>1, <2>2 DEF Shows
  <2>5. c.kind = "price" => Shows(sheet', k) = Shows(sheet, k)
    BY <1>4, <2>1, <2>2 DEF Shows, Overwrites
  <2> QED BY <2>1, <2>3, <2>4, <2>5 DEF ShowsWish
<1> QED BY <1>1, <1>3, <1>4

LEMMA TrimmedWish ==
    ASSUME NEW w, wish' = Trimmed(w), sheet' \in Seq(Product)
    PROVE  \A b \in Beer : wish'[b] = Nothing \/ (wish'[b] = w[b] /\ Fits(sheet'))
<1>1. CASE Cardinality(ActiveRows(sheet')) > MaxActive
  BY <1>1 DEF Trimmed
<1>2. CASE ~(Cardinality(ActiveRows(sheet')) > MaxActive)
  <2>1. Fits(sheet')
    BY <1>2, ActiveShape, MaxActiveAssumption DEF Fits
  <2> QED BY <1>2, <2>1 DEF Trimmed
<1> QED BY <1>1, <1>2

LEMMA WishPop ==
    ASSUME TypeInv, CopiesInv, WishInv, ChangeDone \/ ChangeRefused
    PROVE  WishInv'
<1>1. queue \in Seq(Change) /\ file \in Seq(Change) /\ queue # <<>> /\ request = queue[1]
  BY DEF TypeInv, TypeOK, ChangeDone, ChangeRefused
<1>2. /\ queue' = Popped(queue) /\ UNCHANGED <<file, items, sheet>>
      /\ op' = "None"
      /\ \/ HeadWritten /\ wish' = wish
         \/ wish' = [wish EXCEPT ![request.beer] = Nothing]
  BY DEF ChangeDone, ChangeRefused, ChangeInMemory, FreeSlot, productsVars, catalogVars,
         historyVars, screenVars, HeadWritten
<1>3. /\ Softer(wish', wish)
      /\ FirstUnwritten = 2 \/ wish'[request.beer] = Nothing
  <2>1. /\ wish \in [Beer -> {"on shelf", "off shelf", Nothing}] /\ request.beer \in Beer
    <3>1. request \in Change
      BY <1>1, PendingShape
    <3> QED BY <3>1 DEF TypeInv, TypeOK, Change
  <2> QED BY <1>2, <2>1 DEF Softer, FirstUnwritten
<1>4. Popped(queue) \in Seq(Change)
  BY <1>1, PoppedProperties
<1>5. Speaks(queue', wish') /\ Speaks(file', wish')
  BY <1>1, <1>2, <1>3, <1>4, SpeaksPopped, SpeaksSofter DEF WishInv
<1>6. \A i \in DOMAIN queue' : \E j \in DOMAIN file' : file'[j] = queue'[i]
  BY <1>1, <1>2, PoppedProperties DEF WishInv
<1>7. Kept(wish', queue', FirstUnwritten', sheet')
  <2>1. FirstUnwritten' = 1 /\ FirstUnwritten \in {1, 2}
    BY <1>2 DEF FirstUnwritten, HeadWritten
  <2>2. ASSUME NEW b \in Beer, wish'[b] # Nothing, Unwritten(queue, b, FirstUnwritten)
        PROVE  Unwritten(queue', b, 1)
    <3>1. PICK i \in DOMAIN queue :
                 i >= FirstUnwritten /\ queue[i].beer = b /\ queue[i].kind # "price"
      BY <2>2 DEF Unwritten
    <3>2. i # 1
      BY <1>1, <1>3, <2>2, <3>1
    <3>3. i - 1 \in DOMAIN queue' /\ queue[i] = queue'[i - 1]
      BY <1>1, <1>2, <3>2, PoppedProperties
    <3>4. i - 1 >= 1
      BY <1>2, <1>4, <3>3, ListShape
    <3> QED BY <3>1, <3>3, <3>4 DEF Unwritten
  <2> QED BY <1>2, <1>3, <2>1, <2>2 DEF WishInv, Kept, Softer
<1> QED BY <1>2, <1>5, <1>6, <1>7 DEF WishInv, Arrived

LEMMA WishEntered ==
    ASSUME TypeInv, CopiesInv, WishInv, NEW c, EditOf(c), Entered(c), UNCHANGED <<sheet, writer>>
    PROVE  WishInv'
<1> DEFINE n == Len(queue) + 1
<1>1. queue \in Seq(Change) /\ c \in Change /\ c.beer \in Beer
  BY DEF TypeInv, TypeOK, EditOf, Change
<1>2. /\ queue' = Append(queue, c) /\ file' = queue' /\ Said(c)
      /\ IF op = "None" THEN op' = "Change" /\ net' = "waiting"
                        ELSE UNCHANGED <<op, net, answer>>
  BY DEF Entered, Start, slotVars
<1>3. \A b \in Beer : wish'[b] = IF c.kind # "price" /\ b = c.beer THEN Says(c) ELSE wish[b]
  <2>1. wish \in [Beer -> {"on shelf", "off shelf", Nothing}]
    BY DEF TypeInv, TypeOK
  <2> QED BY <1>1, <1>2, <2>1 DEF Said, screenVars
<1>4. Speaks(queue', wish') /\ Speaks(file', wish')
  BY <1>1, <1>2, <1>3, SpeaksAppended DEF WishInv
<1>5. \A i \in DOMAIN queue' : \E j \in DOMAIN file' : file'[j] = queue'[i]
  BY <1>2
<1>6. /\ DOMAIN queue' = DOMAIN queue \cup {n} /\ queue'[n] = c /\ n \in Nat
      /\ \A i \in DOMAIN queue : queue'[i] = queue[i] /\ i \in Nat /\ i < n
  BY <1>1, <1>2, AppendChange
<1> HIDE DEF n
<1>7. ~HeadWritten' \/ (HeadWritten /\ queue # <<>>)
  <2>1. HeadWritten => queue # <<>>
    BY DEF HeadWritten, TypeInv
  <2>2. op = "None" => writer # "ours"
    BY DEF CopiesInv, WrittenInv
  <2> QED BY <1>2, <2>1, <2>2 DEF HeadWritten
<1>8. Kept(wish', queue', FirstUnwritten', sheet')
  <2>1. /\ FirstUnwritten' \in {1, 2} /\ FirstUnwritten \in {1, 2}
        /\ FirstUnwritten' <= FirstUnwritten /\ FirstUnwritten' <= n
    <3>1. queue # <<>> => 1 \in DOMAIN queue
      BY <1>1, ListShape, EmptySeq
    <3>2. n >= 1 /\ (queue # <<>> => n >= 2)
      BY <1>1, <1>6, <3>1, ListShape DEF n
    <3> QED BY <1>6, <1>7, <3>2, FirstIs DEF FirstUnwritten
  <2>2. \A b : Unwritten(queue, b, FirstUnwritten) => Unwritten(queue', b, FirstUnwritten')
    BY <1>6, <2>1 DEF Unwritten
  <2>3. c.kind # "price" => Unwritten(queue', c.beer, FirstUnwritten')
    BY <1>6, <2>1 DEF Unwritten
  <2> QED BY <1>3, <2>2, <2>3 DEF WishInv, Kept
<1>9. queue' # <<>>
  BY <1>1, <1>2, AppendShape
<1> QED BY <1>4, <1>5, <1>8, <1>9 DEF WishInv

LEMMA WishEdit == ASSUME TypeInv, CopiesInv, WishInv, EditAtFridge PROVE WishInv'
<1>1. UNCHANGED <<sheet, writer>>
  BY DEF EditAtFridge, ConfirmArchive, ConfirmPrice, TapRestore, ConfirmNewProduct, UiTurn,
         productsVars
<1>2. CASE UNCHANGED <<slotVars, historyVars, catalogVars, queueVars>>
  <2>1. UNCHANGED <<queue, file, wish, op, net, answer, synced>>
    BY <1>2 DEF slotVars, historyVars, screenVars, queueVars
  <2> QED BY <1>1, <2>1, WishQuiet DEF Softer, HeadWritten, Arrived
<1>3. ASSUME NEW c, EditOf(c), QueueProductEntry(c) PROVE WishInv'
  <2>1. c \in Change /\ c.beer \in Beer /\ queue \in Seq(Change) /\ file \in Seq(Change)
    BY <1>3 DEF EditOf, Change, TypeInv, TypeOK
  <2>2. CASE NotEntered(c)
    <3>1. /\ UNCHANGED <<queue, file, op, net, answer, synced>>
          /\ wish' = [wish EXCEPT ![c.beer] = Nothing]
      BY <2>2 DEF NotEntered, slotVars, queueVars
    <3>2. Softer(wish', wish) /\ wish'[c.beer] = Nothing
      <4>1. wish \in [Beer -> {"on shelf", "off shelf", Nothing}]
        BY DEF TypeInv, TypeOK
      <4> QED BY <2>1, <3>1, <4>1 DEF Softer
    <3>3. Speaks(queue', wish') /\ Speaks(file', wish')
      BY <2>1, <3>1, <3>2, SpeaksSofter DEF WishInv
    <3>4. Kept(wish', queue', FirstUnwritten', sheet')
      <4>1. FirstUnwritten' = FirstUnwritten /\ FirstUnwritten \in Nat
        BY <1>1, <3>1 DEF FirstUnwritten, HeadWritten
      <4> QED BY <1>1, <2>1, <3>1, <3>2, <4>1, KeptSofter DEF WishInv
    <3>5. Arrived' /\ queue' = <<>> =>
            \A b \in Beer : wish'[b] # Nothing =>
              b \in Beers(synced'.list) /\ ShowsWish(synced'.list, b, wish'[b])
      BY <3>1, <3>2 DEF WishInv, Softer, Arrived
    <3>6. \A i \in DOMAIN queue' : \E j \in DOMAIN file' : file'[j] = queue'[i]
      BY <3>1 DEF WishInv
    <3> QED BY <3>3, <3>4, <3>5, <3>6 DEF WishInv
  <2>3. CASE Entered(c)
    BY <1>1, <1>3, <2>3, WishEntered
  <2> QED BY <1>3, <2>1, <2>2, <2>3, EntryCases, TypeParts
<1> QED BY <1>2, <1>3, EditEffect

LEMMA WishWritten == ASSUME TypeInv, CopiesInv, WishInv, ChangeWritten PROVE WishInv'
<1>1. /\ queue \in Seq(Change) /\ file \in Seq(Change) /\ sheet \in Seq(Product)
      /\ queue # <<>> /\ request = queue[1] /\ request \in Change
  <2>1. queue \in Seq(Change) /\ queue # <<>> /\ request = queue[1]
    BY DEF TypeInv, TypeOK, ChangeWritten
  <2> QED BY <2>1, PendingShape DEF TypeInv, TypeOK, ProductsTypeOK
<1>2. /\ UNCHANGED <<queue, file, op, net, answer, synced>> /\ op = "Change"
      /\ Writes(request) /\ wish' = Trimmed(wish) /\ sheet' \in Seq(Product)
      /\ ~HeadWritten
  <2>1. /\ UNCHANGED <<queue, file, op, net, answer, synced>> /\ op = "Change" /\ net = "sent"
        /\ Writes(request) /\ wish' = Trimmed(wish) /\ writer = "none"
    BY DEF ChangeWritten, slotVars, queueVars
  <2>2. sheet' \in Seq(Product)
    BY <1>1, <2>1, SheetGrows
  <2> QED BY <2>1, <2>2 DEF HeadWritten
<1>3. \A b \in Beer : wish'[b] = Nothing \/ (wish'[b] = wish[b] /\ Fits(sheet'))
  BY <1>2, TrimmedWish
<1>4. Softer(wish', wish)
  BY <1>3 DEF Softer
<1>5. Speaks(queue', wish') /\ Speaks(file', wish')
  BY <1>1, <1>2, <1>4, SpeaksSofter DEF WishInv
<1>6. Kept(wish', queue', FirstUnwritten', sheet')
  <2>1. FirstUnwritten = 1 /\ FirstUnwritten' \in {1, 2}
    BY <1>2, FirstIs DEF FirstUnwritten
  <2> SUFFICES ASSUME NEW b \in Beer, wish'[b] # Nothing, ~Unwritten(queue, b, 2)
               PROVE  b \in Beers(sheet') /\ ShowsWish(sheet', b, wish[b])
    <3>1. \A b : Unwritten(queue, b, 2) => Unwritten(queue, b, FirstUnwritten')
      <4>1. DOMAIN queue \subseteq Nat
        BY <1>1, ListShape
      <4> QED BY <2>1, <4>1 DEF Unwritten
    <3> QED BY <1>2, <1>3, <3>1 DEF Kept
  <2>2. /\ wish[b] # Nothing
        /\ \/ Unwritten(queue, b, 1)
           \/ b \in Beers(sheet) /\ ShowsWish(sheet, b, wish[b])
    BY <1>3, <2>1 DEF WishInv, Kept
  <2>3. /\ \A i \in DOMAIN queue : queue[i].beer = b /\ queue[i].kind # "price" => i = 1
        /\ 1 \in DOMAIN queue
    <3>1. DOMAIN queue \subseteq Nat \ {0} /\ 1 \in DOMAIN queue
      BY <1>1, ListShape, EmptySeq
    <3> QED BY <3>1 DEF Unwritten
  <2>4. Beers(sheet) \cup {request.beer} \subseteq Beers(sheet')
    BY <1>1, <1>2, SheetBeers
  <2>5. CASE b # request.beer
    <3>1. ~Unwritten(queue, b, 1)
      BY <1>1, <2>3, <2>5 DEF Unwritten
    <3>2. SameRows(sheet', sheet, b)
      BY <1>1, <1>2, <2>5, SheetGrows
    <3> QED BY <2>2, <2>4, <3>1, <3>2, ShowsSame
  <2>6. CASE b = request.beer /\ request.kind = "price"
    <3>1. ~Unwritten(queue, b, 1)
      BY <1>1, <2>3, <2>6 DEF Unwritten
    <3> QED BY <1>1, <1>2, <2>2, <2>4, <2>6, <3>1, SheetShows
  <2>7. CASE b = request.beer /\ request.kind # "price"
    <3>1. LastSaid(queue, 1)
      BY <1>1, <2>3, <2>7 DEF LastSaid
    <3>2. wish[b] = Says(request)
      BY <1>1, <2>2, <2>3, <2>7, <3>1 DEF WishInv, Speaks
    <3> QED BY <1>1, <1>2, <2>4, <2>7, <3>2, SheetShows
  <2> QED BY <2>5, <2>6, <2>7
<1> QED BY <1>2, <1>5, <1>6 DEF WishInv, Arrived

LEMMA WishElsewhere == ASSUME TypeInv, CopiesInv, WishInv, ChangedElsewhere PROVE WishInv'
<1>1. queue \in Seq(Change) /\ file \in Seq(Change) /\ sheet \in Seq(Product)
  BY DEF TypeInv, TypeOK, ProductsTypeOK
<1>2. PICK c \in Change : Writes(c) /\ wish' = Trimmed([wish EXCEPT ![c.beer] = Nothing])
  BY DEF ChangedElsewhere
<1>3. /\ UNCHANGED <<queue, file, op, net, answer, synced>>
      /\ HeadWritten' => HeadWritten
  <2>1. /\ UNCHANGED <<queue, file, op, net, answer, synced>> /\ writer' = "other"
    BY DEF ChangedElsewhere, slotVars, queueVars
  <2> QED BY <2>1 DEF HeadWritten
<1>4. sheet' \in Seq(Product)
  BY <1>1, <1>2, SheetGrows
<1>5. \A b \in Beer : \/ wish'[b] = Nothing
                      \/ wish'[b] = wish[b] /\ Fits(sheet') /\ b # c.beer
  <2>1. /\ wish \in [Beer -> {"on shelf", "off shelf", Nothing}]
        /\ c.beer \in Beer
    BY DEF TypeInv, TypeOK, Change
  <2> DEFINE w == [wish EXCEPT ![c.beer] = Nothing]
  <2>2. \A b \in Beer : w[b] = IF b = c.beer THEN Nothing ELSE wish[b]
    BY <2>1
  <2> HIDE DEF w
  <2>3. \A b \in Beer : wish'[b] = Nothing \/ (wish'[b] = w[b] /\ Fits(sheet'))
    BY <1>2, <1>4, TrimmedWish DEF w
  <2> QED BY <2>2, <2>3
<1>6. Softer(wish', wish)
  BY <1>5 DEF Softer
<1>7. Speaks(queue', wish') /\ Speaks(file', wish')
  BY <1>1, <1>3, <1>6, SpeaksSofter DEF WishInv
<1>8. Kept(wish', queue', FirstUnwritten', sheet')
  <2>1. /\ FirstUnwritten \in Nat /\ FirstUnwritten' \in Nat
        /\ FirstUnwritten' <= FirstUnwritten
    BY <1>3, FirstIs
  <2>2. Kept(wish', queue, FirstUnwritten', sheet)
    BY <1>1, <1>6, <2>1, KeptSofter DEF WishInv
  <2>3. ASSUME NEW b \in Beer, wish'[b] # Nothing, ~Unwritten(queue, b, FirstUnwritten')
        PROVE  Fits(sheet') /\ b \in Beers(sheet') /\ ShowsWish(sheet', b, wish'[b])
    <3>1. b \in Beers(sheet) /\ ShowsWish(sheet, b, wish'[b])
      BY <2>2, <2>3 DEF Kept
    <3>2. SameRows(sheet', sheet, b) /\ b \in Beers(sheet') /\ Fits(sheet')
      BY <1>1, <1>2, <1>5, <2>3, <3>1, SheetGrows, SheetBeers
    <3> QED BY <3>1, <3>2, ShowsSame
  <2> QED BY <1>3, <2>3 DEF Kept
<1>9. Arrived' /\ queue' = <<>> =>
         \A b \in Beer : wish'[b] # Nothing =>
           b \in Beers(synced'.list) /\ ShowsWish(synced'.list, b, wish'[b])
  BY <1>3, <1>6 DEF WishInv, Softer, Arrived
<1> QED BY <1>3, <1>7, <1>8, <1>9 DEF WishInv

LEMMA WishLate == ASSUME TypeInv, CopiesInv, WishInv, ExecutedLate PROVE WishInv'
<1>1. /\ queue \in Seq(Change) /\ file \in Seq(Change) /\ sheet \in Seq(Product)
      /\ late \subseteq Change
  BY DEF TypeInv, TypeOK, ProductsTypeOK
<1> DEFINE left(c) == IF Overrules(c) THEN [wish EXCEPT ![c.beer] = Nothing] ELSE wish
<1>2. PICK c \in Change : Writes(c) /\ wish' = Trimmed(left(c))
  BY <1>1 DEF ExecutedLate
<1>3. /\ UNCHANGED <<queue, file, op, net, answer, synced>>
      /\ HeadWritten' <=> HeadWritten
  <2>1. /\ UNCHANGED <<queue, file, op, net, answer, synced>> /\ writer' = "other"
        /\ writer = "none"
    BY DEF ExecutedLate, slotVars, queueVars
  <2> QED BY <2>1 DEF HeadWritten
<1>4. sheet' \in Seq(Product)
  BY <1>1, <1>2, SheetGrows
<1>5. \A b \in Beer : \/ wish'[b] = Nothing
                      \/ wish'[b] = wish[b] /\ Fits(sheet') /\ ~(b = c.beer /\ Overrules(c))
  <2>1. /\ wish \in [Beer -> {"on shelf", "off shelf", Nothing}]
        /\ c.beer \in Beer
    BY DEF TypeInv, TypeOK, Change
  <2> DEFINE w == left(c)
  <2>2. \A b \in Beer : w[b] = IF b = c.beer /\ Overrules(c) THEN Nothing ELSE wish[b]
    BY <2>1
  <2> HIDE DEF w
  <2>3. \A b \in Beer : wish'[b] = Nothing \/ (wish'[b] = w[b] /\ Fits(sheet'))
    BY <1>2, <1>4, TrimmedWish DEF w
  <2> QED BY <2>2, <2>3
<1> HIDE DEF left
<1>6. Softer(wish', wish)
  BY <1>5 DEF Softer
<1>7. Speaks(queue', wish') /\ Speaks(file', wish')
  BY <1>1, <1>3, <1>6, SpeaksSofter DEF WishInv
<1>8. Kept(wish', queue', FirstUnwritten', sheet')
  <2>1. FirstUnwritten' = FirstUnwritten
    BY <1>3 DEF FirstUnwritten
  <2>2. SUFFICES ASSUME NEW b \in Beer, wish'[b] # Nothing, ~Unwritten(queue, b, FirstUnwritten)
                 PROVE  b \in Beers(sheet') /\ ShowsWish(sheet', b, wish[b])
    BY <1>3, <1>5, <2>1 DEF Kept
  <2>3. b \in Beers(sheet) /\ ShowsWish(sheet, b, wish[b]) /\ wish'[b] = wish[b]
    BY <1>5, <2>2 DEF WishInv, Kept
  <2>4. b \in Beers(sheet')
    BY <1>1, <1>2, <2>3, SheetBeers
  <2>5. CASE b # c.beer
    BY <1>1, <1>2, <2>3, <2>4, <2>5, SheetGrows, ShowsSame
  <2>6. CASE b = c.beer
    <3>1. c.kind = "price" \/ Says(c) = wish[b]
      BY <1>5, <2>2, <2>6 DEF Overrules
    <3> QED BY <1>1, <1>2, <2>3, <2>4, <2>6, <3>1, SheetShows
  <2> QED BY <2>5, <2>6
<1>9. Arrived' /\ queue' = <<>> =>
         \A b \in Beer : wish'[b] # Nothing =>
           b \in Beers(synced'.list) /\ ShowsWish(synced'.list, b, wish'[b])
  BY <1>3, <1>6 DEF WishInv, Softer, Arrived
<1> QED BY <1>3, <1>7, <1>8, <1>9 DEF WishInv

LEMMA WishCut == ASSUME TypeInv, CopiesInv, WishInv, PowerCut PROVE WishInv'
<1>1. file \in Seq(Change)
  BY DEF TypeInv, TypeOK
<1>2. UNCHANGED <<sheet, file, wish>> /\ queue' = file /\ op' = "Sync" /\ net' = "waiting"
  BY DEF PowerCut, LoadQueue, Start
<1>3. Kept(wish', queue', FirstUnwritten', sheet')
  <2>1. FirstUnwritten' = 1 /\ FirstUnwritten \in {1, 2}
    BY <1>2, FirstIs DEF FirstUnwritten, HeadWritten
  <2>2. \A b : Unwritten(queue, b, FirstUnwritten) => Unwritten(file, b, 1)
    <3>1. DOMAIN file \subseteq Nat \ {0}
      BY <1>1, ListShape
    <3> QED BY <3>1 DEF WishInv, Unwritten
  <2> QED BY <1>2, <2>1, <2>2 DEF WishInv, Kept
<1> QED BY <1>2, <1>3 DEF WishInv, Arrived

LEMMA WishReads == ASSUME TypeInv, CopiesInv, WishInv, SyncReadsProducts PROVE WishInv'
<1>1. /\ sheet \in Seq(Product) /\ synced'.list = Served(sheet)
      /\ UNCHANGED <<queue, file, sheet, wish>> /\ op = "Sync" /\ op' = "Sync"
  <2>1. sheet \in Seq(Product) /\ synced \in [list : Seq(Product), current : BOOLEAN]
    BY DEF TypeInv, TypeOK, ProductsTypeOK
  <2> QED BY <2>1 DEF SyncReadsProducts, historyVars, screenVars, productsVars, queueVars
<1>2. FirstUnwritten' = FirstUnwritten
  BY <1>1 DEF FirstUnwritten, HeadWritten
<1>3. ASSUME queue = <<>>, NEW b \in Beer, wish[b] # Nothing
      PROVE  b \in Beers(Served(sheet)) /\ ShowsWish(Served(sheet), b, wish[b])
  <2>1. Fits(sheet) /\ b \in Beers(sheet) /\ ShowsWish(sheet, b, wish[b])
    BY <1>3 DEF WishInv, Kept, Unwritten
  <2>2. Served(sheet) = sheet
    BY <1>1, <2>1, ServedShape
  <2> QED BY <2>1, <2>2
<1> QED BY <1>1, <1>2, <1>3 DEF WishInv

LEMMA WishRest ==
    ASSUME TypeInv, CopiesInv, WishInv,
           \/ StartNext \/ BackendIdle \/ PostRequest \/ RequestFails \/ SyncKept
           \/ TapManage \/ TapBack \/ Wake \/ UiIdle
           \/ ChangeNotWritten \/ HandlerEnds \/ HandlerDies \/ SyncReadsRevision
           \/ SyncApplied \/ SaveCatalog \/ SaveQueue \/ LinkFails \/ UNCHANGED vars
    PROVE  WishInv'
<1>1. UNCHANGED <<queue, sheet, wish>> /\ file' \in {file, queue}
  BY DEF StartNext, BackendIdle, PostRequest, RequestFails, SyncKept, TapManage, TapBack, Wake,
         UiIdle, UiTurn, ChangeNotWritten, HandlerEnds, HandlerDies, SyncReadsRevision,
         SyncApplied, SaveCatalog, SaveQueue, Store, Flush, LinkFails, vars, historyVars,
         screenVars, productsVars, queueVars
<1>2. HeadWritten' => HeadWritten
  <2>1. writer = "ours" => op = "Change"
    BY DEF CopiesInv, WrittenInv
  <2>2. CASE StartNext \/ PostRequest \/ RequestFails \/ SyncKept \/ SyncApplied \/ Wake
    <3>1. net' \in {"waiting", "sent", "idle"} /\ writer' = writer
          /\ \/ op = "None" \/ op = "Sync" \/ net # "sent"
      BY <2>2 DEF StartNext, SendQueuedNow, PostRequest, RequestFails, SyncKept, SyncApplied, Wake,
                  UiTurn,
                  Start, FreeSlot, productsVars
    <3>2. writer # "ours"
      BY <3>1 DEF CopiesInv, WrittenInv
    <3> QED BY <3>1, <3>2 DEF HeadWritten
  <2>3. CASE \/ BackendIdle \/ TapManage \/ TapBack \/ UiIdle \/ SaveCatalog \/ SaveQueue
             \/ UNCHANGED vars
    BY <2>3 DEF HeadWritten, BackendIdle, TapManage, TapBack, UiIdle, UiTurn, SaveCatalog,
                SaveQueue, vars, slotVars, productsVars
  <2>4. CASE ChangeNotWritten \/ SyncReadsRevision \/ LinkFails
    BY <2>1, <2>4 DEF HeadWritten, ChangeNotWritten, SyncReadsRevision, LinkFails, GivenUp,
                      productsVars
  <2>5. CASE HandlerEnds \/ HandlerDies
    BY <2>1, <2>5 DEF HeadWritten, HandlerEnds, HandlerDies, Release
  <2> QED BY <2>2, <2>3, <2>4, <2>5
<1>3. Arrived' => Arrived /\ synced'.list = synced.list
  <2>1. synced \in [list : Seq(Product), current : BOOLEAN]
    BY DEF TypeInv, TypeOK
  <2>2. CASE StartNext \/ PostRequest \/ RequestFails \/ SyncKept \/ SyncApplied \/ Wake \/ LinkFails
    BY <2>2 DEF Arrived, StartNext, SendQueuedNow, PostRequest, RequestFails, SyncKept, SyncApplied,
                Wake, Start, FreeSlot, LinkFails
  <2>3. CASE \/ BackendIdle \/ TapManage \/ TapBack \/ UiIdle \/ SaveCatalog \/ SaveQueue
             \/ UNCHANGED vars
    BY <2>3 DEF Arrived, BackendIdle, TapManage, TapBack, UiIdle, SaveCatalog, SaveQueue, vars,
                slotVars
  <2>4. CASE ChangeNotWritten \/ SyncReadsRevision
    BY <2>4 DEF Arrived, ChangeNotWritten, SyncReadsRevision
  <2>5. CASE HandlerEnds \/ HandlerDies
    BY <2>1, <2>5 DEF Arrived, HandlerEnds, HandlerDies, Release, BumpRevision
  <2> QED BY <2>2, <2>3, <2>4, <2>5
<1>4. Softer(wish', wish)
  BY <1>1 DEF Softer
<1> QED BY <1>1, <1>2, <1>3, <1>4, WishQuiet

LEMMA WishStep == ASSUME TypeInv, CopiesInv, WishInv, [Next]_vars PROVE WishInv'
  BY WishPop, WishEdit, WishWritten, WishElsewhere, WishLate, WishCut, WishReads, WishRest
     DEF Next, Step, Event, BackendUpdate, UiStep, Handlers

----------------------------------------------------------------------------
(* What the screen shows of it, and would show after a cut *)

\* Where the list on the screen is not as wished, a cut has set it back, and the
\* change is still queued or has outdated the list.
OnScreen ==
    \A b \in Beer : wish[b] # Nothing =>
        \/ ShowsWish(items, b, wish[b])
        \/ b \in setBack /\ (b \in Pending(queue) \/ ~current)

\* The same holds of the lists on flash, or will when the next cut comes.
OnFlash ==
    \A b \in Beer : wish[b] # Nothing =>
        \/ ShowsWish(saved.items, b, wish[b])
        \/ (b \in setBack \/ unsaved) /\ (b \in Pending(file) \/ ~saved.current)

\* What is on file and not in the queue any more has outdated the list, or the
\* household was told.
Dropped == current => \A b \in Pending(file) \ Pending(queue) : wish[b] = Nothing

ScreenInv == OnScreen /\ OnFlash /\ Dropped

LEMMA ScreenInit == Init => ScreenInv
  BY DEF Init, ScreenInv, OnScreen, OnFlash, Dropped

\* Steps that leave the lists and the queue alone.
LEMMA ScreenQuiet ==
    ASSUME ScreenInv, Softer(wish', wish), file \in Seq(Change),
           UNCHANGED <<items, queue, file, setBack, unsaved>>, saved'.items = saved.items,
           current' => current, saved'.current => saved.current
    PROVE  ScreenInv'
<1>1. OnScreen'
  BY DEF ScreenInv, OnScreen, Softer
<1>2. OnFlash'
  BY DEF ScreenInv, OnFlash, Softer
<1>3. Dropped'
  BY PendingShape DEF ScreenInv, Dropped, Softer
<1> QED BY <1>1, <1>2, <1>3 DEF ScreenInv

LEMMA ScreenRest ==
    ASSUME TypeInv, ScreenInv,
           \/ StartNext \/ BackendIdle \/ PostRequest \/ RequestFails \/ SyncKept
           \/ TapManage \/ TapBack \/ Wake \/ UiIdle
           \/ ChangeWritten \/ ChangeNotWritten \/ HandlerEnds \/ HandlerDies \/ ExecutedLate
           \/ SyncReadsRevision \/ SyncReadsProducts
           \/ ChangedElsewhere \/ LinkFails \/ UNCHANGED vars
    PROVE  ScreenInv'
<1>1. /\ file \in Seq(Change) /\ sheet \in Seq(Product)
      /\ saved \in [items : Seq(Product), current : BOOLEAN]
  BY DEF TypeInv, TypeOK, ProductsTypeOK, CatalogTypeOK
<1>2. /\ UNCHANGED <<items, queue, file, setBack, unsaved>>
      /\ \/ UNCHANGED <<current, saved>>
         \/ ~current' /\ saved' = [saved EXCEPT !.current = FALSE]
  BY DEF StartNext, BackendIdle, PostRequest, RequestFails, SyncKept, TapManage, TapBack, Wake,
         UiIdle, ChangeWritten, ChangeNotWritten, HandlerEnds, HandlerDies, ExecutedLate,
         BumpRevision, SyncReadsRevision, SyncReadsProducts, ChangedElsewhere, LinkFails, vars,
         historyVars, screenVars, catalogVars, queueVars
<1>3. Softer(wish', wish)
  <2>1. ASSUME NEW w, wish' = Trimmed(w), Softer(w, wish) PROVE Softer(wish', wish)
    BY <2>1 DEF Trimmed, Softer
  <2>2. ASSUME NEW b PROVE Softer([wish EXCEPT ![b] = Nothing], wish)
    <3>1. wish \in [Beer -> {"on shelf", "off shelf", Nothing}]
      BY DEF TypeInv, TypeOK
    <3> QED BY <3>1 DEF Softer
  <2>3. Softer(wish, wish)
    BY DEF Softer
  <2>4. CASE ChangeWritten
    BY <2>1, <2>3, <2>4 DEF ChangeWritten
  <2>5. CASE ChangedElsewhere
    BY <2>1, <2>2, <2>5 DEF ChangedElsewhere
  <2>6. CASE ExecutedLate
    BY <2>1, <2>2, <2>3, <2>6 DEF ExecutedLate
  <2>7. CASE UNCHANGED wish
    BY <2>3, <2>7
  <2> QED BY <2>4, <2>5, <2>6, <2>7
     DEF StartNext, BackendIdle, PostRequest, RequestFails, SyncKept, TapManage, TapBack, Wake,
         UiIdle, ChangeNotWritten, HandlerEnds, HandlerDies, SyncReadsRevision,
         SyncReadsProducts, LinkFails, vars, historyVars, screenVars
<1>4. /\ saved'.items = saved.items /\ (saved'.current => saved.current)
      /\ current' => current
  BY <1>1, <1>2
<1> QED BY <1>1, <1>2, <1>3, <1>4, ScreenQuiet

LEMMA ScreenPop ==
    ASSUME TypeInv, CopiesInv, ScreenInv, ChangeDone \/ ChangeRefused
    PROVE  ScreenInv'
<1>1. queue \in Seq(Change) /\ file \in Seq(Change) /\ queue # <<>> /\ request = queue[1]
  BY DEF TypeInv, TypeOK, ChangeDone, ChangeRefused
<1>2. /\ queue' = Popped(queue)
      /\ UNCHANGED <<file, items, current, unsaved, saved, setBack>>
      /\ \/ ~current /\ wish' = wish
         \/ wish' = [wish EXCEPT ![request.beer] = Nothing]
  BY DEF ChangeDone, ChangeRefused, ChangeInMemory, FreeSlot, catalogVars, historyVars,
         screenVars, CopiesInv, WrittenInv
<1>3. Pending(queue) = Pending(queue') \cup {request.beer} /\ Pending(file) \subseteq Beer
  BY <1>1, <1>2, PendingShape
<1>4. Softer(wish', wish) /\ (~current \/ wish'[request.beer] = Nothing)
  <2>1. wish \in [Beer -> {"on shelf", "off shelf", Nothing}] /\ request.beer \in Beer
    <3>1. request \in Change
      BY <1>1, PendingShape
    <3> QED BY <3>1 DEF TypeInv, TypeOK, Change
  <2> QED BY <1>2, <2>1 DEF Softer
<1>5. OnScreen'
  BY <1>2, <1>3, <1>4 DEF ScreenInv, OnScreen, Softer
<1>6. OnFlash'
  BY <1>2, <1>4 DEF ScreenInv, OnFlash, Softer
<1>7. Dropped'
  BY <1>2, <1>3, <1>4 DEF ScreenInv, Dropped, Softer
<1> QED BY <1>5, <1>6, <1>7 DEF ScreenInv

LEMMA ScreenSync == ASSUME TypeInv, CopiesInv, WishInv, ScreenInv, SyncApplied PROVE ScreenInv'
<1>1. /\ items \in Seq(Product) /\ synced.list \in Seq(Product) /\ Len(synced.list) <= MaxProducts
  <2>1. items \in Seq(Product) /\ synced \in [list : Seq(Product), current : BOOLEAN]
    BY DEF TypeInv, TypeOK, CatalogTypeOK
  <2>2. Len(synced.list) \in Nat /\ ~(Len(synced.list) > MaxProducts)
    BY <2>1, ListShape DEF SyncApplied, TooManyItems
  <2> QED BY <2>1, <2>2, MaxProductsAssumption
<1>2. /\ UNCHANGED <<queue, file, wish, saved>> /\ unsaved' /\ queue = <<>> /\ file = <<>>
      /\ Arrived /\ ReplaceAll(synced.list, synced.current)
  BY DEF SyncApplied, HasProductChanges, ReplaceAll, queueVars, Arrived, CopiesInv, FileInv, Turn
<1>3. ASSUME NEW b \in Beer, wish[b] # Nothing PROVE ShowsWish(items', b, wish[b])
  <2>1. b \in Beers(synced.list) /\ ShowsWish(synced.list, b, wish[b])
    BY <1>2, <1>3 DEF WishInv
  <2>2. SameRows(items', synced.list, b)
    BY <1>1, <1>2, <2>1, ReplacedRows, RowsTell
  <2> QED BY <2>1, <2>2, ShowsSame
<1>4. OnFlash'
  BY <1>2 DEF ScreenInv, OnFlash
<1> QED BY <1>2, <1>3, <1>4 DEF ScreenInv, OnScreen, Dropped, Pending

LEMMA ScreenEntered ==
    ASSUME TypeInv, CopiesInv, CopiesInv', ScreenInv, NEW c, EditOf(c), Entered(c)
    PROVE  ScreenInv'
<1>1. /\ queue \in Seq(Change) /\ file \in Seq(Change) /\ c \in Change /\ c.beer \in Beer
      /\ wish \in [Beer -> {"on shelf", "off shelf", Nothing}]
  BY DEF TypeInv, TypeOK, EditOf, Change
<1>2. /\ file' = queue' /\ UNCHANGED <<current, saved>>
      /\ unsaved' \in BOOLEAN /\ (unsaved' \/ UNCHANGED unsaved)
  BY DEF Entered, EditOf
<1>3. Pending(queue') = Pending(queue) \cup {c.beer}
  BY <1>1, PendingShape DEF Entered
<1>4. ASSUME NEW b \in Beer, b # c.beer \/ c.kind = "price"
      PROVE  /\ wish'[b] = wish[b] /\ (b \in setBack => b \in setBack')
             /\ ShowsWish(items, b, wish[b]) => ShowsWish(items', b, wish[b])
  <2>1. wish'[b] = wish[b] /\ (b \in setBack => b \in setBack')
    BY <1>1, <1>4 DEF Entered, Said, screenVars
  <2>2. CASE b # c.beer
    BY <2>1, <2>2, ShowsSame DEF EditOf
  <2>3. CASE b = c.beer /\ c.kind = "price"
    <3>1. RowsOf(items', b) = RowsOf(items, b)
      BY <2>3 DEF EditOf
    <3>2. \A i \in RowsOf(items, b) : Shows(items', i) = Shows(items, i)
      BY <2>3 DEF EditOf, Shows
    <3> QED BY <2>1, <3>1, <3>2 DEF ShowsWish
  <2> QED BY <1>4, <2>2, <2>3, <2>1
<1>5. c.kind # "price" => wish'[c.beer] = Says(c) /\ ShowsWish(items', c.beer, Says(c))
  BY <1>1 DEF Entered, Said, EditOf, ShowsWish
<1>6. OnScreen'
  <2> SUFFICES ASSUME NEW b \in Beer, wish'[b] # Nothing
               PROVE  \/ ShowsWish(items', b, wish'[b])
                      \/ b \in setBack' /\ (b \in Pending(queue') \/ ~current')
    BY DEF OnScreen
  <2>1. CASE b # c.beer \/ c.kind = "price"
    BY <1>2, <1>3, <1>4, <2>1 DEF ScreenInv, OnScreen
  <2>2. CASE b = c.beer /\ c.kind # "price"
    BY <1>5, <2>2
  <2> QED BY <2>1, <2>2
<1>7. ASSUME unsaved' PROVE OnFlash'
  <2> SUFFICES ASSUME NEW b \in Beer, wish'[b] # Nothing, ~ShowsWish(saved.items, b, wish'[b])
               PROVE  b \in Pending(file') \/ ~saved.current
    BY <1>2, <1>7 DEF OnFlash
  <2>1. CASE b = c.beer
    BY <1>2, <1>3, <2>1
  <2>2. CASE b # c.beer
    <3>1. b \in Pending(file) \/ ~saved.current
      BY <1>4, <2>2 DEF ScreenInv, OnFlash
    <3>2. saved.current /\ b \in Pending(file) => b \in Pending(queue)
      BY <1>4, <2>2 DEF ScreenInv, Dropped, CopiesInv, FlashInv
    <3> QED BY <1>2, <1>3, <3>1, <3>2
  <2> QED BY <2>1, <2>2
<1>8. OnFlash'
  <2>1. CASE ~unsaved'
    <3>1. saved'.items = items' /\ saved'.current = current' /\ Pending(queue') \subseteq Pending(file')
      BY <2>1 DEF CopiesInv, FlashInv, FileInv
    <3> QED BY <1>6, <3>1 DEF OnScreen, OnFlash
  <2> QED BY <1>7, <2>1
<1>9. Dropped'
  BY <1>2 DEF Dropped
<1> QED BY <1>6, <1>8, <1>9 DEF ScreenInv

LEMMA ScreenNotEntered ==
    ASSUME TypeInv, ScreenInv, NEW c, EditOf(c), NotEntered(c)
    PROVE  ScreenInv'
<1>1. c.beer \in Beer /\ wish \in [Beer -> {"on shelf", "off shelf", Nothing}]
  BY DEF TypeInv, TypeOK, EditOf, Change
<1>2. /\ UNCHANGED <<current, saved, queue, file, setBack>> /\ (unsaved => unsaved')
      /\ wish' = [wish EXCEPT ![c.beer] = Nothing]
  BY DEF NotEntered, EditOf, queueVars
<1>3. \A b \in Beer : wish'[b] = IF b = c.beer THEN Nothing ELSE wish[b]
  BY <1>1, <1>2
<1>4. \A b \in Beer : b # c.beer /\ ShowsWish(items, b, wish[b]) => ShowsWish(items', b, wish[b])
  BY ShowsSame DEF EditOf
<1>5. OnScreen'
  BY <1>2, <1>3, <1>4 DEF ScreenInv, OnScreen
<1>6. OnFlash'
  BY <1>2, <1>3 DEF ScreenInv, OnFlash
<1>7. Dropped'
  <2>1. Pending(file) \subseteq Beer
    BY PendingShape DEF TypeInv, TypeOK
  <2> QED BY <1>2, <1>3, <2>1 DEF ScreenInv, Dropped
<1> QED BY <1>5, <1>6, <1>7 DEF ScreenInv

LEMMA ScreenEdit ==
    ASSUME TypeInv, CopiesInv, CopiesInv', ScreenInv, EditAtFridge
    PROVE  ScreenInv'
<1>1. CASE UNCHANGED <<slotVars, historyVars, catalogVars, queueVars>>
  <2>1. UNCHANGED <<items, current, saved, unsaved, queue, file, wish, setBack>>
    BY <1>1 DEF historyVars, screenVars, catalogVars, queueVars
  <2>2. file \in Seq(Change)
    BY DEF TypeInv, TypeOK
  <2> QED BY <2>1, <2>2, ScreenQuiet DEF Softer
<1>2. ASSUME NEW c, EditOf(c), QueueProductEntry(c) PROVE ScreenInv'
  <2>1. c \in Change
    BY <1>2 DEF EditOf
  <2>2. NotEntered(c) \/ Entered(c)
    BY <1>2, <2>1, EntryCases, TypeParts
  <2> QED BY <1>2, <2>2, ScreenNotEntered, ScreenEntered
<1> QED BY <1>1, <1>2, EditEffect

\* A flush of the list brings flash where the screen is; a flush of the queue
\* drops what has outdated the list.
LEMMA ScreenSave ==
    ASSUME TypeInv, CopiesInv, ScreenInv, SaveCatalog \/ SaveQueue
    PROVE  ScreenInv'
<1>1. CASE SaveCatalog
  <2>1. /\ UNCHANGED <<items, current, queue, file, wish, setBack>>
        /\ saved' = IF unsaved THEN [items |-> items, current |-> current] ELSE saved
    BY <1>1 DEF SaveCatalog, FlushCatalog, screenVars, queueVars
  <2>2. saved'.items = items /\ saved'.current = current
    BY <2>1 DEF CopiesInv, FlashInv
  <2>3. Pending(queue) \subseteq Pending(file)
    BY DEF CopiesInv, FileInv
  <2>4. OnFlash'
    BY <2>1, <2>2, <2>3 DEF ScreenInv, OnScreen, OnFlash
  <2> QED BY <2>1, <2>4 DEF ScreenInv, OnScreen, Dropped
<1>2. CASE SaveQueue
  <2>1. UNCHANGED <<items, current, saved, unsaved, queue, wish, setBack>> /\ file' = queue
    <3>1. CASE dirty
      BY <1>2, <3>1 DEF SaveQueue, Store, Flush, historyVars, screenVars, catalogVars
    <3>2. CASE ~dirty
      BY <1>2, <3>2 DEF SaveQueue, CopiesInv, FileInv, historyVars, screenVars, catalogVars,
                        queueVars
    <3> QED BY <3>1, <3>2
  <2>2. ASSUME NEW b \in Pending(file), wish[b] # Nothing, saved.current
        PROVE  b \in Pending(queue)
    BY <2>2 DEF ScreenInv, Dropped, CopiesInv, FlashInv
  <2>3. OnFlash'
    BY <2>1, <2>2 DEF ScreenInv, OnFlash
  <2> QED BY <2>1, <2>3 DEF ScreenInv, OnScreen, Dropped
<1> QED BY <1>1, <1>2

LEMMA ScreenCut == ASSUME ScreenInv, PowerCut PROVE ScreenInv'
<1>1. /\ UNCHANGED <<saved, file, wish>> /\ queue' = file
      /\ items' = saved.items /\ current' = saved.current
      /\ setBack' = setBack \cup
            {b \in Beer : unsaved /\ wish[b] # Nothing /\ ~ShowsWish(saved.items, b, wish[b])}
  BY DEF PowerCut, LoadCatalog, LoadQueue
<1>2. OnScreen' /\ OnFlash'
  BY <1>1 DEF ScreenInv, OnFlash, OnScreen
<1> QED BY <1>1, <1>2 DEF ScreenInv, Dropped

LEMMA ScreenStep ==
    ASSUME TypeInv, CopiesInv, CopiesInv', WishInv, ScreenInv, [Next]_vars
    PROVE  ScreenInv'
  BY ScreenRest, ScreenPop, ScreenSync, ScreenEdit, ScreenSave, ScreenCut
     DEF Next, Step, Event, BackendUpdate, UiStep, Handlers

\* What the household archived or put on the shelf at this terminal stays so on
\* its screen until somebody says otherwise elsewhere.  replace_all() runs only
\* behind has_product_changes(), so what it installs was read from a sheet in
\* which every earlier word had arrived, or the terminal was told it never will.
\* The exception is a power cut between the flush of the queue in the tap
\* (app_state.cpp:459) and that of the list at the end of loop()
\* (beer_terminal.ino:98): the older list is shown, but then the change is on
\* file or has outdated that list, so the sync behind it sets it right.
THEOREM WishCorrect == Spec => []WishStaysShown
<1>1. ScreenInv => WishStaysShown
  BY DEF ScreenInv, OnScreen, WishStaysShown
<1>2. TypeInv /\ CopiesInv /\ WishInv /\ ScreenInv /\ [Next]_vars
        => (TypeInv /\ CopiesInv /\ WishInv /\ ScreenInv)'
  BY TypeStep, CopiesStep, WishStep, ScreenStep
<1>3. Init => TypeInv /\ CopiesInv /\ WishInv /\ ScreenInv
  BY TypeInit, CopiesInit, WishInit, ScreenInit
<1> QED BY <1>1, <1>2, <1>3, PTL DEF Spec

=============================================================================
