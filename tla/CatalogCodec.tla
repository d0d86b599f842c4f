---------------------------- MODULE CatalogCodec ----------------------------
(***************************************************************************)
(* The format of the four files the terminal keeps (catalog_codec.cpp).    *)
(*                                                                         *)
(* A file is its header, the checksum in the header and the records behind *)
(* it.  The checksum is ideal: it is what it was computed over, so two     *)
(* different contents never agree in it.  Texts are model values; what     *)
(* matters here is which file a build takes for its own, and that it takes *)
(* it whole or not at all.                                                 *)
(***************************************************************************)
EXTENDS Naturals, Sequences, FiniteSets

CONSTANTS
    Build,      \* the firmware builds that may run on the terminal, one after the other
    Kind        \* the kinds of queue entries of any build

(***************************************************************************)
(* A build has a format version, record sizes and capacities for the four  *)
(* files, the seed generation of its catalog, and the entry kinds it knows.*)
(***************************************************************************)
Store == {"catalog", "residents", "queue", "summary"}

ASSUME BuildAssumption ==
    /\ "purchase" \in Kind
    /\ \A b \in Build :
          /\ b.version \in Nat /\ b.seed \in Nat
          /\ b.size \in [Store -> Nat \ {0}] /\ b.capacity \in [Store -> Nat \ {0}]
          /\ b.kinds \subseteq Kind

HeaderBytes == 20

Blank == [absent |-> TRUE]      \* no file, or one of no bytes
Stub == [short |-> TRUE]        \* a file that ends within the header
Unread == [unread |-> TRUE]     \* a file of which the flash no longer gives every byte
Scrap == [part |-> TRUE]        \* a record that ends too early
Garbage == [kind |-> "garbage"] \* a record with a byte changed

Whole(f) == f \notin {Blank, Stub, Unread}

\* The length of a file whose records have the size its header names; of a
\* record that ends too early one byte is left.
Length(f) ==
    LET torn == Cardinality({i \in DOMAIN f.body : f.body[i] = Scrap})
    IN  HeaderBytes + (Len(f.body) - torn) * f.head.size + torn

Checksum(head, body) == <<head, body>>

\* encode_*() of a value: its revision (0 but for the catalog) and its records.
Encode(b, s, v) ==
    LET head == [magic |-> s, version |-> b.version, size |-> b.size[s],
                 revision |-> v.revision, count |-> Len(v.records),
                 generation |-> IF s = "catalog" THEN b.seed ELSE 0]
    IN  [head |-> head, crc |-> Checksum(head, v.records), body |-> v.records]

\* Mutant: the checksum is not compared.
CheckWithoutChecksum(b, s, f) ==
    /\ Whole(f)
    /\ f.head.magic = s /\ f.head.version = b.version /\ f.head.size = b.size[s]
    /\ f.head.count <= b.capacity[s]
    /\ Length(f) = HeaderBytes + f.head.count * b.size[s]

\* check(): whether build b takes f for a file of s.
Check(b, s, f) ==
    /\ Whole(f)
    /\ f.head.magic = s /\ f.head.version = b.version /\ f.head.size = b.size[s]
    /\ f.head.count <= b.capacity[s]
    /\ Length(f) = HeaderBytes + f.head.count * b.size[s]
    /\ f.crc = Checksum(f.head, f.body)

\* An entry of a kind this build does not know is taken for a purchase.
DecodedEntry(b, e) == IF e.kind \in b.kinds THEN e ELSE [kind |-> "purchase"]

\* decode_*() of a file that passes the check.
Decode(b, s, f) ==
    [revision |-> f.head.revision,
     records |-> IF s = "queue" THEN [i \in DOMAIN f.body |-> DecodedEntry(b, f.body[i])]
                                ELSE f.body]

(***************************************************************************)
(* What a bad flash may make of a file: it ends early, within the header   *)
(* or within a record, cannot be read to its end, a record has changed, or *)
(* it is some other file.                                                  *)
(***************************************************************************)
Damaged(f) ==
    LET n == Len(f.body)
    IN  {Stub, Unread, [f EXCEPT !.head.magic = CHOOSE m \in Store : m # @]}
        \cup IF n = 0 THEN {}
             ELSE {[f EXCEPT !.body = SubSeq(@, 1, n - 1)],
                   [f EXCEPT !.body[n] = Scrap],
                   [f EXCEPT !.body[n] = Garbage]}

=============================================================================
