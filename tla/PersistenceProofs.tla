------------------------- MODULE PersistenceProofs -------------------------
(***************************************************************************)
(* Proofs about what the terminal remembers across a reboot, for every set *)
(* of builds, lists and backend revisions and any number of power cuts,    *)
(* storage faults and firmware updates: a file is taken whole or not at    *)
(* all, and what is not dirty is what the file gives.                      *)
(***************************************************************************)
EXTENDS Persistence, FiniteSetTheorems, SequenceTheorems,
        WellFoundedInduction, TLAPS

Saved(s) == [revision : Nat, records : Seq(Record(s))]

\* Every non-empty set of natural numbers has a least element.
LEMMA NatHasLeast ==
    ASSUME NEW T \in SUBSET Nat, T # {}
    PROVE  \E x \in T : \A y \in T : x <= y
<1> DEFINE R == OpToRel(<, Nat)
<1>1. IsWellFoundedOn(R, Nat)
  BY NatLessThanWellFounded
<1>2. \A x, y \in Nat : (<<y, x>> \in R) <=> y < x
  BY SMT DEF OpToRel
<1> HIDE DEF R
<1>3. PICK x \in T : \A y \in T : ~ (<<y, x>> \in R)
  BY <1>1, WFMin
<1>4. ASSUME NEW y \in T PROVE x <= y
  <2>1. ~ (y < x)
    BY <1>2, <1>3
  <2> QED BY <2>1
<1> QED BY <1>4

----------------------------------------------------------------------------
(* The codec: a file that was written whole is taken by the builds whose   *)
(* format it has, and a damaged one by none                                *)

LEMMA BuildTypes ==
    ASSUME NEW b \in Build, NEW s \in Store
    PROVE  /\ b.version \in Nat /\ b.seed \in Nat
           /\ b.size[s] \in Nat \ {0} /\ b.capacity[s] \in Nat \ {0}
           /\ b.kinds \subseteq Kind
BY BuildAssumption

LEMMA Multiplied ==
    ASSUME NEW m \in Nat, NEW n \in Nat, NEW k \in Nat, m <= n
    PROVE  m * k \in Nat /\ n * k \in Nat /\ m * k <= n * k
OBVIOUS

\* What Encode returns, field by field.
IsFileOf(f, b, s, v) ==
    /\ f = [head |-> f.head, crc |-> Checksum(f.head, v.records), body |-> v.records]
    /\ f.head = [magic |-> s, version |-> b.version, size |-> b.size[s],
                 revision |-> v.revision, count |-> Len(v.records),
                 generation |-> IF s = "catalog" THEN b.seed ELSE 0]
    /\ f.head.magic = s /\ f.head.version = b.version /\ f.head.size = b.size[s]
    /\ f.head.revision = v.revision /\ f.head.count = Len(v.records)
    /\ s = "catalog" => f.head.generation = b.seed
    /\ f.body = v.records
    /\ f.crc = Checksum(f.head, f.body)
    /\ Whole(f) /\ f \notin {Blank, Unread}

LEMMA EncodedShape ==
    ASSUME NEW b, NEW s, NEW v
    PROVE  IsFileOf(Encode(b, s, v), b, s, v)
BY DEF Encode, Whole, Blank, Stub, Unread, IsFileOf

LEMMA EncodedLength ==
    ASSUME NEW b \in Build, NEW s \in Store, NEW v \in Saved(s)
    PROVE  Length(Encode(b, s, v)) = HeaderBytes + Len(v.records) * b.size[s]
<1> DEFINE f == Encode(b, s, v)
<1>0. IsFileOf(f, b, s, v)
  BY EncodedShape
<1> HIDE DEF f
<1>1. f.body = v.records /\ f.head.size = b.size[s]
  BY <1>0 DEF IsFileOf
<1>2. v.records \in Seq(Record(s)) /\ Len(v.records) \in Nat /\ b.size[s] \in Nat
  BY BuildTypes, LenProperties DEF Saved
<1>3. {i \in DOMAIN f.body : f.body[i] = Scrap} = {}
  <2>1. ASSUME NEW i \in DOMAIN v.records PROVE v.records[i] # Scrap
    BY <1>2, <2>1, DamageShows
  <2> QED BY <1>1, <2>1
<1>4. Cardinality({i \in DOMAIN f.body : f.body[i] = Scrap}) = 0
  BY <1>3, FS_EmptySet
<1>5. Len(v.records) * b.size[s] \in Nat
  BY <1>2
<1>6. Length(f) = HeaderBytes + (Len(v.records) - 0) * b.size[s] + 0
  BY <1>1, <1>4 DEF Length
<1>7. Length(f) = HeaderBytes + Len(v.records) * b.size[s]
  BY <1>2, <1>5, <1>6 DEF HeaderBytes
<1> QED BY <1>7 DEF f

LEMMA EncodedChecks ==
    ASSUME NEW b \in Build, NEW c \in Build, NEW s \in Store, NEW v \in Saved(s)
    PROVE  Check(b, s, Encode(c, s, v)) <=>
               /\ c.version = b.version /\ c.size[s] = b.size[s]
               /\ Len(v.records) <= b.capacity[s]
<1> DEFINE f == Encode(c, s, v)
<1>0. IsFileOf(f, c, s, v) /\ Length(f) = HeaderBytes + Len(v.records) * c.size[s]
  BY EncodedLength, EncodedShape
<1> HIDE DEF f
<1>1. /\ Length(f) = HeaderBytes + Len(v.records) * c.size[s]
      /\ f.head.magic = s /\ f.head.version = c.version /\ f.head.size = c.size[s]
      /\ f.head.count = Len(v.records) /\ f.crc = Checksum(f.head, f.body) /\ Whole(f)
  BY <1>0 DEF IsFileOf
<1>2. Check(b, s, f) <=> /\ c.version = b.version /\ c.size[s] = b.size[s]
                         /\ Len(v.records) <= b.capacity[s]
  BY <1>1 DEF Check
<1> QED BY <1>2 DEF f

\* A file that passes the check also fits the buffer it is read into.
LEMMA EncodedReadable ==
    ASSUME NEW b \in Build, NEW c \in Build, NEW s \in Store, NEW v \in Saved(s),
           disk[s] = Encode(c, s, v), Check(b, s, disk[s]), mounted
    PROVE  Readable(b, s)
<1>1. /\ c.size[s] = b.size[s] /\ Len(v.records) <= b.capacity[s]
      /\ Length(disk[s]) = HeaderBytes + Len(v.records) * b.size[s]
      /\ disk[s] \notin {Blank, Unread}
  <2>1. disk[s] \notin {Blank, Unread}
    <3>1. IsFileOf(disk[s], c, s, v)
      BY EncodedShape
    <3> QED BY <3>1 DEF IsFileOf
  <2>2. c.size[s] = b.size[s] /\ Len(v.records) <= b.capacity[s]
    BY EncodedChecks
  <2>3. Length(disk[s]) = HeaderBytes + Len(v.records) * c.size[s]
    BY EncodedLength
  <2> QED BY <2>1, <2>2, <2>3
<1>2. Len(v.records) \in Nat /\ b.size[s] \in Nat /\ b.capacity[s] \in Nat
  BY BuildTypes, LenProperties DEF Saved
<1>3. /\ Len(v.records) * b.size[s] \in Nat /\ b.capacity[s] * b.size[s] \in Nat
      /\ Len(v.records) * b.size[s] <= b.capacity[s] * b.size[s]
  BY <1>1, <1>2, Multiplied
<1>4. Length(disk[s]) <= HeaderBytes + b.capacity[s] * b.size[s]
  BY <1>1, <1>3 DEF HeaderBytes
<1> QED BY <1>1, <1>4 DEF Readable

LEMMA BlankFails == \A b, s : ~Check(b, s, Blank)
BY DEF Check, Whole

LEMMA DamagedFails ==
    ASSUME NEW b \in Build, NEW c \in Build, NEW s \in Store, NEW v \in Saved(s),
           NEW d \in Damaged(Encode(c, s, v))
    PROVE  ~Check(b, s, d)
<1> DEFINE f == Encode(c, s, v)
           n == Len(f.body)
           h == f.head
<1>1. /\ f = [head |-> h, crc |-> Checksum(h, v.records), body |-> v.records]
      /\ f.body = v.records /\ h.magic = s
  BY EncodedShape DEF Encode
<1>2. v.records \in Seq(Record(s)) /\ n \in Nat
  BY <1>1, LenProperties DEF Saved
<1>3. h = [magic |-> s, version |-> c.version, size |-> c.size[s],
           revision |-> v.revision, count |-> Len(v.records),
           generation |-> IF s = "catalog" THEN c.seed ELSE 0]
  BY DEF Encode
<1>4. ASSUME NEW r, r # v.records
      PROVE  ~Check(b, s, [f EXCEPT !.body = r])
  <2>1. [f EXCEPT !.body = r] = [head |-> h, crc |-> Checksum(h, v.records), body |-> r]
    <3> HIDE DEF h
    <3> QED BY <1>1
  <2>2. Checksum(h, r) # Checksum(h, v.records)
    BY <1>4 DEF Checksum
  <2> HIDE DEF f, h
  <2> QED BY <2>1, <2>2 DEF Check
<1>5. CASE d \in {Stub, Unread}
  BY <1>5 DEF Check, Whole
<1>6. CASE d = [f EXCEPT !.head.magic = CHOOSE m \in Store : m # @]
  <2> DEFINE m == CHOOSE x \in Store : x # h.magic
  <2>1. m # s
    BY <1>1 DEF Store
  <2>2. d.head.magic = m
    <3> HIDE DEF m
    <3>1. f.head = h /\ d = [head |-> [h EXCEPT !.magic = m], crc |-> f.crc, body |-> f.body]
      BY <1>1, <1>6 DEF m
    <3> HIDE DEF f
    <3> QED BY <3>1, <1>3
  <2> QED BY <2>1, <2>2 DEF Check
<1>7. CASE n # 0 /\ d = [f EXCEPT !.body = SubSeq(@, 1, n - 1)]
  <2>1. SubSeq(v.records, 1, n - 1) # v.records
    <3>1. Len(SubSeq(v.records, 1, n - 1)) = n - 1 /\ Len(v.records) = n
      BY <1>1, <1>2, <1>7, SubSeqProperties
    <3> QED BY <1>2, <3>1
  <2>2. d = [f EXCEPT !.body = SubSeq(v.records, 1, n - 1)]
    BY <1>1, <1>7
  <2> HIDE DEF f, n
  <2> QED BY <1>4, <2>1, <2>2
<1>8. CASE n # 0 /\ d \in {[f EXCEPT !.body[n] = Scrap], [f EXCEPT !.body[n] = Garbage]}
  <2>1. PICK x \in {Scrap, Garbage} : d = [f EXCEPT !.body[n] = x]
    BY <1>8
  <2>2. n \in DOMAIN v.records /\ v.records[n] \in Record(s)
    BY <1>1, <1>2, <1>8
  <2>3. [v.records EXCEPT ![n] = x] # v.records
    <3>1. [v.records EXCEPT ![n] = x][n] = x
      BY <2>2
    <3> QED BY <2>2, <3>1, DamageShows
  <2>4. d = [f EXCEPT !.body = [v.records EXCEPT ![n] = x]]
    BY <1>1, <2>1
  <2> HIDE DEF f, n
  <2> QED BY <1>4, <2>3, <2>4
<1> QED BY <1>5, <1>6, <1>7, <1>8 DEF Damaged

----------------------------------------------------------------------------
(***************************************************************************)
(* The invariant.  What a file gives back is Restored, of the value last   *)
(* put in place; a store that has been loaded and is not dirty holds just  *)
(* that.  For this to survive the writes, what memory holds must be what a *)
(* restart would take (Sound), and a write under way must be writing it.   *)
(***************************************************************************)
On == phase \in {"load", "loop", "flush"}

Place(s) ==
    CASE s = "catalog" -> 1 [] s = "residents" -> 2 [] s = "queue" -> 3 [] s = "summary" -> 4

\* setup() has come past the store.
Loaded(s) == Running \/ (phase = "load" /\ Place(s) < at)

IsSaved(s, v) ==
    /\ v \in Saved(s)
    /\ IF s = "catalog" THEN v.revision <= backend ELSE v.revision = 0

TypeInv ==
    /\ TypeOK
    /\ \A s \in Store : IsSaved(s, mem[s])
    /\ DOMAIN kept = Store /\ builtBy \in [Store -> Build]

\* What is in place of a file was in memory once.
KeptInv ==
    \A s \in Store : kept[s] # Lost =>
        /\ IsSaved(s, kept[s])
        /\ s = "catalog" /\ kept[s].revision = 0
              => kept[s].records[1].from = builtBy[s].seed
        /\ s = "residents" => \E r \in Revision : kept[s].records = Served[r][s]

\* Between remove and rename the value in place is not on the disk.
DiskInv ==
    \A s \in Store :
        IF BetweenFiles(s) THEN disk[s] = Blank
        ELSE IF kept[s] = Lost THEN \A b \in Build : ~Check(b, s, disk[s])
        ELSE disk[s] = Encode(builtBy[s], s, kept[s])

\* A restart of this build would take what memory holds, whole.
Sound(s) ==
    /\ Len(mem[s].records) <= build.capacity[s]
    /\ s = "catalog" /\ mem[s].revision = 0 => mem[s].records[1].from = build.seed
    /\ s = "residents" =>
          /\ mem[s].records # <<>>
          /\ IF s \in known THEN \E r \in Revision : mem[s].records = Served[r][s]
                            ELSE mem[s].records = Defaults
    /\ s = "queue" => \A i \in DOMAIN mem[s].records :
                          DecodedEntry(build, mem[s].records[i]) = mem[s].records[i]

LoadedInv ==
    \A s \in Store : Loaded(s) => Sound(s) /\ (~dirty[s] => mem[s] = Restored(s))

\* The defaults are never dirty.
KnownInv ==
    /\ "residents" \in known => Loaded("residents")
    /\ dirty["residents"] => "residents" \in known

\* The write under way writes what memory holds, of a store that is dirty.
WriteInv ==
    ~Idle =>
        /\ writing = [step |-> writing.step, store |-> writing.store,
                      file |-> Encode(build, writing.store, mem[writing.store])]
        /\ dirty[writing.store] /\ Sound(writing.store)
        /\ writing.step # "failed" => mounted
        /\ writing.step = "written" => /\ kept[writing.store] = mem[writing.store]
                                       /\ builtBy[writing.store] = build
        /\ On
        /\ phase = "load" => writing.store = "catalog" /\ at = 1
        /\ phase = "loop" => writing.store = "queue"
        /\ phase = "flush" => writing.store = Current

\* A partition that is not there keeps nothing.
MountInv == On /\ ~mounted => \A s \in Store : kept[s] = Lost

StorageInv ==
    TypeInv /\ KeptInv /\ DiskInv /\ LoadedInv /\ KnownInv /\ WriteInv /\ MountInv

----------------------------------------------------------------------------
(* What the file gives back *)

LEMMA Stores ==
    /\ DOMAIN Order = 1 .. 4 /\ Len(Order) = 4
    /\ \A i \in 1 .. 4 : Order[i] \in Store /\ Place(Order[i]) = i
    /\ \A s \in Store : Place(s) \in 1 .. 4 /\ Order[Place(s)] = s
<1>1. DOMAIN Order = 1 .. 4 /\ Len(Order) = 4
  BY DEF Order
<1>2. /\ Order[1] = "catalog" /\ Order[2] = "residents"
      /\ Order[3] = "queue" /\ Order[4] = "summary"
  BY DEF Order
<1>3. \A i \in 1 .. 4 : i = 1 \/ i = 2 \/ i = 3 \/ i = 4
  OBVIOUS
<1> QED BY <1>1, <1>2, <1>3 DEF Store, Place

LEMMA LostIsNone == \A s : Lost \notin Saved(s)
BY DEF Lost, Saved

LEMMA StoredGives ==
    ASSUME TypeInv, KeptInv, DiskInv, MountInv, On, NEW s \in Store, ~BetweenFiles(s)
    PROVE  /\ FromFile(s) <=> Usable(s)
           /\ FromFile(s) => Decode(build, s, disk[s]) = Restored(s)
           /\ ~FromFile(s) => Fallback(s) = Restored(s)
<1>1. CASE kept[s] = Lost
  <2>1. ~Check(build, s, disk[s])
    BY <1>1 DEF DiskInv, TypeInv, TypeOK
  <2> QED BY <1>1, <2>1 DEF FromFile, Accepts, Usable, Restored
<1>2. CASE kept[s] # Lost
  <2> DEFINE c == builtBy[s]
             v == kept[s]
             f == disk[s]
  <2>1. /\ c \in Build /\ build \in Build /\ mounted
        /\ v \in Saved(s) /\ f = Encode(c, s, v)
        /\ s # "catalog" => v.revision = 0
    BY <1>2 DEF TypeInv, TypeOK, KeptInv, IsSaved, DiskInv, MountInv
  <2>2. v = [revision |-> v.revision, records |-> v.records] /\ v.records \in Seq(Record(s))
    BY <2>1 DEF Saved
  <2>3. IsFileOf(f, c, s, v)
    BY <2>1, EncodedShape
  <2>4. Check(build, s, f) <=> /\ c.version = build.version /\ c.size[s] = build.size[s]
                              /\ Len(v.records) <= build.capacity[s]
    BY <2>1, EncodedChecks
  <2>5. Check(build, s, f) => Readable(build, s)
    BY <2>1, EncodedReadable
  <2>6. Len(v.records) \in Nat /\ (Len(v.records) > 0 <=> v.records # <<>>)
    BY <2>2, EmptySeq, LenProperties
  <2>7. s = "catalog" => (StaleSeed(f) <=> v.revision = 0 /\ c.seed # build.seed)
    BY <2>3 DEF IsFileOf, StaleSeed
  <2>8. f.head.count = Len(v.records) /\ f.head.revision = v.revision /\ f.body = v.records
    BY <2>3 DEF IsFileOf
  <2> HIDE DEF c, v, f
  <2>9. FromFile(s) <=> Usable(s)
    BY <1>2, <2>4, <2>5, <2>6, <2>7, <2>8 DEF FromFile, Accepts, Usable, c, v, f
  <2>10. Decode(build, s, f) =
            IF s = "queue" THEN Value([i \in DOMAIN v.records |-> DecodedEntry(build, v.records[i])])
                           ELSE v
    BY <2>1, <2>2, <2>8, Zenon DEF Decode, Value
  <2> QED BY <2>9, <2>10 DEF Restored, v, f
<1> QED BY <1>1, <1>2

\* What is in place and was written from memory by this build is what memory
\* holds.
LEMMA SoundIsRestored ==
    ASSUME TypeInv, NEW s \in Store, Sound(s),
           kept[s] = mem[s], builtBy[s] = build
    PROVE  Restored(s) = mem[s]
<1> DEFINE v == mem[s]
<1>1. /\ v \in Saved(s) /\ v # Lost
      /\ v = [revision |-> v.revision, records |-> v.records] /\ v.records \in Seq(Record(s))
      /\ s # "catalog" => v.revision = 0
  BY LostIsNone DEF TypeInv, IsSaved, Saved
<1>2. Usable(s)
  BY <1>1 DEF Usable, Sound
<1>3. CASE s = "queue"
  <2>1. [i \in DOMAIN v.records |-> DecodedEntry(build, v.records[i])]
          = [i \in DOMAIN v.records |-> v.records[i]]
    BY <1>3 DEF Sound
  <2>2. [i \in DOMAIN v.records |-> v.records[i]] = v.records
    BY <1>1
  <2>3. Value(v.records) = v
    BY <1>1, <1>3 DEF Value
  <2> QED BY <1>2, <1>3, <2>1, <2>2, <2>3 DEF Restored
<1>4. CASE s # "queue"
  BY <1>2, <1>4 DEF Restored
<1> QED BY <1>3, <1>4

----------------------------------------------------------------------------
(* The steps: what each of them leaves of the invariant *)

LEMMA SoundSame ==
    ASSUME NEW s \in Store, Sound(s), mem'[s] = mem[s], build' = build,
           s = "residents" => (s \in known' <=> s \in known)
    PROVE  Sound(s)'
BY DEF Sound, DecodedEntry

LEMMA RestoredSame ==
    ASSUME NEW s \in Store, build' = build, kept'[s] = kept[s], builtBy'[s] = builtBy[s]
    PROVE  Restored(s)' = Restored(s)
BY DEF Restored, Usable, Fallback, Seed, DecodedEntry

LEMMA IdleFacts ==
    ASSUME Idle
    PROVE  writing.step = "none" /\ \A s : ~BetweenFiles(s) /\ ~Written(s)
BY DEF Idle, NoWrite, BetweenFiles, Written

LEMMA OffIsQuiet ==
    ASSUME TypeInv, KnownInv, ~On
    PROVE  Idle /\ "residents" \notin known /\ dirty["residents"] = FALSE
BY DEF TypeInv, TypeOK, KnownInv, Loaded, Running, On, Store

LEMMA NothingLoaded ==
    ASSUME phase' \in {"off", "mount"} \/ (phase' = "load" /\ at' = 1), Idle',
           "residents" \notin known', dirty'["residents"] = FALSE
    PROVE  LoadedInv' /\ KnownInv' /\ WriteInv'
<1>1. ASSUME NEW s \in Store PROVE ~Loaded(s)'
  BY Stores DEF Loaded, Running
<1> QED BY <1>1 DEF LoadedInv, KnownInv, WriteInv, Store

LEMMA StartWriteEffect ==
    ASSUME NEW s \in Store, StartWrite(s, Encode(build, s, mem'[s])), build' = build,
           dirty'[s] = TRUE, Sound(s)', On',
           phase' = "load" => s = "catalog" /\ at' = 1,
           phase' = "loop" => s = "queue",
           phase' = "flush" => s = Current'
    PROVE  /\ WriteInv' /\ UNCHANGED <<disk, mounted>>
           /\ writing'.step \in {"open", "failed"} /\ writing'.store = s
           /\ \A t : ~BetweenFiles(t)' /\ ~Written(t)'
<1> DEFINE x == IF mounted THEN "open" ELSE "failed"
           e == Encode(build, s, mem'[s])
<1>1. writing' = [step |-> x, store |-> s, file |-> e] /\ UNCHANGED <<disk, mounted>>
  BY DEF StartWrite
<1>2. x \in {"open", "failed"} /\ (x # "failed" => mounted)
  OBVIOUS
<1>3. e = Encode(build, s, mem[s])'
  BY DEF Encode
<1> HIDE DEF x, e
<1>4. writing'.step = x /\ writing'.store = s /\ writing'.file = e
  BY <1>1
<1>5. WriteInv'
  BY <1>1, <1>2, <1>3, <1>4 DEF WriteInv
<1> QED BY <1>1, <1>2, <1>4, <1>5 DEF BetweenFiles, Written

\* An old value stays a value, whatever the backend's revision becomes.
LEMMA SavedStays ==
    ASSUME NEW s \in Store, NEW v, IsSaved(s, v), backend \in Nat,
           backend' = backend \/ backend' = backend + 1
    PROVE  IsSaved(s, v)'
BY DEF IsSaved, Saved

LEMMA EmptyIsSaved ==
    ASSUME NEW s \in Store, backend \in Nat
    PROVE  IsSaved(s, Empty)
<1>1. <<>> \in Seq(Record(s)) /\ Empty.revision = 0
  BY EmptySeq DEF Empty, Value
<1>2. Empty \in [revision : Nat, records : Seq(Record(s))]
  BY <1>1 DEF Empty, Value
<1> QED BY <1>1, <1>2 DEF IsSaved, Saved

LEMMA CapacityKept ==
    ASSUME LoadedInv', NEW s \in Store, Running'
    PROVE  (Len(mem[s].records) <= build.capacity[s])'
BY DEF LoadedInv, Loaded, Sound

LEMMA RevisionsAreNat == Revision \subseteq Nat
BY ServedAssumption

LEMMA InitStorageInv == Init => StorageInv
<1> SUFFICES ASSUME Init PROVE StorageInv
  OBVIOUS
<1> USE DEF Init, StorageInit
<1>1. Idle /\ phase = "off"
  BY DEF Idle
<1>2. \A s \in Store : IsSaved(s, mem[s])
  <2> SUFFICES ASSUME NEW s \in Store PROVE IsSaved(s, mem[s])
    OBVIOUS
  <2>1. mem[s] = Empty /\ backend \in Nat
    OBVIOUS
  <2> QED BY <2>1, EmptyIsSaved
<1>3. TypeInv
  <2>1. at \in DOMAIN Order /\ backend \in Revision /\ faults \in 0 .. MaxFaults
    BY Stores, MaxFaultsAssumption
  <2>2. dirty \in [Store -> BOOLEAN] /\ builtBy \in [Store -> Build]
    OBVIOUS
  <2> QED BY <1>1, <1>2, <2>1, <2>2, Stores DEF TypeInv, TypeOK, Running, Idle, historyVars
<1>4. KeptInv
  BY DEF KeptInv
<1>5. DiskInv
  BY <1>1, IdleFacts, BlankFails DEF DiskInv
<1>6. LoadedInv /\ KnownInv /\ WriteInv
  BY <1>1 DEF LoadedInv, KnownInv, WriteInv, Loaded, Running, Store
<1>7. MountInv
  BY DEF MountInv
<1> QED BY <1>3, <1>4, <1>5, <1>6, <1>7 DEF StorageInv

LEMMA PowerOnKeepsInv == StorageInv /\ PowerOn => StorageInv'
<1> SUFFICES ASSUME StorageInv, PowerOn PROVE StorageInv'
  OBVIOUS
<1> USE DEF StorageInv, PowerOn, storageVars, historyVars
<1>1. Idle /\ "residents" \notin known /\ dirty["residents"] = FALSE /\ Idle'
  BY OffIsQuiet DEF On, Idle
<1>2. LoadedInv' /\ KnownInv' /\ WriteInv'
  BY <1>1, NothingLoaded
<1>3. TypeInv'
  BY <1>1 DEF TypeInv, TypeOK, Running, IsSaved, Idle
<1>4. KeptInv' /\ DiskInv' /\ MountInv'
  BY DEF KeptInv, IsSaved, DiskInv, BetweenFiles, MountInv, On, Check
<1> QED BY <1>2, <1>3, <1>4

LEMMA FirmwareUpdateKeepsInv == StorageInv /\ FirmwareUpdate => StorageInv'
<1> SUFFICES ASSUME StorageInv, FirmwareUpdate PROVE StorageInv'
  OBVIOUS
<1> USE DEF StorageInv, FirmwareUpdate, storageVars, historyVars
<1>1. Idle /\ "residents" \notin known /\ dirty["residents"] = FALSE /\ Idle'
  BY OffIsQuiet DEF On, Idle
<1>2. LoadedInv' /\ KnownInv' /\ WriteInv'
  BY <1>1, NothingLoaded
<1>3. TypeInv'
  <2>1. faults' \in 0 .. MaxFaults
    BY MaxFaultsAssumption DEF Fault, TypeInv, TypeOK
  <2> QED BY <1>1, <2>1 DEF TypeInv, TypeOK, Running, IsSaved, Idle
<1>4. KeptInv' /\ DiskInv' /\ MountInv'
  BY DEF KeptInv, IsSaved, DiskInv, BetweenFiles, MountInv, On, Check
<1> QED BY <1>2, <1>3, <1>4

LEMMA StorageBeginsKeepsInv == StorageInv /\ StorageBegins => StorageInv'
<1> SUFFICES ASSUME StorageInv, StorageBegins PROVE StorageInv'
  OBVIOUS
<1> USE DEF StorageInv, StorageBegins
<1>1. Idle /\ "residents" \notin known /\ dirty["residents"] = FALSE /\ Idle'
  BY OffIsQuiet DEF On, Idle, Mount, MountFails
<1>2. LoadedInv' /\ KnownInv' /\ WriteInv'
  BY <1>1, NothingLoaded
<1>3. TypeInv'
  <2>1. faults' \in 0 .. MaxFaults
    BY MaxFaultsAssumption DEF Fault, TypeInv, TypeOK
  <2>2. mounted' \in BOOLEAN /\ DOMAIN disk' = Store /\ DOMAIN kept' = Store
    BY DEF TypeInv, TypeOK, Mount, MountFails
  <2> QED BY <1>1, <2>1, <2>2, Stores DEF TypeInv, TypeOK, Running, IsSaved, Idle
<1>4. CASE Mount /\ UNCHANGED <<kept, faults>>
  <2>1. KeptInv' /\ DiskInv' /\ MountInv'
    BY <1>4 DEF KeptInv, IsSaved, DiskInv, BetweenFiles, MountInv, On, Check, Mount
  <2> QED BY <1>2, <1>3, <2>1
<1>5. CASE MountFails /\ kept' = [s \in Store |-> Lost]
  <2>1. KeptInv' /\ MountInv'
    BY <1>5 DEF KeptInv, MountInv
  <2>2. \A s \in Store : disk'[s] = Blank /\ kept'[s] = Lost
    BY <1>5 DEF MountFails
  <2>3. DiskInv'
    BY <1>1, <2>2, BlankFails DEF DiskInv, Check
  <2> QED BY <1>2, <1>3, <2>1, <2>3
<1> QED BY <1>4, <1>5

LEMMA DamageKeepsInv == StorageInv /\ Damage => StorageInv'
<1> SUFFICES ASSUME StorageInv, Damage PROVE StorageInv'
  OBVIOUS
<1> USE DEF StorageInv, Damage
<1>1. /\ Idle /\ "residents" \notin known /\ dirty["residents"] = FALSE /\ Idle'
      /\ phase = "off" /\ phase' = "off" /\ writing' = writing /\ builtBy' = builtBy
      /\ backend' = backend
  BY OffIsQuiet DEF On, Idle
<1>2. LoadedInv' /\ KnownInv' /\ WriteInv'
  BY <1>1, NothingLoaded
<1>3. TypeInv'
  <2>1. faults' \in 0 .. MaxFaults
    BY MaxFaultsAssumption DEF Fault, TypeInv, TypeOK
  <2>2. DOMAIN disk' = Store /\ DOMAIN kept' = Store
    BY DEF TypeInv, TypeOK
  <2> QED BY <1>1, <2>1, <2>2 DEF TypeInv, TypeOK, Running, IsSaved, Idle
<1>4. PICK s \in Store : /\ kept[s] # Lost
                         /\ \E f \in Damaged(disk[s]) : disk' = [disk EXCEPT ![s] = f]
                         /\ kept' = [kept EXCEPT ![s] = Lost]
  OBVIOUS
<1>5. /\ kept'[s] = Lost /\ disk'[s] \in Damaged(disk[s])
      /\ \A t \in Store \ {s} : kept'[t] = kept[t] /\ disk'[t] = disk[t]
  BY <1>4 DEF TypeInv, TypeOK
<1>6. \A b \in Build : ~Check(b, s, disk'[s])
  <2>1. disk[s] = Encode(builtBy[s], s, kept[s]) /\ kept[s] \in Saved(s) /\ builtBy[s] \in Build
    BY <1>1, <1>4, IdleFacts DEF DiskInv, KeptInv, IsSaved, TypeInv
  <2> QED BY <1>5, <2>1, DamagedFails
<1>7. KeptInv'
  BY <1>1, <1>5 DEF KeptInv, IsSaved
<1>8. DiskInv'
  <2>1. ASSUME NEW t \in Store PROVE ~BetweenFiles(t) /\ ~BetweenFiles(t)'
    BY <1>1, IdleFacts DEF BetweenFiles
  <2>2. ASSUME NEW t \in Store \ {s}
        PROVE  IF kept'[t] = Lost THEN \A b \in Build : ~Check(b, t, disk'[t])
               ELSE disk'[t] = Encode(builtBy'[t], t, kept'[t])
    BY <1>1, <1>5, <2>1 DEF DiskInv
  <2> HIDE DEF StorageInv, Damage
  <2> QED BY <1>5, <1>6, <2>1, <2>2 DEF DiskInv, Check, Encode
<1>9. MountInv'
  BY <1>1 DEF MountInv, On
<1> QED BY <1>2, <1>3, <1>7, <1>8, <1>9

LEMMA PowerCutKeepsInv == StorageInv /\ PowerCut => StorageInv'
<1> SUFFICES ASSUME StorageInv, PowerCut PROVE StorageInv'
  OBVIOUS
<1> USE DEF StorageInv, PowerCut, StorageCut
<1>1. Idle' /\ "residents" \notin known' /\ dirty'["residents"] = FALSE /\ phase' = "off"
  BY DEF Idle, Store
<1>2. LoadedInv' /\ KnownInv' /\ WriteInv'
  BY <1>1, NothingLoaded
<1>3. TypeInv'
  <2>1. faults' \in 0 .. MaxFaults
    BY MaxFaultsAssumption DEF Fault, TypeInv, TypeOK
  <2>2. ASSUME NEW s \in Store PROVE IsSaved(s, mem[s])'
    <3>1. mem'[s] = Empty /\ backend \in Nat /\ backend' = backend
      BY RevisionsAreNat DEF TypeInv, TypeOK
    <3>2. IsSaved(s, Empty)'
      BY <3>1, EmptyIsSaved, SavedStays
    <3> QED BY <3>1, <3>2
  <2>3. at' \in DOMAIN Order /\ dirty' \in [Store -> BOOLEAN] /\ DOMAIN kept' = Store
    BY Stores
  <2> QED BY <1>1, <2>1, <2>2, <2>3 DEF TypeInv, TypeOK, Running, Idle
<1>4. \A s \in Store : kept'[s] = IF BetweenFiles(s) THEN Lost ELSE kept[s]
  OBVIOUS
<1>5. KeptInv'
  BY <1>4 DEF KeptInv, IsSaved
<1>6. DiskInv'
  <2>1. \A s : ~BetweenFiles(s)'
    BY <1>1 DEF BetweenFiles, NoWrite, Idle
  <2> QED BY <1>4, <2>1, BlankFails DEF DiskInv, Check
<1>7. MountInv'
  BY <1>1 DEF MountInv, On
<1> QED BY <1>2, <1>3, <1>5, <1>6, <1>7

----------------------------------------------------------------------------
(* setup() loads the stores *)

LEMMA DecodedQueue ==
    ASSUME NEW b \in Build, NEW q \in Seq(Record("queue"))
    PROVE  LET d == [i \in DOMAIN q |-> DecodedEntry(b, q[i])]
           IN  /\ d \in Seq(Record("queue")) /\ Len(d) = Len(q) /\ DOMAIN d = DOMAIN q
               /\ \A i \in DOMAIN d : DecodedEntry(b, d[i]) = d[i]
<1> DEFINE d == [i \in DOMAIN q |-> DecodedEntry(b, q[i])]
<1>1. DOMAIN q = 1 .. Len(q) /\ Len(q) \in Nat /\ \A i \in DOMAIN q : q[i] \in [kind : Kind]
  BY LenProperties, ElementOfSeq DEF Record
<1>2. ASSUME NEW i \in DOMAIN q
      PROVE  d[i] \in [kind : Kind] /\ DecodedEntry(b, d[i]) = d[i]
  <2>1. CASE q[i].kind \in b.kinds
    BY <1>1, <2>1 DEF DecodedEntry
  <2>2. CASE q[i].kind \notin b.kinds
    BY <1>1, <2>2, BuildAssumption DEF DecodedEntry
  <2> QED BY <2>1, <2>2
<1>3. d \in [1 .. Len(q) -> Record("queue")]
  <2>1. Record("queue") = [kind : Kind]
    BY DEF Record
  <2> HIDE DEF d
  <2>2. d = [i \in 1 .. Len(q) |-> d[i]]
    BY <1>1 DEF d
  <2> QED BY <1>1, <1>2, <2>1, <2>2
<1>4. d \in Seq(Record("queue")) /\ Len(d) = Len(q)
  <2> HIDE DEF d
  <2>1. d \in Seq(Record("queue"))
    BY <1>1, <1>3, SeqDef
  <2> QED BY <1>1, <1>3, <2>1, LenProperties
<1>5. DOMAIN d = DOMAIN q
  OBVIOUS
<1> HIDE DEF d
<1>6. \A i \in DOMAIN d : DecodedEntry(b, d[i]) = d[i]
  BY <1>2, <1>5
<1> QED BY <1>4, <1>5, <1>6 DEF d

\* What a store starts with is of its type and fits.
LEMMA FallbackIsSaved ==
    ASSUME TypeInv, NEW s \in Store
    PROVE  IsSaved(s, Fallback(s)) /\ Len(Fallback(s).records) <= build.capacity[s]
<1>1. build \in Build /\ backend \in Nat
  BY RevisionsAreNat DEF TypeInv, TypeOK
<1>2. build.capacity[s] \in Nat \ {0} /\ build.seed \in Nat
  BY <1>1, BuildTypes
<1>3. CASE s = "catalog"
  <2> DEFINE l == <<[from |-> build.seed, edited |-> FALSE]>>
  <2>1. l \in Seq(CatalogItem) /\ Len(l) = 1
    BY <1>2 DEF CatalogItem
  <2>2. Fallback(s) = [revision |-> 0, records |-> l]
    BY <1>3 DEF Fallback, Seed, Value
  <2>3. Record(s) = CatalogItem
    BY <1>3 DEF Record
  <2> HIDE DEF l
  <2>4. Fallback(s) \in Saved(s)
    BY <2>1, <2>2, <2>3 DEF Saved
  <2>5. Fallback(s).revision = 0 /\ Len(Fallback(s).records) = 1
    BY <2>1, <2>2
  <2>6. Fallback(s).revision <= backend /\ Len(Fallback(s).records) <= build.capacity[s]
    BY <1>1, <1>2, <2>5
  <2> QED BY <1>3, <2>4, <2>6 DEF IsSaved
<1>4. CASE s = "residents"
  <2>1. Fallback(s) = [revision |-> 0, records |-> Defaults]
    BY <1>4 DEF Fallback, Value
  <2>2. Defaults \in Seq(Record("residents")) /\ Len(Defaults) <= build.capacity["residents"]
    BY <1>1, ServedAssumption DEF Lists
  <2> QED BY <1>1, <1>4, <2>1, <2>2 DEF IsSaved, Saved
<1>5. CASE s \in {"queue", "summary"}
  <2>1. Fallback(s) = Empty /\ Len(Empty.records) = 0
    BY <1>5 DEF Fallback, Empty, Value
  <2> QED BY <1>1, <1>2, <2>1, EmptyIsSaved
<1> QED BY <1>3, <1>4, <1>5 DEF Store

LEMMA RestoredIsSaved ==
    ASSUME TypeInv, KeptInv, NEW s \in Store
    PROVE  IsSaved(s, Restored(s)) /\ Len(Restored(s).records) <= build.capacity[s]
<1>1. CASE ~Usable(s)
  BY <1>1, FallbackIsSaved DEF Restored
<1>2. CASE Usable(s) /\ s # "queue"
  BY <1>2 DEF Restored, Usable, KeptInv
<1>3. CASE Usable(s) /\ s = "queue"
  <2> DEFINE d == [i \in DOMAIN kept[s].records |-> DecodedEntry(build, kept[s].records[i])]
  <2>1. build \in Build /\ kept[s].records \in Seq(Record("queue"))
        /\ Len(kept[s].records) <= build.capacity[s]
    BY <1>3 DEF TypeInv, TypeOK, KeptInv, IsSaved, Saved, Usable
  <2>2. d \in Seq(Record("queue")) /\ Len(d) <= build.capacity[s]
    BY <2>1, DecodedQueue
  <2>3. Restored(s) = [revision |-> 0, records |-> d]
    BY <1>3 DEF Restored, Value
  <2> HIDE DEF d
  <2> QED BY <1>3, <2>2, <2>3 DEF IsSaved, Saved
<1> QED BY <1>1, <1>2, <1>3

\* What a restart restores would be restored again.
LEMMA RestoredIsSound ==
    ASSUME TypeInv, KeptInv, NEW s \in Store, mem'[s] = Restored(s), build' = build,
           s = "residents" =>
               IF Usable(s) THEN s \in known' ELSE s \notin known'
    PROVE  Sound(s)'
<1>1. Len(mem'[s].records) <= build'.capacity[s]
  BY RestoredIsSaved
<1>2. CASE s = "catalog"
  <2>1. ASSUME mem'[s].revision = 0
        PROVE  mem'[s].records[1].from = build.seed
    <3>1. CASE Usable(s)
      <4>1. Restored(s) = kept[s] /\ kept[s] # Lost
        BY <1>2, <3>1 DEF Restored, Usable
      <4>2. kept[s].revision = 0 => /\ builtBy[s].seed = build.seed
                                    /\ kept[s].records[1].from = builtBy[s].seed
        BY <1>2, <3>1 DEF Usable, KeptInv
      <4> QED BY <2>1, <4>1, <4>2
    <3>2. CASE ~Usable(s)
      <4>1. Restored(s) = [revision |-> 0,
                           records |-> <<[from |-> build.seed, edited |-> FALSE]>>]
        BY <1>2, <3>2 DEF Restored, Fallback, Seed, Value
      <4> QED BY <4>1
    <3> QED BY <3>1, <3>2
  <2> QED BY <1>1, <1>2, <2>1 DEF Sound
<1>3. CASE s = "residents"
  <2>1. CASE Usable(s)
    <3>1. Restored(s) = kept[s] /\ kept[s] # Lost /\ kept[s].records # <<>> /\ s \in known'
      BY <1>3, <2>1 DEF Restored, Usable
    <3>2. \E r \in Revision : kept[s].records = Served[r][s]
      BY <1>3, <3>1 DEF KeptInv
    <3> QED BY <1>1, <1>3, <3>1, <3>2 DEF Sound
  <2>2. CASE ~Usable(s)
    <3>1. mem'[s].records = Defaults /\ s \notin known' /\ Defaults # <<>>
      BY <1>3, <2>2, ServedAssumption DEF Restored, Fallback, Value
    <3> QED BY <1>1, <1>3, <3>1 DEF Sound
  <2> QED BY <2>1, <2>2
<1>4. CASE s = "queue"
  <2>1. ASSUME NEW i \in DOMAIN mem'[s].records
        PROVE  DecodedEntry(build, mem'[s].records[i]) = mem'[s].records[i]
    <3>1. CASE Usable(s)
      <4>1. build \in Build /\ kept[s].records \in Seq(Record("queue"))
        BY <1>4, <3>1 DEF TypeInv, TypeOK, KeptInv, IsSaved, Saved, Usable
      <4>2. mem'[s].records = [j \in DOMAIN kept[s].records |->
                                  DecodedEntry(build, kept[s].records[j])]
        BY <1>4, <3>1 DEF Restored, Value
      <4> QED BY <2>1, <4>1, <4>2, DecodedQueue
    <3>2. CASE ~Usable(s)
      <4>1. mem'[s].records = <<>>
        BY <1>4, <3>2 DEF Restored, Fallback, Empty, Value
      <4> QED BY <2>1, <4>1
    <3> QED BY <3>1, <3>2
  <2> QED BY <1>1, <1>4, <2>1 DEF Sound, DecodedEntry
<1>5. CASE s = "summary"
  BY <1>1, <1>5 DEF Sound
<1> QED BY <1>2, <1>3, <1>4, <1>5 DEF Store

\* LoadStored and FallBack, seen together: the store gets what a restart
\* restores, and either the next one is loaded or the new catalog is saved.
LEMMA LoadEffect ==
    ASSUME StorageInv, Load
    PROVE  LET s == Current
           IN  /\ phase = "load" /\ Idle /\ at \in 1 .. 4 /\ s \in Store /\ Place(s) = at
               /\ UNCHANGED <<disk, mounted, build, backend, faults, kept, builtBy, synced>>
               /\ DOMAIN mem' = Store /\ mem'[s] = Restored(s)
               /\ \A t \in Store \ {s} : mem'[t] = mem[t] /\ dirty'[t] = dirty[t]
               /\ dirty' \in [Store -> BOOLEAN] /\ (s = "residents" => dirty'[s] = FALSE)
               /\ known' = IF Usable(s) THEN known \cup ({s} \cap {"residents", "summary"})
                                        ELSE known
               /\ \/ Advance /\ UNCHANGED writing
                  \/ /\ s = "catalog" /\ dirty'[s] = TRUE /\ UNCHANGED <<phase, at>>
                     /\ StartWrite(s, Encode(build, s, mem'[s]))
               /\ s = "queue" => /\ Advance
                                 /\ dirty'[s] = FALSE \/ Restored(s) = Empty
                                 /\ Usable(s) => dirty'[s] = FALSE
<1> DEFINE s == Current
<1>1. phase = "load" /\ Idle /\ at \in 1 .. 4 /\ s \in Store /\ Place(s) = at
  BY Stores DEF Load, StorageInv, TypeInv, TypeOK, Current
<1>2. /\ FromFile(s) <=> Usable(s)
      /\ FromFile(s) => Decode(build, s, disk[s]) = Restored(s)
      /\ ~FromFile(s) => Fallback(s) = Restored(s)
  BY <1>1, StoredGives, IdleFacts DEF On, StorageInv
<1>3. DOMAIN mem = Store /\ dirty \in [Store -> BOOLEAN]
  BY DEF StorageInv, TypeInv, TypeOK
<1>4. UNCHANGED <<disk, mounted, build, backend, faults, kept, builtBy, synced>>
  BY DEF Load, LoadStored, FallBack, storageVars, historyVars, Flush, StartWrite
<1>5. CASE LoadStored
  <2>1. mem' = [mem EXCEPT ![s] = Restored(s)] /\ dirty' = [dirty EXCEPT ![s] = FALSE]
    BY <1>2, <1>5 DEF LoadStored, SetMem, SetDirty
  <2>2. /\ known' = known \cup ({s} \cap {"residents", "summary"})
        /\ Advance /\ UNCHANGED writing /\ Usable(s)
    BY <1>2, <1>5 DEF LoadStored, storageVars
  <2> HIDE DEF s
  <2> QED BY <1>1, <1>3, <1>4, <2>1, <2>2 DEF s
<1>6. CASE FallBack
  <2>1. /\ mem' = [mem EXCEPT ![s] = Restored(s)] /\ known' = known /\ ~Usable(s)
    BY <1>2, <1>6 DEF FallBack, SetMem
  <2>2. CASE s = "catalog"
    <3>1. /\ dirty' = [dirty EXCEPT ![s] = TRUE] /\ UNCHANGED <<phase, at>>
          /\ StartWrite(s, Encode(build, s, mem'[s]))
      BY <1>6, <2>2 DEF FallBack, SetDirty, Flush
    <3> HIDE DEF s
    <3> QED BY <1>1, <1>3, <1>4, <2>1, <2>2, <3>1 DEF s
  <2>3. CASE s # "catalog"
    <3>1. /\ dirty' = [dirty EXCEPT ![s] = (s = "queue" /\ Readable(build, "queue"))]
          /\ Advance /\ UNCHANGED writing
      BY <1>6, <2>3 DEF FallBack, SetDirty, storageVars
    <3>2. s = "queue" => Restored(s) = Empty
      BY <2>1 DEF Restored, Fallback
    <3> HIDE DEF s
    <3> QED BY <1>1, <1>3, <1>4, <2>1, <2>3, <3>1, <3>2 DEF s
  <2> QED BY <2>2, <2>3
<1> QED BY <1>5, <1>6 DEF Load

LEMMA LoadKeepsInv == StorageInv /\ Load => StorageInv'
<1> SUFFICES ASSUME StorageInv, Load PROVE StorageInv'
  OBVIOUS
<1>0. PICK s \in Store : s = Current
  BY LoadEffect
<1>1. /\ phase = "load" /\ Idle /\ at \in 1 .. 4 /\ s \in Store /\ Place(s) = at
      /\ UNCHANGED <<disk, mounted, build, backend, faults, kept, builtBy, synced>>
      /\ DOMAIN mem' = Store /\ mem'[s] = Restored(s)
      /\ \A t \in Store \ {s} : mem'[t] = mem[t] /\ dirty'[t] = dirty[t]
      /\ dirty' \in [Store -> BOOLEAN] /\ (s = "residents" => dirty'[s] = FALSE)
      /\ known' = IF Usable(s) THEN known \cup ({s} \cap {"residents", "summary"}) ELSE known
  BY <1>0, LoadEffect
<1>2. \/ Advance /\ UNCHANGED writing
      \/ /\ s = "catalog" /\ dirty'[s] = TRUE /\ UNCHANGED <<phase, at>>
         /\ StartWrite(s, Encode(build, s, mem'[s]))
  BY <1>0, LoadEffect
<1>a. build' = build /\ backend' = backend /\ kept' = kept /\ builtBy' = builtBy /\ disk' = disk
  BY <1>1
<1> USE DEF StorageInv
<1>3. Sound(s)'
  <2>1. s = "residents" => s \notin known
    BY <1>1, Stores DEF KnownInv, Loaded, Running
  <2>2. s = "residents" => IF Usable(s) THEN s \in known' ELSE s \notin known'
    BY <1>1, <2>1
  <2> QED BY <1>1, <2>2, RestoredIsSound
<1>4. \A t \in Store : Restored(t)' = Restored(t)
  BY <1>a, RestoredSame
<1>5. ASSUME NEW t \in Store, t # s, Loaded(t)
      PROVE  Sound(t)' /\ (~dirty'[t] => mem'[t] = Restored(t)')
  <2>1. Sound(t) /\ (~dirty[t] => mem[t] = Restored(t))
    BY <1>5 DEF LoadedInv
  <2>2. t = "residents" => (t \in known' <=> t \in known)
    BY <1>1, <1>5
  <2>3. Sound(t)'
    BY <1>1, <1>5, <1>a, <2>1, <2>2, SoundSame
  <2> QED BY <1>1, <1>4, <1>5, <2>1, <2>3
<1>6. /\ \A t \in Store : Loaded(t)' => Loaded(t) \/ (t = s /\ Loaded(s)' /\ Advance)
      /\ \A t \in Store : Loaded(t) => Loaded(t)'
      /\ phase' \in {"load", "loop"} /\ at' \in 1 .. 4
  <2>1. CASE Advance
    BY <1>1, <2>1, Stores DEF Advance, Loaded, Running
  <2>2. CASE UNCHANGED <<phase, at>>
    BY <1>1, <2>2 DEF Loaded, Running
  <2> QED BY <1>2, <2>1, <2>2
<1>7. LoadedInv'
  BY <1>1, <1>3, <1>4, <1>5, <1>6 DEF LoadedInv
<1>8. KnownInv'
  <2>1. CASE s = "residents"
    <3>1. Loaded(s)'
      BY <1>1, <1>2, <2>1, Stores DEF Advance, Loaded, Running
    <3> QED BY <1>1, <2>1, <3>1 DEF KnownInv
  <2>2. CASE s # "residents"
    <3>1. /\ "residents" \in known' <=> "residents" \in known
          /\ "residents" \in Store \ {s}
      BY <1>1, <2>2 DEF Store
    <3> QED BY <1>1, <1>6, <3>1 DEF KnownInv
  <2> QED BY <2>1, <2>2
<1>9. WriteInv'
  <2>1. CASE UNCHANGED writing
    BY <1>1, <2>1 DEF WriteInv, Idle
  <2>2. CASE /\ s = "catalog" /\ dirty'[s] = TRUE /\ UNCHANGED <<phase, at>>
             /\ StartWrite(s, Encode(build, s, mem'[s]))
    <3>1. On' /\ phase' = "load" /\ at' = 1
      BY <1>1, <2>2 DEF On, Place
    <3> QED BY <1>3, <1>a, <2>2, <3>1, StartWriteEffect
  <2> QED BY <1>2, <2>1, <2>2
<1>10. TypeInv'
  <2>1. ASSUME NEW t \in Store PROVE IsSaved(t, mem[t])'
    <3>1. IsSaved(t, mem'[t])
      BY <1>1, RestoredIsSaved DEF TypeInv
    <3> QED BY <1>a, <3>1 DEF IsSaved
  <2>2. writing' # NoWrite => writing'.step \in Steps /\ writing'.store \in Store
    BY <1>1, <1>2 DEF StartWrite, Steps, Idle
  <2>3. known' \subseteq {"residents", "summary"}
    BY <1>1 DEF TypeInv, TypeOK
  <2>4. at' \in DOMAIN Order
    BY <1>6, Stores
  <2>5. Running' => \A t \in Store : Len(mem'[t].records) <= build'.capacity[t]
    BY <1>7, CapacityKept
  <2> QED BY <1>1, <1>6, <2>1, <2>2, <2>3, <2>4, <2>5 DEF TypeInv, TypeOK, Running
<1>11. KeptInv'
  BY <1>a DEF KeptInv, IsSaved
<1>12. DiskInv'
  <2>1. ASSUME NEW t \in Store PROVE ~BetweenFiles(t) /\ ~BetweenFiles(t)'
    <3>1. writing'.step # "rename"
      BY <1>1, <1>2, IdleFacts DEF StartWrite
    <3> QED BY <1>1, <3>1, IdleFacts DEF BetweenFiles
  <2> QED BY <1>a, <2>1 DEF DiskInv, Check
<1>13. MountInv'
  BY <1>1, <1>a DEF MountInv, On
<1> QED BY <1>7, <1>8, <1>9, <1>10, <1>11, <1>12, <1>13

----------------------------------------------------------------------------
(* loop(): the events *)

\* An event may change what memory holds; it leaves the files alone, marks what
\* it has changed, and leaves only what a restart would take.
LEMMA EventKeepsInv ==
    ASSUME StorageInv, Event, UNCHANGED <<disk, mounted>>, synced' \in BOOLEAN,
           phase' \in {"loop", "flush"}, at' \in 1 .. 4,
           DOMAIN mem' = Store, \A s \in Store : IsSaved(s, mem'[s]) /\ Sound(s)',
           dirty' \in [Store -> BOOLEAN],
           \A s \in Store : ~dirty'[s] => ~dirty[s] /\ mem'[s] = mem[s],
           known' \subseteq {"residents", "summary"},
           dirty'["residents"] => "residents" \in known',
           WriteInv', writing'.step \notin {"rename", "written"},
           writing' # NoWrite => writing'.step \in Steps /\ writing'.store \in Store
    PROVE  StorageInv'
<1> USE DEF StorageInv, Event
<1>1. /\ phase = "loop" /\ Idle /\ build' = build /\ backend' = backend /\ kept' = kept
      /\ builtBy' = builtBy /\ faults' = faults /\ disk' = disk /\ mounted' = mounted
  OBVIOUS
<1>2. LoadedInv'
  <2>1. ASSUME NEW s \in Store, ~dirty'[s] PROVE mem'[s] = Restored(s)'
    <3>1. mem[s] = Restored(s)
      BY <1>1, <2>1 DEF LoadedInv, Loaded, Running
    <3> QED BY <1>1, <2>1, <3>1, RestoredSame
  <2> QED BY <2>1 DEF LoadedInv
<1>3. KnownInv'
  BY <1>1 DEF KnownInv, Loaded, Running
<1>4. TypeInv'
  <2>1. \A s \in Store : IsSaved(s, mem[s])'
    BY <1>1 DEF IsSaved
  <2>2. Running' => \A s \in Store : Len(mem'[s].records) <= build'.capacity[s]
    BY <1>2, CapacityKept
  <2>3. at' \in DOMAIN Order
    BY Stores
  <2> QED BY <1>1, <2>1, <2>2, <2>3 DEF TypeInv, TypeOK
<1>5. KeptInv'
  BY <1>1 DEF KeptInv, IsSaved
<1>6. DiskInv'
  <2>1. ASSUME NEW s \in Store PROVE ~BetweenFiles(s) /\ ~BetweenFiles(s)'
    BY <1>1, IdleFacts DEF BetweenFiles
  <2> QED BY <1>1, <2>1 DEF DiskInv, Check
<1>7. MountInv'
  BY <1>1 DEF MountInv, On
<1> QED BY <1>2, <1>3, <1>4, <1>5, <1>6, <1>7

\* Between events everything is loaded.
LEMMA EventFacts ==
    ASSUME StorageInv, phase = "loop"
    PROVE  /\ DOMAIN mem = Store /\ dirty \in [Store -> BOOLEAN] /\ build \in Build
           /\ known \subseteq {"residents", "summary"}
           /\ backend \in Revision /\ backend \in Nat
           /\ \A s \in Store : IsSaved(s, mem[s]) /\ Sound(s)
           /\ dirty["residents"] => "residents" \in known
BY RevisionsAreNat DEF StorageInv, TypeInv, TypeOK, LoadedInv, Loaded, Running, KnownInv

\* When nothing is being written before an event or after it.
LEMMA StillIdle ==
    ASSUME Idle, UNCHANGED writing
    PROVE  WriteInv' /\ writing'.step \notin {"rename", "written"} /\ writing' = NoWrite
BY IdleFacts DEF Idle, WriteInv

LEMMA NothingHappensKeepsInv == StorageInv /\ NothingHappens => StorageInv'
<1> SUFFICES ASSUME StorageInv, NothingHappens PROVE StorageInv'
  OBVIOUS
<1>1. /\ Event /\ phase = "loop" /\ Idle /\ phase' = "flush" /\ at' = 1 /\ build' = build
      /\ mem' = mem /\ dirty' = dirty /\ known' = known /\ synced' = synced
      /\ UNCHANGED <<disk, mounted>> /\ UNCHANGED writing
  BY DEF NothingHappens, Event, ToFlush, storageVars
<1>2. \A s \in Store : Sound(s)'
  BY <1>1, EventFacts, SoundSame
<1>3. synced' \in BOOLEAN
  BY <1>1 DEF StorageInv, TypeInv, TypeOK
<1> QED BY <1>1, <1>2, <1>3, EventFacts, StillIdle, EventKeepsInv

LEMMA TailOfQueue ==
    ASSUME NEW S, NEW q \in Seq(S), q # <<>>
    PROVE  /\ Tail(q) \in Seq(S) /\ Len(Tail(q)) = Len(q) - 1 /\ Len(q) \in Nat
           /\ DOMAIN Tail(q) = 1 .. (Len(q) - 1) /\ DOMAIN q = 1 .. Len(q)
           /\ \A i \in DOMAIN Tail(q) : i + 1 \in DOMAIN q /\ Tail(q)[i] = q[i + 1]
           /\ Tail(q) # q
<1>1. /\ Tail(q) \in Seq(S) /\ Len(Tail(q)) = Len(q) - 1 /\ Len(q) \in Nat
      /\ \A i \in 1 .. Len(Tail(q)) : Tail(q)[i] = q[i + 1]
  BY HeadTailProperties, LenProperties
<1>2. DOMAIN Tail(q) = 1 .. Len(Tail(q)) /\ DOMAIN q = 1 .. Len(q)
  BY <1>1, LenProperties
<1>3. \A i \in DOMAIN Tail(q) : i \in Nat /\ i + 1 \in DOMAIN q
  BY <1>1, <1>2
<1>4. Tail(q) # q
  <2> DEFINE m == Len(Tail(q))
             n == Len(q)
  <2>1. m = n - 1 /\ n \in Nat
    BY <1>1
  <2> HIDE DEF m, n
  <2>2. m # n
    BY <2>1
  <2> QED BY <2>2 DEF m, n
<1> QED BY <1>1, <1>2, <1>3, <1>4

LEMMA AcknowledgedKeepsInv == StorageInv /\ Acknowledged => StorageInv'
<1> SUFFICES ASSUME StorageInv, Acknowledged PROVE StorageInv'
  OBVIOUS
<1> DEFINE q == mem["queue"].records
<1>1. /\ Event /\ phase = "loop" /\ Idle /\ phase' = "flush" /\ at' = 1 /\ build' = build
      /\ known' = known /\ synced' = synced /\ UNCHANGED <<disk, mounted>> /\ UNCHANGED writing
      /\ q # <<>> /\ mem' = [mem EXCEPT !["queue"] = Value(Tail(q))]
      /\ dirty' = [dirty EXCEPT !["queue"] = TRUE]
  BY DEF Acknowledged, Event, ToFlush, storageVars, SetMem, SetDirty
<1>2. mem["queue"] \in Saved("queue") /\ Sound("queue") /\ "queue" \in Store /\ build \in Build
  BY <1>1, EventFacts DEF IsSaved, Store
<1>3. q \in Seq(Record("queue"))
  BY <1>2 DEF Saved
<1> HIDE DEF q
<1>4. /\ DOMAIN mem' = Store /\ mem'["queue"] = [revision |-> 0, records |-> Tail(q)]
      /\ \A s \in Store \ {"queue"} : mem'[s] = mem[s]
      /\ dirty' \in [Store -> BOOLEAN] /\ dirty'["queue"] = TRUE
      /\ \A s \in Store \ {"queue"} : dirty'[s] = dirty[s]
  BY <1>1, <1>2, EventFacts DEF Value
<1>5. IsSaved("queue", mem'["queue"])
  BY <1>1, <1>3, <1>4, TailOfQueue DEF IsSaved, Saved
<1>6. Sound("queue")'
  <2>1. Len(q) <= build.capacity["queue"] /\ build.capacity["queue"] \in Nat
    BY <1>2, BuildTypes DEF Sound, q
  <2>2. Len(Tail(q)) <= build.capacity["queue"]
    BY <1>1, <1>3, <2>1, TailOfQueue
  <2>3. \A i \in DOMAIN q : DecodedEntry(build, q[i]) = q[i]
    BY <1>2 DEF Sound, q
  <2>4. \A i \in DOMAIN Tail(q) : DecodedEntry(build, Tail(q)[i]) = Tail(q)[i]
    BY <1>1, <1>3, <2>3, TailOfQueue
  <2> QED BY <1>1, <1>4, <2>2, <2>4 DEF Sound, DecodedEntry
<1>7. \A s \in Store : IsSaved(s, mem'[s]) /\ Sound(s)'
  BY <1>1, <1>4, <1>5, <1>6, EventFacts, SoundSame
<1>8. synced' \in BOOLEAN
  BY <1>1 DEF StorageInv, TypeInv, TypeOK
<1>9. "residents" \in Store \ {"queue"}
  BY DEF Store
<1> QED BY <1>1, <1>4, <1>7, <1>8, <1>9, EventFacts, StillIdle, EventKeepsInv

\* What a sync brings is of its type and fits.
LEMMA ServedIsSaved ==
    ASSUME NEW s \in Store \ {"queue"}, backend \in Revision, build \in Build
    PROVE  LET l == Served[backend][s]
           IN  /\ Len(l) <= build.capacity[s]
               /\ [revision |-> backend, records |-> l] \in Saved(s)
               /\ Value(l) \in Saved(s) /\ Value(l).revision = 0 /\ Value(l).records = l
<1>1. Served[backend][s] \in Lists(s) /\ backend \in Nat
  BY ServedAssumption
<1>2. /\ Served[backend][s] \in Seq(Record(s))
      /\ Len(Served[backend][s]) <= build.capacity[s]
  BY <1>1 DEF Lists
<1> QED BY <1>1, <1>2 DEF Saved, Value

LEMMA SyncKeepsInv == StorageInv /\ Sync => StorageInv'
<1> SUFFICES ASSUME StorageInv, Sync PROVE StorageInv'
  OBVIOUS
<1> DEFINE new == Served[backend]
           lists == ~Queued(Kind \ {"purchase"}) /\ backend # mem["catalog"].revision
           people == lists /\ new["residents"] # <<>>
<1>1. /\ Event /\ phase = "loop" /\ Idle /\ phase' = "flush" /\ at' = 1 /\ build' = build
      /\ backend' = backend /\ UNCHANGED <<disk, mounted>> /\ UNCHANGED writing
      /\ known' = known \cup {"summary"} \cup IF people THEN {"residents"} ELSE {}
      /\ synced' \in BOOLEAN
  BY DEF Sync, Event, ToFlush, storageVars, StorageInv, TypeInv, TypeOK
<1>2. mem' = [s \in Store |->
                 CASE s = "summary" -> Value(new[s])
                   [] s = "residents" /\ people -> Value(new[s])
                   [] s = "catalog" /\ lists -> [revision |-> backend, records |-> new[s]]
                   [] OTHER -> mem[s]]
  BY DEF Sync
<1>3. dirty' = [s \in Store |-> \/ dirty[s] \/ s = "summary"
                              \/ (s = "residents" /\ people)
                              \/ (s = "catalog" /\ lists)]
  BY DEF Sync
<1>4. /\ backend \in Revision /\ backend \in Nat /\ build \in Build
      /\ \A s \in Store : IsSaved(s, mem[s]) /\ Sound(s)
      /\ known \subseteq {"residents", "summary"}
      /\ dirty["residents"] => "residents" \in known
  BY <1>1, EventFacts
<1> HIDE DEF new, lists, people
<1>5. ASSUME NEW s \in Store \ {"queue"}
      PROVE  /\ Len(new[s]) <= build.capacity[s]
             /\ [revision |-> backend, records |-> new[s]] \in Saved(s)
             /\ Value(new[s]) \in Saved(s) /\ Value(new[s]).revision = 0
             /\ Value(new[s]).records = new[s]
  BY <1>4, <1>5, ServedIsSaved DEF new
<1>6. ASSUME NEW s \in Store, mem'[s] = mem[s], s = "residents" => (s \in known' <=> s \in known)
      PROVE  IsSaved(s, mem'[s]) /\ Sound(s)'
  BY <1>1, <1>4, <1>6, SoundSame
<1>7. IsSaved("summary", mem'["summary"]) /\ Sound("summary")'
  <2>1. mem'["summary"] = Value(new["summary"]) /\ "summary" \in Store \ {"queue"}
    BY <1>2 DEF Store
  <2> QED BY <1>1, <1>5, <2>1 DEF IsSaved, Sound
<1>8. IsSaved("queue", mem'["queue"]) /\ Sound("queue")'
  <2>1. mem'["queue"] = mem["queue"] /\ "queue" \in Store
    BY <1>2 DEF Store
  <2> QED BY <1>6, <2>1
<1>9. IsSaved("residents", mem'["residents"]) /\ Sound("residents")'
  <2>1. "residents" \in Store \ {"queue"}
    BY DEF Store
  <2>2. CASE people
    <3>1. mem'["residents"] = Value(new["residents"]) /\ "residents" \in known'
          /\ new["residents"] # <<>>
      BY <1>1, <1>2, <2>1, <2>2 DEF people
    <3>2. mem'["residents"].records = Served[backend]["residents"]
      BY <1>5, <2>1, <3>1 DEF new
    <3>3. IsSaved("residents", mem'["residents"])
      BY <1>5, <2>1, <3>1 DEF IsSaved
    <3>4. Len(mem'["residents"].records) <= build.capacity["residents"]
          /\ mem'["residents"].records # <<>>
      BY <1>5, <2>1, <3>1
    <3> QED BY <1>1, <1>4, <3>1, <3>2, <3>3, <3>4 DEF Sound
  <2>3. CASE ~people
    <3>1. mem'["residents"] = mem["residents"] /\ ("residents" \in known' <=> "residents" \in known)
      BY <1>1, <1>2, <2>1, <2>3
    <3> QED BY <1>6, <2>1, <3>1
  <2> QED BY <2>2, <2>3
<1>10. IsSaved("catalog", mem'["catalog"]) /\ Sound("catalog")'
  <2>1. "catalog" \in Store \ {"queue"}
    BY DEF Store
  <2>2. CASE lists
    <3>1. mem'["catalog"] = [revision |-> backend, records |-> new["catalog"]]
      BY <1>2, <2>1, <2>2
    \* The backend is past the revision it is not equal to.
    <3>2. backend # 0
      <4>1. mem["catalog"].revision <= backend /\ mem["catalog"].revision \in Nat
            /\ backend # mem["catalog"].revision
        BY <1>4, <2>1, <2>2 DEF IsSaved, Saved, lists
      <4> QED BY <1>4, <4>1
    <3>3. mem'["catalog"].revision = backend /\ mem'["catalog"].records = new["catalog"]
          /\ mem'["catalog"] \in Saved("catalog")
      BY <1>5, <2>1, <3>1
    <3>4. IsSaved("catalog", mem'["catalog"])
      BY <1>4, <3>3 DEF IsSaved
    <3>5. Sound("catalog")'
      BY <1>1, <1>5, <2>1, <3>2, <3>3 DEF Sound
    <3> QED BY <3>4, <3>5
  <2>3. CASE ~lists
    <3>1. mem'["catalog"] = mem["catalog"]
      BY <1>2, <2>1, <2>3
    <3> QED BY <1>6, <2>1, <3>1
  <2> QED BY <2>2, <2>3
<1>11. \A s \in Store : IsSaved(s, mem'[s]) /\ Sound(s)'
  BY <1>7, <1>8, <1>9, <1>10 DEF Store
<1>12. \A s \in Store : ~dirty'[s] => ~dirty[s] /\ mem'[s] = mem[s]
  BY <1>2, <1>3
<1>13. dirty'["residents"] => "residents" \in known'
  BY <1>1, <1>3, <1>4 DEF Store
<1>14. DOMAIN mem' = Store /\ dirty' \in [Store -> BOOLEAN]
       /\ known' \subseteq {"residents", "summary"}
  <2>1. dirty \in [Store -> BOOLEAN] /\ lists \in BOOLEAN /\ people \in BOOLEAN
    BY <1>1, EventFacts DEF lists, people
  <2> QED BY <1>1, <1>2, <1>3, <1>4, <2>1
<1> QED BY <1>1, <1>11, <1>12, <1>13, <1>14, StillIdle, EventKeepsInv

LEMMA AppendToQueue ==
    ASSUME NEW S, NEW q \in Seq(S), NEW e \in S
    PROVE  /\ Append(q, e) \in Seq(S) /\ Len(Append(q, e)) = Len(q) + 1 /\ Len(q) \in Nat
           /\ \A i \in DOMAIN Append(q, e) :
                 \/ i \in DOMAIN q /\ Append(q, e)[i] = q[i]
                 \/ Append(q, e)[i] = e
           /\ Append(q, e) # q
<1> DEFINE n == Len(q)
           a == Append(q, e)
<1>1. /\ a \in Seq(S) /\ Len(a) = n + 1 /\ n \in Nat
      /\ \A i \in 1 .. n : a[i] = q[i]
      /\ a[n + 1] = e
  BY AppendProperties, LenProperties
<1>2. DOMAIN a = 1 .. (n + 1) /\ DOMAIN q = 1 .. n
  BY <1>1, LenProperties
<1>3. \A i \in 1 .. (n + 1) : i \in 1 .. n \/ i = n + 1
  BY <1>1
<1> HIDE DEF a, n
<1>4. a # q
  <2>1. Len(a) # n
    BY <1>1
  <2> QED BY <2>1 DEF n
<1>5. \A i \in DOMAIN a : (i \in DOMAIN q /\ a[i] = q[i]) \/ a[i] = e
  BY <1>1, <1>2, <1>3
<1> QED BY <1>1, <1>4, <1>5 DEF a, n

\* An edit keeps what the items descend from.
LEMMA EditedItems ==
    ASSUME NEW l \in Seq(CatalogItem)
    PROVE  /\ Edited(l) \in Seq(CatalogItem) /\ Len(Edited(l)) = Len(l)
           /\ Edited(l)[1].from = l[1].from
<1>1. DOMAIN l = 1 .. Len(l) /\ Len(l) \in Nat /\ \A i \in 1 .. Len(l) : l[i] \in CatalogItem
  BY LenProperties, ElementOfSeq
<1> DEFINE e == [from |-> l[1].from, edited |-> TRUE]
<1>2. Edited(l) = [l EXCEPT ![1] = e]
  BY DEF Edited
<1>3. CASE 1 \in 1 .. Len(l)
  <2>1. e \in CatalogItem /\ e.from = l[1].from
    BY <1>1, <1>3 DEF CatalogItem
  <2> HIDE DEF e
  <2>2. [l EXCEPT ![1] = e] \in Seq(CatalogItem) /\ Len([l EXCEPT ![1] = e]) = Len(l)
        /\ [l EXCEPT ![1] = e][1] = e
    BY <1>1, <1>3, <2>1, ExceptSeq
  <2> QED BY <1>2, <2>1, <2>2
<1>4. CASE 1 \notin 1 .. Len(l)
  <2>1. l = <<>>
    BY <1>1, <1>4, EmptySeq
  <2> HIDE DEF e
  <2>2. [l EXCEPT ![1] = e] = l
    BY <1>1, <1>4
  <2> QED BY <1>2, <2>2
<1> QED BY <1>3, <1>4

LEMMA BookKeepsInv == StorageInv /\ Book => StorageInv'
<1> SUFFICES ASSUME StorageInv, Book PROVE StorageInv'
  OBVIOUS
<1> DEFINE q == mem["queue"].records
           c == mem["catalog"]
<1>1. /\ Event /\ phase = "loop" /\ Idle /\ phase' = "loop" /\ at' = at /\ build' = build
      /\ backend' = backend /\ known' = known /\ synced' = synced
      /\ Len(q) < build.capacity["queue"]
      /\ StartWrite("queue", Encode(build, "queue", mem'["queue"]))
  BY DEF Book, Event, Flush
<1>2. PICK k \in build.kinds :
        /\ mem' = [mem EXCEPT
                     !["queue"] = Value(Append(q, [kind |-> k])),
                     !["catalog"] = IF k = "purchase" THEN c
                                    ELSE [revision |-> c.revision, records |-> Edited(c.records)]]
        /\ dirty' = [dirty EXCEPT !["queue"] = TRUE,
                                  !["catalog"] = dirty["catalog"] \/ k # "purchase"]
  BY DEF Book
<1>3. /\ backend \in Revision /\ backend \in Nat /\ build \in Build /\ at \in 1 .. 4
      /\ DOMAIN mem = Store /\ dirty \in [Store -> BOOLEAN] /\ synced \in BOOLEAN
      /\ \A s \in Store : IsSaved(s, mem[s]) /\ Sound(s)
      /\ known \subseteq {"residents", "summary"}
      /\ dirty["residents"] => "residents" \in known
  BY <1>1, EventFacts, Stores DEF StorageInv, TypeInv, TypeOK
<1>4. q \in Seq([kind : Kind]) /\ c \in Saved("catalog") /\ c.records \in Seq(CatalogItem)
      /\ c.revision <= backend /\ c.revision \in Nat
  <2>1. mem["queue"] \in Saved("queue") /\ IsSaved("catalog", c)
    BY <1>3 DEF IsSaved, Store
  <2>2. Record("queue") = [kind : Kind] /\ Record("catalog") = CatalogItem
    BY DEF Record
  <2> QED BY <2>1, <2>2 DEF Saved, IsSaved
<1> DEFINE e == [kind |-> k]
           c2 == IF k = "purchase" THEN c
                 ELSE [revision |-> c.revision, records |-> Edited(c.records)]
<1>5. /\ mem'["queue"] = [revision |-> 0, records |-> Append(q, e)]
      /\ mem'["catalog"] = c2
      /\ \A s \in Store \ {"queue", "catalog"} : mem'[s] = mem[s] /\ dirty'[s] = dirty[s]
      /\ DOMAIN mem' = Store /\ dirty' \in [Store -> BOOLEAN]
      /\ dirty'["queue"] = TRUE /\ dirty'["catalog"] = (dirty["catalog"] \/ k # "purchase")
  BY <1>2, <1>3 DEF Store, Value
<1>6. e \in [kind : Kind] /\ DecodedEntry(build, e) = e
  BY <1>2, <1>3, BuildTypes DEF DecodedEntry, Store
<1>7. /\ c2 \in Saved("catalog") /\ c2.revision = c.revision /\ Len(c2.records) = Len(c.records)
      /\ c2.records[1].from = c.records[1].from
      /\ k = "purchase" => c2 = c
  <2>1. CASE k = "purchase"
    BY <1>4, <2>1
  <2>2. CASE k # "purchase"
    <3>1. c2 = [revision |-> c.revision, records |-> Edited(c.records)]
      BY <2>2
    <3> HIDE DEF c2, c
    <3>2. Record("catalog") = CatalogItem
      BY DEF Record
    <3> QED BY <1>4, <2>2, <3>1, <3>2, EditedItems DEF Saved
  <2> QED BY <2>1, <2>2
<1> HIDE DEF q, c, e, c2
<1>8. IsSaved("queue", mem'["queue"]) /\ Sound("queue")'
  <2>1. Append(q, e) \in Seq([kind : Kind]) /\ Len(Append(q, e)) = Len(q) + 1 /\ Len(q) \in Nat
    BY <1>4, <1>6, AppendToQueue
  <2>2. build.capacity["queue"] \in Nat
    BY <1>3, BuildTypes DEF Store
  <2>3. Len(Append(q, e)) <= build.capacity["queue"]
    BY <1>1, <2>1, <2>2 DEF q
  <2>4. \A i \in DOMAIN q : DecodedEntry(build, q[i]) = q[i]
    BY <1>3 DEF Sound, Store, q
  <2>5. \A i \in DOMAIN Append(q, e) : DecodedEntry(build, Append(q, e)[i]) = Append(q, e)[i]
    BY <1>4, <1>6, <2>4, AppendToQueue
  <2>6. Record("queue") = [kind : Kind]
    BY DEF Record
  <2>7. Sound("queue")'
    BY <1>1, <1>5, <2>3, <2>5 DEF Sound, DecodedEntry
  <2>8. mem'["queue"] \in Saved("queue") /\ mem'["queue"].revision = 0
    <3> DEFINE a == Append(q, e)
    <3>1. a \in Seq(Record("queue")) /\ mem'["queue"] = [revision |-> 0, records |-> a]
      BY <1>5, <2>1, <2>6
    <3> HIDE DEF a
    <3> QED BY <3>1 DEF Saved
  <2> QED BY <2>7, <2>8 DEF IsSaved
<1>9. IsSaved("catalog", mem'["catalog"]) /\ Sound("catalog")'
  <2>1. Sound("catalog") /\ c = mem["catalog"]
    BY <1>3 DEF Store, c
  <2>2. Len(c2.records) <= build.capacity["catalog"]
    BY <1>7, <2>1 DEF Sound
  <2>3. c2.revision = 0 => c2.records[1].from = build.seed
    BY <1>7, <2>1 DEF Sound
  <2> QED BY <1>1, <1>4, <1>5, <1>7, <2>2, <2>3 DEF Sound, IsSaved
<1>10. \A s \in Store : IsSaved(s, mem'[s]) /\ Sound(s)'
  BY <1>1, <1>3, <1>5, <1>8, <1>9, SoundSame
<1>11. \A s \in Store : ~dirty'[s] => ~dirty[s] /\ mem'[s] = mem[s]
  <2>1. mem["catalog"] = c
    BY DEF c
  <2> QED BY <1>5, <1>7, <2>1
<1>12. dirty'["residents"] => "residents" \in known'
  BY <1>1, <1>3, <1>5 DEF Store
<1>13. /\ WriteInv' /\ UNCHANGED <<disk, mounted>>
       /\ writing'.step \in {"open", "failed"} /\ writing'.store = "queue"
  <2>1. On' /\ "queue" \in Store
    BY <1>1 DEF On, Store
  <2> QED BY <1>1, <1>5, <1>8, <2>1, StartWriteEffect
<1> QED BY <1>1, <1>3, <1>5, <1>10, <1>11, <1>12, <1>13, EventKeepsInv DEF Steps, Store

LEMMA EditedElsewhereKeepsInv == StorageInv /\ EditedElsewhere => StorageInv'
<1> SUFFICES ASSUME StorageInv, EditedElsewhere PROVE StorageInv'
  OBVIOUS
<1> USE DEF StorageInv
<1>1. /\ phase = "loop" /\ Idle /\ backend' = backend + 1 /\ backend' \in Revision
      /\ UNCHANGED <<disk, mounted, writing, build, phase, at, mem, dirty, known, faults,
                     kept, builtBy, synced>>
  BY DEF EditedElsewhere, storageVars, historyVars
<1>2. backend \in Nat
  BY RevisionsAreNat DEF TypeInv, TypeOK
<1>3. \A s \in Store : Restored(s)' = Restored(s)
  BY <1>1, RestoredSame
<1>4. LoadedInv'
  BY <1>1, <1>3, SoundSame DEF LoadedInv, Loaded, Running
<1>5. KnownInv' /\ WriteInv' /\ MountInv'
  BY <1>1 DEF KnownInv, WriteInv, Idle, MountInv, On, Loaded, Running
<1>6. TypeInv'
  <2>1. \A s \in Store : IsSaved(s, mem[s])'
    BY <1>1, <1>2, SavedStays DEF TypeInv
  <2> QED BY <1>1, <2>1 DEF TypeInv, TypeOK, Running, Idle
<1>7. KeptInv'
  <2>1. ASSUME NEW s \in Store, kept[s] # Lost PROVE IsSaved(s, kept[s])'
    <3>1. IsSaved(s, kept[s])
      BY <2>1 DEF KeptInv
    <3>2. ASSUME NEW v, v = kept[s] PROVE IsSaved(s, v)'
      BY <1>1, <1>2, <3>1, <3>2, SavedStays
    <3> QED BY <1>1, <3>2
  <2> QED BY <1>1, <2>1 DEF KeptInv
<1>8. DiskInv'
  BY <1>1 DEF DiskInv, BetweenFiles, Check
<1> QED BY <1>4, <1>5, <1>6, <1>7, <1>8

----------------------------------------------------------------------------
(* loop() and setup(): a write, call by call *)

LEMMA StartFlushKeepsInv == StorageInv /\ StartFlush => StorageInv'
<1> SUFFICES ASSUME StorageInv, StartFlush PROVE StorageInv'
  OBVIOUS
<1> USE DEF StorageInv
<1>1. /\ phase = "flush" /\ Idle
      /\ UNCHANGED <<build, mem, dirty, known, backend, faults, kept, builtBy, synced>>
  BY DEF StartFlush, historyVars
<1>2. at \in 1 .. 4 /\ dirty \in [Store -> BOOLEAN]
  BY Stores DEF TypeInv, TypeOK
<1>3. /\ phase' \in {"loop", "flush"} /\ at' \in 1 .. 4 /\ UNCHANGED <<disk, mounted>>
      /\ WriteInv' /\ \A t \in Store : ~BetweenFiles(t)'
      /\ writing' # NoWrite => writing'.step \in Steps /\ writing'.store \in Store
  <2>1. CASE StillDirty = {}
    <3>1. phase' = "loop" /\ at' = 1 /\ UNCHANGED <<disk, mounted, writing>>
      BY <2>1 DEF StartFlush, storageVars
    <3> QED BY <1>1, <3>1, StillIdle DEF BetweenFiles
  <2>2. CASE StillDirty # {}
    <3>1. StillDirty \subseteq Nat
      BY <1>2, Stores DEF StillDirty
    <3>2. \E i \in StillDirty : \A j \in StillDirty : i <= j
      BY <2>2, <3>1, NatHasLeast
    <3>3. PICK i \in StillDirty :
             /\ at' = i /\ phase' = phase
             /\ StartWrite(Order[i], Encode(build, Order[i], mem[Order[i]]))
      BY <2>2, <3>2 DEF StartFlush
    <3>4. i \in 1 .. 4 /\ dirty[Order[i]] /\ Order[i] \in Store
      BY <1>2, <3>3, Stores DEF StillDirty
    <3> DEFINE s == Order[i]
    <3>5. s \in Store /\ dirty'[s] = TRUE /\ s = Current' /\ On' /\ phase' = "flush"
      BY <1>1, <1>2, <3>3, <3>4 DEF Current, On
    <3>6. StartWrite(s, Encode(build, s, mem'[s])) /\ build' = build
      BY <1>1, <3>3
    <3> HIDE DEF s
    <3>7. Sound(s)'
      BY <1>1, <3>5, SoundSame DEF LoadedInv, Loaded, Running
    <3>8. WriteInv' /\ UNCHANGED <<disk, mounted>> /\ writing'.step \in {"open", "failed"}
          /\ writing'.store = s /\ \A t : ~BetweenFiles(t)'
      BY <3>5, <3>6, <3>7, StartWriteEffect
    <3> QED BY <1>1, <3>3, <3>4, <3>5, <3>8 DEF Steps
  <2> QED BY <2>1, <2>2
<1>4. \A s \in Store : Loaded(s) /\ Loaded(s)'
  BY <1>1, <1>3 DEF Loaded, Running
<1>5. LoadedInv'
  <2>1. ASSUME NEW s \in Store PROVE Sound(s)' /\ (~dirty'[s] => mem'[s] = Restored(s)')
    BY <1>1, <1>4, SoundSame, RestoredSame DEF LoadedInv
  <2> QED BY <2>1 DEF LoadedInv
<1>6. KnownInv' /\ MountInv'
  BY <1>1, <1>3, <1>4 DEF KnownInv, MountInv, On, Store
<1>7. TypeInv'
  <2>1. Running' => \A s \in Store : Len(mem'[s].records) <= build'.capacity[s]
    BY <1>5, CapacityKept
  <2>2. \A s \in Store : IsSaved(s, mem[s])'
    BY <1>1 DEF TypeInv, IsSaved
  <2> QED BY <1>1, <1>3, <2>1, <2>2, Stores DEF TypeInv, TypeOK
<1>8. KeptInv'
  BY <1>1 DEF KeptInv, IsSaved
<1>9. DiskInv'
  BY <1>1, <1>3, IdleFacts DEF DiskInv, Check
<1> QED BY <1>3, <1>5, <1>6, <1>7, <1>8, <1>9

\* What is being written, while it is.
LEMMA WritingFacts ==
    ASSUME StorageInv, writing.step \in Steps
    PROVE  LET s == writing.store
           IN  /\ ~Idle /\ s \in Store /\ build \in Build /\ IsSaved(s, mem[s]) /\ Sound(s)
               /\ writing = [step |-> writing.step, store |-> s, file |-> writing.file]
               /\ writing.file = Encode(build, s, mem[s])
               /\ dirty[s] /\ On
               /\ writing.step # "failed" => mounted
<1>1. ~Idle
  BY DEF Idle, NoWrite, Steps
<1>2. /\ writing = [step |-> writing.step, store |-> writing.store,
                    file |-> Encode(build, writing.store, mem[writing.store])]
      /\ writing.store \in Store
  BY <1>1 DEF StorageInv, WriteInv, TypeInv, TypeOK, Idle
<1>3. writing.file = Encode(build, writing.store, mem[writing.store])
  <2> DEFINE f == Encode(build, writing.store, mem[writing.store])
             a == writing.step
             b == writing.store
  <2>1. writing = [step |-> a, store |-> b, file |-> f]
    BY <1>2
  <2> HIDE DEF f, a, b
  <2>2. writing.file = f
    BY <2>1
  <2> QED BY <2>2 DEF f
<1> QED BY <1>1, <1>2, <1>3 DEF StorageInv, WriteInv, TypeInv, TypeOK

LEMMA GoEffect ==
    ASSUME StorageInv, NEW from \in Steps, NEW to \in Steps, Go(from, to)
    PROVE  /\ writing.step = from
           /\ writing' = [step |-> to, store |-> writing.store, file |-> writing.file]
           /\ writing'.step = to /\ writing'.store = writing.store
           /\ writing'.file = writing.file /\ writing' # NoWrite
<1>1. writing.step = from /\ writing' = [writing EXCEPT !.step = to]
  BY DEF Go
<1> DEFINE s == writing.store
           f == writing.file
<1>2. writing = [step |-> from, store |-> s, file |-> f]
  BY <1>1, WritingFacts
<1> HIDE DEF s, f
<1>3. writing' = [step |-> to, store |-> s, file |-> f]
  BY <1>1, <1>2
<1> QED BY <1>1, <1>3 DEF s, f, NoWrite, Steps

\* A call of LittleFS, which changes at most the file that is being written.
LEMMA CallKeepsInv ==
    ASSUME StorageInv, NEW from \in Steps \ {"failed"}, NEW to \in Steps, Go(from, to),
           UNCHANGED <<mounted, build, phase, at, mem, dirty, known, backend, synced>>,
           faults' \in 0 .. MaxFaults, DOMAIN disk' = Store, DOMAIN kept' = Store,
           builtBy' \in [Store -> Build],
           \A t \in Store \ {writing.store} : kept'[t] = kept[t] /\ builtBy'[t] = builtBy[t],
           to = "written" => /\ kept'[writing.store] = mem[writing.store]
                             /\ builtBy'[writing.store] = build,
           KeptInv', DiskInv'
    PROVE  StorageInv'
<1> USE DEF StorageInv
<1>0. PICK s \in Store : s = writing.store
  BY WritingFacts, GoEffect
<1>1. /\ writing.step = from /\ ~Idle /\ dirty[s] /\ Sound(s) /\ On /\ mounted
      /\ writing.file = Encode(build, s, mem[s])
  BY <1>0, WritingFacts, GoEffect
<1>2. /\ writing' = [step |-> to, store |-> s, file |-> writing.file]
      /\ writing'.step = to /\ writing'.store = s /\ writing' # NoWrite
  BY <1>0, GoEffect
<1>3. LoadedInv'
  <2>1. ASSUME NEW t \in Store, Loaded(t) PROVE Sound(t)'
    BY <2>1, SoundSame DEF LoadedInv
  <2>2. ASSUME NEW t \in Store \ {s}, Loaded(t), ~dirty[t] PROVE mem[t] = Restored(t)'
    BY <1>0, <2>2, RestoredSame DEF LoadedInv
  <2>3. \A t \in Store : Loaded(t)' => Loaded(t)
    BY DEF Loaded, Running
  <2> QED BY <1>1, <2>1, <2>2, <2>3 DEF LoadedInv
<1>4. KnownInv' /\ MountInv'
  BY <1>1 DEF KnownInv, MountInv, Loaded, Running
<1>5. WriteInv'
  <2>1. Sound(s)'
    BY <1>1, SoundSame
  <2>2. /\ phase = "load" => s = "catalog" /\ at = 1
        /\ phase = "loop" => s = "queue"
        /\ phase = "flush" => s = Current
    BY <1>0, <1>1 DEF WriteInv
  <2>3. writing' = [step |-> writing'.step, store |-> s, file |-> Encode(build, s, mem[s])']
    BY <1>1, <1>2 DEF Encode
  <2> QED BY <1>0, <1>1, <1>2, <2>1, <2>2, <2>3 DEF WriteInv, On, Current
<1>6. TypeInv'
  <2>1. \A t \in Store : IsSaved(t, mem[t])'
    BY DEF TypeInv, IsSaved
  <2> QED BY <1>1, <1>2, <2>1 DEF TypeInv, TypeOK, Running, On, Idle
<1> QED BY <1>3, <1>4, <1>5, <1>6

LEMMA WriteWorksKeepsInv == StorageInv /\ WriteWorks => StorageInv'
<1> SUFFICES ASSUME StorageInv, WriteWorks PROVE StorageInv'
  OBVIOUS
<1>1. /\ UNCHANGED <<mounted, build, phase, at, mem, dirty, known, backend, synced>>
      /\ faults' \in 0 .. MaxFaults /\ DOMAIN disk = Store /\ DOMAIN kept = Store
      /\ builtBy \in [Store -> Build]
  BY DEF WriteWorks, OpenTemp, WriteTemp, RemoveOld, Rename, StorageInv, TypeInv, TypeOK
<1> DEFINE s == writing.store
<1>2. CASE (OpenTemp \/ WriteTemp) /\ UNCHANGED <<kept, builtBy>>
  <2>1. PICK from \in {"open", "write"}, to \in {"write", "remove"} :
             Go(from, to) /\ UNCHANGED <<disk, kept, builtBy>>
    BY <1>2 DEF OpenTemp, WriteTemp
  <2>2. from \in Steps \ {"failed"} /\ to \in Steps
    BY DEF Steps
  <2>3. KeptInv'
    BY <1>1, <2>1 DEF KeptInv, IsSaved, StorageInv
  <2>4. \A t : ~BetweenFiles(t) /\ ~BetweenFiles(t)'
    BY <2>1, <2>2, GoEffect DEF BetweenFiles
  <2>5. DiskInv'
    BY <1>1, <2>1, <2>4 DEF DiskInv, Check, StorageInv
  <2>6. to # "written"
    OBVIOUS
  <2> QED BY <1>1, <2>1, <2>2, <2>3, <2>5, <2>6, CallKeepsInv
<1>3. CASE RemoveOld /\ UNCHANGED <<kept, builtBy>>
  <2>1. Go("remove", "rename") /\ disk' = [disk EXCEPT ![s] = Blank]
    BY <1>3 DEF RemoveOld, SetDisk
  <2>2. "remove" \in Steps \ {"failed"} /\ "rename" \in Steps
    BY DEF Steps
  <2>3. KeptInv'
    BY <1>1, <1>3 DEF KeptInv, IsSaved, StorageInv
  <2>4. s \in Store /\ \A t : ~BetweenFiles(t) /\ (BetweenFiles(t)' <=> t = s)
    BY <2>1, <2>2, GoEffect, WritingFacts DEF BetweenFiles
  <2>5. disk'[s] = Blank /\ \A t \in Store \ {s} : disk'[t] = disk[t]
    BY <1>1, <2>1, <2>4
  <2>6. DiskInv'
    BY <1>1, <1>3, <2>4, <2>5 DEF DiskInv, Check, StorageInv
  <2> HIDE DEF s
  <2>7. DOMAIN disk' = Store
    BY <1>1, <2>1
  <2> QED BY <1>1, <1>3, <2>1, <2>2, <2>3, <2>6, <2>7, CallKeepsInv
<1>4. CASE /\ Rename /\ kept' = [kept EXCEPT ![s] = mem[s]]
           /\ builtBy' = [builtBy EXCEPT ![s] = build]
  <2>1. Go("rename", "written") /\ disk' = [disk EXCEPT ![s] = writing.file]
    BY <1>4 DEF Rename, SetDisk
  <2>2. "rename" \in Steps \ {"failed"} /\ "written" \in Steps
    BY DEF Steps
  <2>3. /\ s \in Store /\ build \in Build /\ IsSaved(s, mem[s]) /\ Sound(s)
        /\ writing.file = Encode(build, s, mem[s]) /\ dirty[s]
    BY <2>1, <2>2, GoEffect, WritingFacts
  <2>4. (\A t : BetweenFiles(t) <=> t = s) /\ \A t : ~BetweenFiles(t)'
    BY <2>1, <2>2, GoEffect DEF BetweenFiles
  <2>5. /\ kept'[s] = mem[s] /\ builtBy'[s] = build /\ disk'[s] = Encode(build, s, mem[s])
        /\ \A t \in Store \ {s} : /\ kept'[t] = kept[t] /\ builtBy'[t] = builtBy[t]
                                  /\ disk'[t] = disk[t]
        /\ DOMAIN kept' = Store /\ DOMAIN disk' = Store /\ builtBy' \in [Store -> Build]
    <3> HIDE DEF s
    <3> QED BY <1>1, <1>4, <2>1, <2>3
  <2>6. mem[s] # Lost
    BY <2>3, LostIsNone DEF IsSaved
  <2>7. s = "residents" => \E r \in Revision : mem[s].records = Served[r][s]
    BY <2>3 DEF Sound, KnownInv, StorageInv
  <2>8. KeptInv'
    <3>1. ASSUME NEW t \in Store, t # s, kept[t] # Lost
          PROVE  /\ IsSaved(t, kept[t])'
                 /\ t = "catalog" /\ kept'[t].revision = 0
                       => kept'[t].records[1].from = builtBy'[t].seed
                 /\ t = "residents" => \E r \in Revision : kept'[t].records = Served[r][t]
      BY <1>1, <2>5, <3>1 DEF KeptInv, IsSaved, StorageInv
    <3>2. ASSUME NEW t \in Store, t = s
          PROVE  /\ IsSaved(t, kept[t])'
                 /\ t = "catalog" /\ kept'[t].revision = 0
                       => kept'[t].records[1].from = builtBy'[t].seed
                 /\ t = "residents" => \E r \in Revision : kept'[t].records = Served[r][t]
      BY <1>1, <2>3, <2>5, <2>7, <3>2 DEF IsSaved, Sound
    <3> QED BY <2>5, <3>1, <3>2 DEF KeptInv
  <2>9. DiskInv'
    <3>1. ASSUME NEW t \in Store, t # s
          PROVE  IF kept'[t] = Lost THEN \A b \in Build : ~Check(b, t, disk'[t])
                 ELSE disk'[t] = Encode(builtBy'[t], t, kept'[t])
      BY <2>4, <2>5, <3>1 DEF DiskInv, StorageInv
    <3> HIDE DEF s
    <3> QED BY <2>4, <2>5, <2>6, <3>1 DEF DiskInv, Check, Encode
  <2> HIDE DEF s
  <2> QED BY <1>1, <2>1, <2>2, <2>5, <2>8, <2>9, CallKeepsInv DEF s
<1> QED BY <1>2, <1>3, <1>4 DEF WriteWorks

LEMMA WriteFailsKeepsInv == StorageInv /\ WriteFails => StorageInv'
<1> SUFFICES ASSUME StorageInv, WriteFails PROVE StorageInv'
  OBVIOUS
<1> DEFINE s == writing.store
<1>1. /\ UNCHANGED <<mounted, disk, build, phase, at, mem, dirty, known, backend, synced,
                     builtBy>>
      /\ faults' \in 0 .. MaxFaults /\ DOMAIN disk = Store /\ DOMAIN kept = Store
      /\ builtBy \in [Store -> Build]
  BY MaxFaultsAssumption DEF WriteFails, Fault, OpenFails, WriteShort, RemoveFails, RenameFails,
         StorageInv, TypeInv, TypeOK
<1>2. "failed" \in Steps /\ {"open", "write", "remove", "rename"} \subseteq Steps \ {"failed"}
  BY DEF Steps
<1>3. CASE (OpenFails \/ WriteShort \/ RemoveFails) /\ UNCHANGED kept
  <2>1. PICK from \in {"open", "write", "remove"} : Go(from, "failed")
    BY <1>3 DEF OpenFails, WriteShort, RemoveFails
  <2>2. KeptInv'
    BY <1>1, <1>3 DEF KeptInv, IsSaved, StorageInv
  <2>3. \A t : ~BetweenFiles(t) /\ ~BetweenFiles(t)'
    BY <1>2, <2>1, GoEffect DEF BetweenFiles
  <2>4. DiskInv'
    BY <1>1, <1>3, <2>3 DEF DiskInv, Check, StorageInv
  <2>5. from \in Steps \ {"failed"}
    BY <1>2, <2>1
  <2> QED BY <1>1, <1>2, <1>3, <2>1, <2>2, <2>4, <2>5, CallKeepsInv
<1>4. CASE RenameFails /\ kept' = [kept EXCEPT ![s] = Lost]
  <2>1. Go("rename", "failed")
    BY <1>4 DEF RenameFails
  <2>2. s \in Store /\ (\A t : BetweenFiles(t) <=> t = s) /\ (\A t : ~BetweenFiles(t)')
    BY <1>2, <2>1, GoEffect, WritingFacts DEF BetweenFiles
  <2>3. kept'[s] = Lost /\ (\A t \in Store \ {s} : kept'[t] = kept[t]) /\ DOMAIN kept' = Store
    BY <1>1, <1>4, <2>2
  <2>4. KeptInv'
    BY <1>1, <2>3 DEF KeptInv, IsSaved, StorageInv
  <2>5. disk'[s] = Blank /\ disk' = disk
    BY <1>1, <2>2 DEF DiskInv, StorageInv
  <2>6. DiskInv'
    <3>1. ASSUME NEW t \in Store, t # s
          PROVE  IF kept'[t] = Lost THEN \A b \in Build : ~Check(b, t, disk'[t])
                 ELSE disk'[t] = Encode(builtBy'[t], t, kept'[t])
      BY <1>1, <2>2, <2>3, <3>1 DEF DiskInv, StorageInv
    <3>2. \A b \in Build : ~Check(b, s, disk'[s])
      BY <2>5, BlankFails
    <3> HIDE DEF s
    <3> QED BY <2>2, <2>3, <3>1, <3>2 DEF DiskInv, Check, Encode
  <2> HIDE DEF s
  <2> QED BY <1>1, <1>2, <2>1, <2>3, <2>4, <2>6, CallKeepsInv DEF s
<1> QED BY <1>3, <1>4 DEF WriteFails

LEMMA FlushEndsKeepsInv == StorageInv /\ FlushEnds => StorageInv'
<1> SUFFICES ASSUME StorageInv, FlushEnds PROVE StorageInv'
  OBVIOUS
<1> USE DEF StorageInv
<1>1. PICK ok \in BOOLEAN : /\ WriteReturns(ok) /\ SetDirty(writing.store, Returned(ok))
  BY DEF FlushEnds
<1>2. /\ UNCHANGED <<disk, mounted, build, mem, known, backend, faults, kept, builtBy, synced>>
      /\ writing' = NoWrite /\ writing.step = IF ok THEN "written" ELSE "failed"
      /\ dirty' = [dirty EXCEPT ![writing.store] = ~ok]
  BY <1>1 DEF FlushEnds, WriteReturns, historyVars, SetDirty, Returned
<1>3. writing.step \in Steps
  BY <1>2 DEF Steps
<1>4. PICK s \in Store : s = writing.store
  BY <1>3, WritingFacts
<1>5. Sound(s) /\ On /\ ~Idle /\ dirty[s] /\ dirty \in [Store -> BOOLEAN] /\ at \in 1 .. 4
  BY <1>3, <1>4, WritingFacts, Stores DEF TypeInv, TypeOK
<1>6. ok => kept[s] = mem[s] /\ builtBy[s] = build
  BY <1>2, <1>4, <1>5 DEF WriteInv
<1>7. /\ phase = "load" => s = "catalog" /\ at = 1
      /\ phase = "flush" => s = Current
  BY <1>4, <1>5 DEF WriteInv
<1>8. /\ phase' \in {"load", "loop", "flush"} /\ at' \in 1 .. 4
      /\ \A t \in Store : Loaded(t) => Loaded(t)'
      /\ \A t \in Store : Loaded(t)' => Loaded(t) \/ t = s
  <2>1. CASE phase = "loop"
    <3>1. phase' = "flush" /\ at' = 1
      BY <2>1 DEF FlushEnds, ToFlush
    <3> QED BY <2>1, <3>1 DEF Loaded, Running
  <2>2. CASE phase # "loop"
    <3>1. Advance
      BY <2>2 DEF FlushEnds
    <3>2. CASE phase = "flush"
      BY <1>5, <3>1, <3>2, Stores DEF Advance, Loaded, Running
    <3>3. CASE phase = "load"
      <4>1. at' = 2 /\ phase' = "load"
        BY <1>7, <3>1, <3>3, Stores DEF Advance
      <4> QED BY <1>7, <3>3, <4>1 DEF Loaded, Running, Place, Store
    <3> QED BY <1>5, <2>2, <3>2, <3>3 DEF On
  <2> QED BY <2>1, <2>2
<1>9. LoadedInv'
  <2>1. ASSUME NEW t \in Store, t # s, Loaded(t)
        PROVE  Sound(t)' /\ (~dirty'[t] => mem'[t] = Restored(t)')
    <3>1. dirty'[t] = dirty[t]
      BY <1>2, <1>4, <1>5, <2>1
    <3> QED BY <1>2, <2>1, <3>1, SoundSame, RestoredSame DEF LoadedInv
  <2>2. Sound(s)'
    BY <1>2, <1>5, SoundSame
  <2>3. ASSUME ~dirty'[s] PROVE mem'[s] = Restored(s)'
    <3>1. ok
      BY <1>2, <1>4, <1>5, <2>3
    <3>2. Restored(s) = mem[s]
      BY <1>5, <1>6, <3>1, SoundIsRestored
    <3> QED BY <1>2, <3>2, RestoredSame
  <2> QED BY <1>8, <2>1, <2>2, <2>3 DEF LoadedInv
<1>10. KnownInv'
  <2>1. dirty'["residents"] => dirty["residents"]
    BY <1>2, <1>4, <1>5 DEF Store
  <2> QED BY <1>2, <1>8, <2>1 DEF KnownInv, Store
<1>11. Idle' /\ WriteInv'
  BY <1>2 DEF Idle, WriteInv
<1>12. TypeInv'
  <2>1. Running' => \A t \in Store : Len(mem'[t].records) <= build'.capacity[t]
    BY <1>9, CapacityKept
  <2>2. \A t \in Store : IsSaved(t, mem[t])'
    BY <1>2 DEF TypeInv, IsSaved
  <2>3. dirty' \in [Store -> BOOLEAN] /\ at' \in DOMAIN Order
    BY <1>2, <1>5, <1>8, Stores
  <2> QED BY <1>2, <1>8, <1>11, <2>1, <2>2, <2>3 DEF TypeInv, TypeOK, Idle
<1>13. KeptInv'
  BY <1>2 DEF KeptInv, IsSaved
<1>14. DiskInv'
  <2>1. \A t \in Store : ~BetweenFiles(t) /\ ~BetweenFiles(t)'
    BY <1>2, <1>11, IdleFacts DEF BetweenFiles, NoWrite
  <2> QED BY <1>2, <2>1 DEF DiskInv, Check
<1>15. MountInv'
  BY <1>2, <1>5 DEF MountInv
<1> QED BY <1>9, <1>10, <1>11, <1>12, <1>13, <1>14, <1>15

LEMMA NextKeepsStorageInv == StorageInv /\ [Next]_vars => StorageInv'
<1> SUFFICES ASSUME StorageInv, [Next]_vars PROVE StorageInv'
  OBVIOUS
<1>1. CASE UNCHANGED vars
  <2>1. UNCHANGED <<disk, mounted, writing, build, phase, at, mem, dirty, known, backend,
                    faults, kept, builtBy, synced>>
    BY <1>1 DEF vars, storageVars, historyVars
  <2>2. \A s \in Store : Restored(s)' = Restored(s) /\ (Sound(s) => Sound(s)')
    BY <2>1, RestoredSame, SoundSame
  <2>3. LoadedInv' /\ KnownInv' /\ MountInv'
    BY <2>1, <2>2 DEF StorageInv, LoadedInv, Loaded, Running, KnownInv, MountInv, On
  <2>4. TypeInv' /\ KeptInv' /\ DiskInv' /\ WriteInv'
    BY <1>1 DEF StorageInv, TypeInv, KeptInv, DiskInv, WriteInv, vars, storageVars, historyVars,
           TypeOK, Running, IsSaved, Idle, BetweenFiles, Check, Encode, On, Current, Sound,
           DecodedEntry
  <2> QED BY <2>3, <2>4 DEF StorageInv
<1> QED BY <1>1, PowerOnKeepsInv, StorageBeginsKeepsInv, LoadKeepsInv, SyncKeepsInv,
           BookKeepsInv, AcknowledgedKeepsInv, NothingHappensKeepsInv, StartFlushKeepsInv,
           WriteWorksKeepsInv, WriteFailsKeepsInv, FlushEndsKeepsInv,
           EditedElsewhereKeepsInv, PowerCutKeepsInv, DamageKeepsInv, FirmwareUpdateKeepsInv
        DEF Next, Setup, LoopEvent

----------------------------------------------------------------------------
(* What the invariant gives *)

LEMMA StorageInvHolds == Spec => []StorageInv
BY InitStorageInv, NextKeepsStorageInv, PTL DEF Spec

\* Every variable has its type, no list outgrows its array, and only one file
\* is written at a time, with any number of builds and faults.
THEOREM StorageTypes == Spec => []TypeOK
<1>1. StorageInv => TypeOK
  BY DEF StorageInv, TypeInv
<1> QED BY <1>1, StorageInvHolds, PTL

LEMMA InvGivesClean == StorageInv => CleanSurvivesCut
<1> SUFFICES ASSUME StorageInv, Running, mounted, NEW s \in Store, ~dirty[s]
             PROVE  mem[s] = IF FromFile(s) THEN Decode(build, s, disk[s]) ELSE Fallback(s)
  BY DEF CleanSurvivesCut
<1>1. ~BetweenFiles(s)
  <2> SUFFICES ASSUME BetweenFiles(s) PROVE FALSE
    OBVIOUS
  <2>1. writing.step \in Steps /\ writing.store = s
    BY DEF BetweenFiles, Steps
  <2> QED BY <2>1, WritingFacts
<1>2. mem[s] = Restored(s) /\ On
  BY DEF StorageInv, LoadedInv, Loaded, Running, On
<1> QED BY <1>1, <1>2, StoredGives DEF StorageInv

\* What is not dirty is what the file gives: a power cut at any step of any
\* write, of this store or of another, loses nothing that was reported saved
\* (device_storage.cpp write(), and the flush() of each store).
THEOREM CleanIsDurable == Spec => []CleanSurvivesCut
BY StorageInvHolds, InvGivesClean, PTL

\* The admin screen says "vom Server" of residents that came from the backend,
\* and of no others (resident_directory.cpp g_from_backend).
THEOREM SourceIsTold == Spec => []FromBackendTells
<1>1. StorageInv => FromBackendTells
  BY DEF StorageInv, LoadedInv, Loaded, Running, Sound, Store, FromBackendTells
<1> QED BY <1>1, StorageInvHolds, PTL

\* Whatever the backend sends and whatever is left of the file, there is
\* somebody to charge (resident_directory.cpp begin(), replace()).
THEOREM SomebodyIsThere == Spec => []SomebodyToCharge
<1>1. StorageInv => SomebodyToCharge
  BY DEF StorageInv, LoadedInv, Loaded, Running, Sound, Store, SomebodyToCharge
<1> QED BY <1>1, StorageInvHolds, PTL

\* A catalog that has never been synced descends from the seed of the build
\* that runs, through any number of updates (product_catalog.cpp begin()).
THEOREM SeedFollowsBuild == Spec => []SeedIsCurrent
<1>1. StorageInv => SeedIsCurrent
  BY DEF StorageInv, LoadedInv, Loaded, Running, Sound, Store, SeedIsCurrent
<1> QED BY <1>1, StorageInvHolds, PTL

LEMMA LoadingStep ==
    ASSUME StorageInv, Next, phase = "load", Idle, phase' # "off"
    PROVE  Load
<1>1. writing.step = "none"
  BY IdleFacts
<1>2. ~WriteWorks /\ ~WriteFails /\ ~FlushEnds
  BY <1>1 DEF WriteWorks, OpenTemp, WriteTemp, RemoveOld, Rename, WriteFails, OpenFails,
         WriteShort, RemoveFails, RenameFails, Go, FlushEnds, WriteReturns
<1> QED BY <1>2 DEF Next, Setup, PowerOn, StorageBegins, LoopEvent, Sync, Book, Acknowledged,
           NothingHappens, Event, StartFlush, EditedElsewhere, PowerCut, Damage, FirmwareUpdate

\* begin() of every store takes back, whole, what was last put in place of its
\* file, or starts from its fallback.
THEOREM RestartIsWhole == Spec => RestartRestores
<1>1. StorageInv /\ [Next]_vars
        => [phase = "load" /\ Idle /\ phase' # "off" => mem'[Current] = Restored(Current)]_vars
  <2> SUFFICES ASSUME StorageInv, Next, phase = "load", Idle, phase' # "off"
               PROVE  mem'[Current] = Restored(Current)
    OBVIOUS
  <2> QED BY LoadingStep, LoadEffect
<1> QED BY <1>1, StorageInvHolds, PTL DEF Spec, RestartRestores

----------------------------------------------------------------------------
(* The queue's file is the one TransactionQueue describes *)

QueueStep == [AbstractQueueStep]_(Abstract!queueVars)

LEMMA SameQueue ==
    ASSUME mem'["queue"] = mem["queue"], build' = build, kept'["queue"] = kept["queue"],
           builtBy'["queue"] = builtBy["queue"],
           (dirty["queue"] /\ ~Written("queue"))' <=> (dirty["queue"] /\ ~Written("queue")),
           QueueLoaded' <=> QueueLoaded
    PROVE  QueueStep
<1>1. Restored("queue")' = Restored("queue")
  BY RestoredSame DEF Store
<1> QED BY <1>1 DEF QueueStep, Abstract!queueVars

\* Before the queue is loaded, and after the power has failed, nothing is said
\* about it.
LEMMA NotLoadedStep ==
    ASSUME ~QueueLoaded, ~QueueLoaded'
    PROVE  QueueStep
BY DEF QueueStep, AbstractQueueStep

LEMMA StartWriteStep ==
    ASSUME NEW s, NEW f, StartWrite(s, f)
    PROVE  writing'.step \in {"open", "failed"}
<1> DEFINE x == IF mounted THEN "open" ELSE "failed"
<1>1. writing' = [step |-> x, store |-> s, file |-> f]
  BY DEF StartWrite
<1>2. x \in {"open", "failed"}
  OBVIOUS
<1> HIDE DEF x
<1> QED BY <1>1, <1>2

LEMMA SoundQueueRestored ==
    TypeInv /\ Sound("queue") /\ kept["queue"] = mem["queue"] /\ builtBy["queue"] = build
        => Restored("queue") = mem["queue"]
BY SoundIsRestored DEF Store

LEMMA LoadQueueStep ==
    ASSUME StorageInv, Load
    PROVE  QueueStep
<1>1. /\ phase = "load" /\ Idle /\ at \in 1 .. 4 /\ Current \in Store /\ Place(Current) = at
      /\ UNCHANGED <<disk, mounted, build, kept, builtBy>>
      /\ mem'[Current] = Restored(Current)
      /\ \A t \in Store \ {Current} : mem'[t] = mem[t] /\ dirty'[t] = dirty[t]
      /\ Current = "queue" => /\ Advance
                              /\ dirty'["queue"] = FALSE \/ Restored("queue") = Empty
      /\ Advance \/ UNCHANGED <<phase, at>>
  BY LoadEffect
<1>2. \/ Advance /\ UNCHANGED writing
      \/ writing'.step \in {"open", "failed"}
  BY LoadEffect, StartWriteStep
<1>3. ~Written("queue") /\ ~Written("queue")'
  BY <1>1, <1>2, IdleFacts DEF Written
<1>4. Restored("queue")' = Restored("queue") /\ "queue" \in Store
  BY <1>1, RestoredSame DEF Store
<1>5. CASE at < 3
  <2>1. ~QueueLoaded /\ ~QueueLoaded'
    BY <1>1, <1>5, Stores DEF QueueLoaded, Running, Advance
  <2> QED BY <2>1, NotLoadedStep
<1>6. CASE at = 4
  <2>1. QueueLoaded /\ QueueLoaded' /\ Current # "queue"
    BY <1>1, <1>6, Stores DEF QueueLoaded, Running, Advance, Place
  <2>2. mem'["queue"] = mem["queue"] /\ dirty'["queue"] = dirty["queue"]
    BY <1>1, <1>4, <2>1
  <2> QED BY <1>1, <1>3, <2>1, <2>2, SameQueue
<1>7. CASE at = 3
  <2>1. Current = "queue"
    BY <1>1, <1>7 DEF Place, Store
  <2>2. ~QueueLoaded /\ QueueLoaded'
    BY <1>1, <1>7, <2>1, Stores DEF QueueLoaded, Running, Advance
  <2>3. mem'["queue"].records = Restored("queue").records
    BY <1>1, <2>1
  <2>4. CASE dirty'["queue"] = FALSE
    <3>1. Abstract!LoadQueue
      BY <1>3, <1>4, <2>2, <2>3, <2>4 DEF Abstract!LoadQueue
    <3> QED BY <2>2, <3>1 DEF QueueStep, AbstractQueueStep
  <2>5. CASE Restored("queue") = Empty
    <3>1. Restored("queue").records = <<>>
      BY <2>5 DEF Empty, Value
    <3> QED BY <1>1, <2>2, <2>3, <3>1 DEF QueueStep, AbstractQueueStep
  <2> QED BY <1>1, <2>1, <2>4, <2>5
<1> QED BY <1>1, <1>5, <1>6, <1>7

\* A booking and an acknowledgement change the queue in memory; the other
\* events leave it alone.
LEMMA EventQueueStep ==
    ASSUME StorageInv, LoopEvent \/ EditedElsewhere
    PROVE  QueueStep
<1>1. /\ phase = "loop" /\ Idle /\ phase' \in {"loop", "flush"}
      /\ UNCHANGED <<build, kept, builtBy>>
  BY DEF LoopEvent, EditedElsewhere, Sync, Book, Acknowledged, NothingHappens, Event, ToFlush,
         historyVars
<1>2. QueueLoaded /\ QueueLoaded'
  BY <1>1 DEF QueueLoaded, Running
<1>3. ~Written("queue") /\ ~Written("queue")'
  <2>1. UNCHANGED writing \/ writing'.step \in {"open", "failed"}
    BY StartWriteStep DEF LoopEvent, EditedElsewhere, Sync, Book, Acknowledged, NothingHappens,
           storageVars, Flush
  <2> QED BY <1>1, <2>1, IdleFacts DEF Written
<1>4. Restored("queue")' = Restored("queue")
  BY <1>1, RestoredSame DEF Store
<1>5. /\ DOMAIN mem = Store /\ dirty \in [Store -> BOOLEAN] /\ "queue" \in Store
      /\ "catalog" \in Store /\ build \in Build
      /\ mem["queue"].records \in Seq([kind : Kind])
  <2>1. Record("queue") = [kind : Kind]
    BY DEF Record
  <2> QED BY <1>1, <2>1, EventFacts DEF IsSaved, Saved, Store
<1>6. ASSUME mem'["queue"].records # mem["queue"].records, dirty'["queue"] = TRUE
      PROVE  QueueStep
  <2>1. Abstract!ChangeInMemory(mem'["queue"].records)
    BY <1>2, <1>3, <1>4, <1>6 DEF Abstract!ChangeInMemory
  <2> QED BY <1>2, <2>1 DEF QueueStep, AbstractQueueStep
<1>7. CASE Book
  <2>1. PICK k \in build.kinds :
           /\ mem' = [mem EXCEPT
                        !["queue"] = Value(Append(@.records, [kind |-> k])),
                        !["catalog"] = IF k = "purchase" THEN @
                                       ELSE [revision |-> @.revision,
                                             records |-> Edited(@.records)]]
           /\ dirty' = [dirty EXCEPT !["queue"] = TRUE,
                                     !["catalog"] = @ \/ k # "purchase"]
    BY <1>7 DEF Book
  <2>2. [kind |-> k] \in [kind : Kind]
    BY <1>5, <2>1, BuildTypes
  <2>3. mem'["queue"] = Value(Append(mem["queue"].records, [kind |-> k])) /\ dirty'["queue"] = TRUE
    BY <1>5, <2>1
  <2>4. mem'["queue"].records # mem["queue"].records
    BY <1>5, <2>2, <2>3, AppendToQueue DEF Value
  <2> QED BY <1>6, <2>3, <2>4
<1>8. CASE Acknowledged
  <2>1. /\ mem["queue"].records # <<>>
        /\ mem'["queue"] = Value(Tail(mem["queue"].records)) /\ dirty'["queue"] = TRUE
    BY <1>5, <1>8 DEF Acknowledged, SetMem, SetDirty
  <2>2. mem'["queue"].records # mem["queue"].records
    <3> DEFINE q == mem["queue"].records
               r == Tail(q)
    <3>1. r # q /\ mem'["queue"] = [revision |-> 0, records |-> r]
      BY <1>5, <2>1, TailOfQueue DEF Value
    <3> HIDE DEF q, r
    <3>2. mem'["queue"].records # q
      BY <3>1
    <3> QED BY <3>2 DEF q
  <2> QED BY <1>6, <2>1, <2>2
<1>9. CASE Sync \/ NothingHappens \/ EditedElsewhere
  <2>1. mem'["queue"] = mem["queue"] /\ dirty'["queue"] = dirty["queue"]
    <3>1. CASE Sync
      BY <1>5, <3>1 DEF Sync
    <3>2. CASE NothingHappens \/ EditedElsewhere
      BY <3>2 DEF NothingHappens, EditedElsewhere
    <3> QED BY <1>9, <3>1, <3>2
  <2> QED BY <1>1, <1>2, <1>3, <2>1, SameQueue
<1> QED BY <1>7, <1>8, <1>9 DEF LoopEvent

\* A write of the queue is nothing until the rename, which is the flush.
LEMMA WriteQueueStep ==
    ASSUME StorageInv, StorageInv', WriteWorks \/ WriteFails
    PROVE  QueueStep
<1> DEFINE s == writing.store
<1>1. /\ UNCHANGED <<build, phase, at, mem, dirty>>
      /\ DOMAIN kept = Store /\ builtBy \in [Store -> Build]
  BY DEF WriteWorks, WriteFails, StorageInv, TypeInv, TypeOK
<1>2. QueueLoaded' <=> QueueLoaded
  BY <1>1 DEF QueueLoaded, Running
<1>3. PICK from \in {"open", "write", "remove", "rename"},
           to \in {"write", "remove", "rename", "written", "failed"} :
         /\ Go(from, to)
         /\ to = "written" => /\ kept' = [kept EXCEPT ![s] = mem[s]]
                              /\ builtBy' = [builtBy EXCEPT ![s] = build]
         /\ to # "written" => builtBy' = builtBy
         /\ to = "failed" => kept' = kept \/ kept' = [kept EXCEPT ![s] = Lost]
         /\ to \notin {"written", "failed"} => kept' = kept
  BY DEF WriteWorks, OpenTemp, WriteTemp, RemoveOld, Rename, WriteFails, OpenFails,
         WriteShort, RemoveFails, RenameFails
<1>4. from \in Steps /\ to \in Steps
  BY DEF Steps
<1>5. /\ writing.step = from /\ writing'.step = to /\ writing'.store = s
      /\ s \in Store /\ dirty[s] /\ ~Idle
  BY <1>3, <1>4, GoEffect, WritingFacts
<1>6. ~Written("queue")
  BY <1>5 DEF Written
<1> HIDE DEF s
<1>7. CASE s # "queue"
  <2>1. kept'["queue"] = kept["queue"] /\ builtBy'["queue"] = builtBy["queue"]
    BY <1>1, <1>3, <1>5, <1>7 DEF Store
  <2>2. ~Written("queue")'
    BY <1>5, <1>7 DEF Written
  <2> QED BY <1>1, <1>2, <1>6, <2>1, <2>2, SameQueue
<1>8. CASE s = "queue"
  <2>1. QueueLoaded /\ phase \in {"loop", "flush"}
    <3>1. phase \in {"loop", "flush"}
      BY <1>5, <1>8 DEF StorageInv, WriteInv, On, s
    <3> QED BY <3>1 DEF QueueLoaded, Running
  <2>2. CASE to = "written"
    <3>1. kept'["queue"] = mem'["queue"] /\ builtBy'["queue"] = build' /\ Written("queue")'
      BY <1>1, <1>3, <1>5, <1>8, <2>2 DEF Written
    <3>2. Loaded("queue")' /\ "queue" \in Store
      BY <1>1, <2>1 DEF Loaded, Running, Store
    <3>3. Restored("queue")' = mem["queue"]
      <4>1. TypeInv' /\ Sound("queue")'
        BY <3>2 DEF StorageInv, LoadedInv
      <4>2. (TypeInv /\ Sound("queue") /\ kept["queue"] = mem["queue"]
               /\ builtBy["queue"] = build => Restored("queue") = mem["queue"])'
        BY SoundQueueRestored, PTL
      <4> QED BY <1>1, <3>1, <4>1, <4>2
    <3>4. Abstract!Flush(mem["queue"].records, {"write_fails"})
      BY <1>2, <2>1, <3>1, <3>3 DEF Abstract!Flush
    <3> QED BY <1>1, <2>1, <3>4 DEF QueueStep, AbstractQueueStep
  <2>3. CASE to # "written"
    <3>1. ~Written("queue")' /\ builtBy' = builtBy
      BY <1>3, <1>5, <2>3 DEF Written
    <3>2. CASE kept' = kept
      BY <1>1, <1>2, <1>6, <3>1, <3>2, SameQueue
    <3>3. CASE kept' = [kept EXCEPT !["queue"] = Lost]
      <4>1. kept'["queue"] = Lost
        BY <1>1, <3>3 DEF Store
      <4>2. Restored("queue")'.records = <<>>
        BY <4>1 DEF Restored, Usable, Fallback, Empty, Value
      <4>3. Abstract!Flush(mem["queue"].records, {"write_fails"})
        BY <1>1, <1>2, <1>5, <1>8, <2>1, <3>1, <4>2 DEF Abstract!Flush
      <4> QED BY <1>1, <2>1, <4>3 DEF QueueStep, AbstractQueueStep
    <3> QED BY <1>3, <1>8, <2>3, <3>2, <3>3
  <2> QED BY <2>2, <2>3
<1> QED BY <1>7, <1>8

\* The rest of a flush is seen in memory alone, and there not at all.
LEMMA FlushQueueStep ==
    ASSUME StorageInv, StartFlush \/ FlushEnds
    PROVE  QueueStep
<1>1. UNCHANGED <<build, mem, kept, builtBy>> /\ dirty \in [Store -> BOOLEAN] /\ at \in 1 .. 4
  BY Stores DEF StartFlush, FlushEnds, historyVars, StorageInv, TypeInv, TypeOK
<1>2. CASE StartFlush
  <2>1. phase = "flush" /\ Idle /\ dirty' = dirty /\ phase' \in {"loop", "flush"}
    BY <1>2 DEF StartFlush
  <2>2. QueueLoaded' <=> QueueLoaded
    BY <2>1 DEF QueueLoaded, Running
  <2>3. ~Written("queue") /\ ~Written("queue")'
    <3>1. UNCHANGED writing \/ writing'.step \in {"open", "failed"}
      BY <1>2, StartWriteStep DEF StartFlush, storageVars
    <3> QED BY <2>1, <3>1, IdleFacts DEF Written
  <2> QED BY <1>1, <2>1, <2>2, <2>3, SameQueue
<1>3. CASE FlushEnds
  <2>1. PICK ok \in BOOLEAN : /\ writing.step = IF ok THEN "written" ELSE "failed"
                              /\ writing' = NoWrite
                              /\ dirty' = [dirty EXCEPT ![writing.store] = ~ok]
    BY <1>3 DEF FlushEnds, WriteReturns, SetDirty, Returned
  <2>2. writing.step \in Steps
    BY <2>1 DEF Steps
  <2>3. writing.store \in Store /\ dirty[writing.store] /\ On /\ ~Idle
    BY <2>2, WritingFacts
  <2>4. ~Written("queue")' /\ (Written("queue") <=> ok /\ writing.store = "queue")
    <3>1. writing'.step = "none"
      BY <2>1 DEF NoWrite
    <3> QED BY <2>1, <3>1 DEF Written
  <2>5. dirty'["queue"] = IF writing.store = "queue" THEN ~ok ELSE dirty["queue"]
    BY <1>1, <2>1, <2>3 DEF Store
  <2>6. QueueLoaded' <=> QueueLoaded
    <3>1. CASE phase = "loop"
      BY <1>3, <3>1 DEF FlushEnds, ToFlush, QueueLoaded, Running
    <3>2. CASE phase = "flush"
      BY <1>1, <1>3, <3>2 DEF FlushEnds, Advance, QueueLoaded, Running
    <3>3. CASE phase = "load"
      <4>1. at = 1 /\ Advance
        BY <1>3, <2>3, <3>3 DEF FlushEnds, StorageInv, WriteInv
      <4> QED BY <3>3, <4>1, Stores DEF Advance, QueueLoaded, Running
    <3> QED BY <2>3, <3>1, <3>2, <3>3 DEF On
  <2> QED BY <1>1, <2>3, <2>4, <2>5, <2>6, SameQueue
<1> QED BY <1>2, <1>3

LEMMA PowerQueueStep ==
    ASSUME StorageInv, PowerOn \/ StorageBegins \/ PowerCut \/ Damage \/ FirmwareUpdate
    PROVE  QueueStep
<1>1. ~QueueLoaded'
  BY DEF PowerOn, StorageBegins, PowerCut, Damage, FirmwareUpdate, QueueLoaded, Running
<1>2. CASE QueueLoaded
  <2>1. PowerCut
    BY <1>2 DEF PowerOn, StorageBegins, Damage, FirmwareUpdate, QueueLoaded, Running
  <2>2. UNCHANGED <<build, builtBy>>
        /\ kept' = [s \in Store |-> IF BetweenFiles(s) THEN Lost ELSE kept[s]]
    BY <2>1 DEF PowerCut
  <2>3. CASE BetweenFiles("queue")
    <3>1. dirty["queue"]
      <4>1. writing.step \in Steps /\ writing.store = "queue"
        BY <2>3 DEF BetweenFiles, Steps
      <4> QED BY <4>1, WritingFacts
    <3>2. kept'["queue"] = Lost
      BY <2>2, <2>3 DEF Store
    <3>3. Restored("queue")'.records = <<>>
      BY <3>2 DEF Restored, Usable, Fallback, Empty, Value
    <3> QED BY <1>1, <1>2, <3>1, <3>3 DEF QueueStep, AbstractQueueStep
  <2>4. CASE ~BetweenFiles("queue")
    <3>1. kept'["queue"] = kept["queue"]
      BY <2>2, <2>4 DEF Store
    <3>2. Restored("queue")' = Restored("queue")
      BY <2>2, <3>1, RestoredSame DEF Store
    <3> QED BY <1>1, <1>2, <3>2 DEF QueueStep, AbstractQueueStep
  <2> QED BY <2>3, <2>4
<1>3. CASE ~QueueLoaded
  BY <1>1, <1>3, NotLoadedStep
<1> QED BY <1>2, <1>3

LEMMA NextIsQueueStep == StorageInv /\ StorageInv' /\ [Next]_vars => QueueStep
<1> SUFFICES ASSUME StorageInv, StorageInv', [Next]_vars PROVE QueueStep
  OBVIOUS
<1>1. CASE UNCHANGED vars
  <2>1. UNCHANGED <<writing, build, phase, at, mem, dirty, kept, builtBy>>
    BY <1>1 DEF vars, storageVars, historyVars
  <2>2. Written("queue")' = Written("queue") /\ QueueLoaded' = QueueLoaded
    BY <2>1 DEF Written, QueueLoaded, Running
  <2> QED BY <2>1, <2>2, SameQueue
<1> QED BY <1>1, LoadQueueStep, EventQueueStep, WriteQueueStep, FlushQueueStep, PowerQueueStep
        DEF Next, Setup, LoopEvent

\* The four LittleFS calls of a write, with the power cuts and failures between
\* them, the order of setup() and the updates of the firmware, are to the queue
\* what TransactionQueue says in one step: the models above this one assume no
\* more of /queue.bin than the flash gives.
THEOREM QueueFileImplemented == Spec => ImplementsQueueFile
<1>1. StorageInv /\ StorageInv' /\ [Next]_vars => [AbstractQueueStep]_(Abstract!queueVars)
  BY NextIsQueueStep DEF QueueStep
<1> QED BY <1>1, StorageInvHolds, PTL DEF Spec, ImplementsQueueFile

=============================================================================
