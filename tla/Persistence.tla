---------------------------- MODULE Persistence ----------------------------
(***************************************************************************)
(* What the terminal remembers across a reboot: the catalog, the           *)
(* residents, the queue and the summary, each in memory and in a file;     *)
(* setup(), which loads them in this order; loop(), which saves in the     *)
(* same order what has changed; syncs, bookings and edits, which change    *)
(* it; and power cuts, storage faults and firmware updates in between.     *)
(*                                                                         *)
(* kept, builtBy and synced are history variables: what was last put in    *)
(* place of each file, as a value, or Lost when the file is gone or        *)
(* damaged; the build that wrote it; and whether a sync has succeeded      *)
(* since the terminal started.                                             *)
(***************************************************************************)
EXTENDS DeviceStorage

CONSTANTS
    Item,           \* what a record of the residents or of the summary may be
    Defaults,       \* settings::default_residents
    Served,         \* for each revision of the backend what a sync delivers
    MaxFaults,      \* bound on the events of Env in a behaviour
    Env             \* what the surroundings may do

(***************************************************************************)
(*   power_cut     the power fails between two steps, writes included      *)
(*   write_fails   a call of LittleFS fails                                *)
(*   mount_fails   the partition cannot be mounted                         *)
(*   damage        a file is damaged while the terminal is off             *)
(*   update        another build is flashed while the terminal is off      *)
(***************************************************************************)
Revision == DOMAIN Served

ASSUME EventsAssumption ==
    Env \subseteq {"power_cut", "write_fails", "mount_fails", "damage", "update"}

CatalogItem == [from : Nat, edited : BOOLEAN]

Record(s) ==
    CASE s = "catalog" -> CatalogItem
      [] s = "queue" -> [kind : Kind]
      [] OTHER -> Item

\* A list that fits the array every build has for it.
Lists(s) == {list \in Seq(Record(s)) : \A b \in Build : Len(list) <= b.capacity[s]}

\* parse_sync() refuses an answer with more rows than the arrays hold.
ASSUME ServedAssumption ==
    /\ Revision \subseteq Nat /\ {0, 1} \cap Revision # {}
    /\ Defaults # <<>> /\ Defaults \in Lists("residents")
    /\ \A r \in Revision :
          /\ DOMAIN Served[r] = Store \ {"queue"}
          /\ \A s \in Store \ {"queue"} : Served[r][s] \in Lists(s)

ASSUME DamageShows == \A s \in Store : Scrap \notin Record(s) /\ Garbage \notin Record(s)

ASSUME MaxFaultsAssumption == MaxFaults \in Nat

VARIABLES
    build,          \* the firmware that runs
    phase,          \* "off", "mount", "load", "loop" or "flush"
    at,             \* which store setup() or the end of loop() has come to
    mem,            \* what each store holds
    dirty,          \* its g_dirty
    known,          \* g_from_backend of the residents, g_has_baseline of the summary
    backend,        \* the backend's revision
    faults,         \* the events of Env so far
    kept,
    builtBy,
    synced

historyVars == <<kept, builtBy, synced>>
vars == <<storageVars, build, phase, at, mem, dirty, known, backend, faults, historyVars>>

\* The order of setup() and of loop().
Order == <<"catalog", "residents", "queue", "summary">>
Current == Order[at]

Lost == [lost |-> TRUE]
Value(records) == [revision |-> 0, records |-> records]
Empty == Value(<<>>)

Seed(b) == Value(<<[from |-> b.seed, edited |-> FALSE]>>)

\* What a store starts with when its file is of no use.
Fallback(s) ==
    CASE s = "catalog" -> Seed(build)
      [] s = "residents" -> Value(Defaults)
      [] OTHER -> Empty

Init ==
    /\ StorageInit
    /\ build \in Build
    /\ phase = "off" /\ at = 1
    /\ mem = [s \in Store |-> Empty]
    /\ dirty = [s \in Store |-> FALSE]
    /\ known = {}
    /\ backend \in {0, 1} \cap Revision
    /\ faults = 0
    /\ kept = [s \in Store |-> Lost] /\ builtBy = [s \in Store |-> build] /\ synced = FALSE

----------------------------------------------------------------------------
Fault(e) == e \in Env /\ faults < MaxFaults /\ faults' = faults + 1

(* setup() *)

\* The call that comes next; the last store of a round is followed by loop().
Advance ==
    IF at < Len(Order) THEN at' = at + 1 /\ phase' = phase ELSE at' = 1 /\ phase' = "loop"

PowerOn ==
    /\ phase = "off"
    /\ phase' = "mount"
    /\ UNCHANGED <<storageVars, build, at, mem, dirty, known, backend, faults, historyVars>>

FirmwareUpdate ==
    /\ phase = "off"
    /\ Fault("update")
    /\ build' \in Build
    /\ UNCHANGED <<storageVars, phase, at, mem, dirty, known, backend, historyVars>>

StorageBegins ==
    /\ phase = "mount"
    /\ \/ Mount /\ UNCHANGED <<kept, faults>>
       \/ Fault("mount_fails") /\ MountFails /\ kept' = [s \in Store |-> Lost]
    /\ phase' = "load" /\ at' = 1
    /\ UNCHANGED <<build, mem, dirty, known, backend, builtBy, synced>>

SetMem(s, v) == mem' = [mem EXCEPT ![s] = v]

SetDirty(s, d) == dirty' = [dirty EXCEPT ![s] = d]

Flush(s) == StartWrite(s, Encode(build, s, mem'[s]))

\* Mutant: the generation of the seed is not compared.
StaleSeedKept(f) == FALSE

\* Data that came from the backend is kept whatever seed preceded it.
StaleSeed(f) == f.head.revision = 0 /\ f.head.generation # build.seed

\* begin() of a store: its file is taken whole, or not at all.
Accepts(s, f) ==
    /\ Check(build, s, f)
    /\ s = "catalog" => ~StaleSeed(f)
    /\ s = "residents" => f.head.count > 0

FromFile(s) == Readable(build, s) /\ Accepts(s, disk[s])

LoadStored ==
    /\ FromFile(Current)
    /\ SetMem(Current, Decode(build, Current, disk[Current]))
    /\ SetDirty(Current, FALSE)
    /\ known' = known \cup ({Current} \cap {"residents", "summary"})
    /\ Advance
    /\ UNCHANGED storageVars

\* Mutant: the list of defaults is saved, as the catalog's seed is.
FallBackSavingDefaults ==
    /\ ~FromFile(Current)
    /\ SetMem(Current, Fallback(Current))
    /\ UNCHANGED known
    /\ IF Current \in {"catalog", "residents"}
         THEN SetDirty(Current, TRUE) /\ Flush(Current) /\ UNCHANGED <<phase, at>>
         ELSE SetDirty(Current, FALSE) /\ UNCHANGED storageVars /\ Advance

\* A seeded catalog is saved at once; a queue that was there and could not be
\* read is saved as empty when the loop comes to it.
FallBack ==
    /\ ~FromFile(Current)
    /\ SetMem(Current, Fallback(Current))
    /\ UNCHANGED known
    /\ IF Current = "catalog"
         THEN SetDirty("catalog", TRUE) /\ Flush("catalog") /\ UNCHANGED <<phase, at>>
         ELSE /\ SetDirty(Current, Current = "queue" /\ Readable(build, "queue"))
              /\ UNCHANGED storageVars
              /\ Advance

Load ==
    /\ phase = "load" /\ Idle
    /\ LoadStored \/ FallBack
    /\ UNCHANGED <<build, backend, faults, historyVars>>

----------------------------------------------------------------------------
(* What changes the stores, one event in a pass of loop() *)

Event == phase = "loop" /\ Idle /\ UNCHANGED <<build, backend, faults, kept, builtBy>>

ToFlush == phase' = "flush" /\ at' = 1

Queued(kinds) == \E i \in DOMAIN mem["queue"].records : mem["queue"].records[i].kind \in kinds

\* Mutant: an empty list of residents replaces the old one.
SyncTakingEmptyList ==
    LET new == Served[backend]
        lists == ~Queued(Kind \ {"purchase"}) /\ backend # mem["catalog"].revision
    IN  /\ Event
        /\ lists
        /\ mem' = [mem EXCEPT !["residents"] = Value(new["residents"]),
                              !["catalog"] = [revision |-> backend, records |-> new["catalog"]],
                              !["summary"] = Value(new["summary"])]
        /\ dirty' = [s \in Store |-> dirty[s] \/ s # "queue"]
        /\ known' = known \cup {"residents", "summary"}
        /\ synced' = TRUE
        /\ ToFlush
        /\ UNCHANGED storageVars

\* apply_sync(): the summary always; the lists unless a product change is
\* queued or the revisions are equal; the residents only if there are any.
Sync ==
    LET new == Served[backend]
        lists == ~Queued(Kind \ {"purchase"}) /\ backend # mem["catalog"].revision
        people == lists /\ new["residents"] # <<>>
    IN  /\ Event
        /\ mem' = [s \in Store |->
                      CASE s = "summary" -> Value(new[s])
                        [] s = "residents" /\ people -> Value(new[s])
                        [] s = "catalog" /\ lists -> [revision |-> backend, records |-> new[s]]
                        [] OTHER -> mem[s]]
        /\ dirty' = [s \in Store |->
                      \/ dirty[s] \/ s = "summary"
                      \/ (s = "residents" /\ people)
                      \/ (s = "catalog" /\ lists)]
        /\ known' = known \cup {"summary"} \cup IF people THEN {"residents"} ELSE {}
        /\ synced' = (synced \/ ~Queued(Kind \ {"purchase"}))
        /\ ToFlush
        /\ UNCHANGED storageVars

\* Mutant: one entry more than the array holds.
BookTooMany ==
    /\ Event
    /\ Len(mem["queue"].records) <= build.capacity["queue"]
    /\ SetMem("queue", Value(Append(mem["queue"].records, [kind |-> "purchase"])))
    /\ SetDirty("queue", TRUE)
    /\ Flush("queue")
    /\ UNCHANGED <<phase, at, known, synced>>

Edited(items) == [items EXCEPT ![1] = [from |-> @.from, edited |-> TRUE]]

\* A booking, or an edit of the catalog, which changes the list as well.  The
\* queue is flushed within the touch handler.
Book ==
    /\ Event
    /\ Len(mem["queue"].records) < build.capacity["queue"]
    /\ \E k \in build.kinds :
          /\ mem' = [mem EXCEPT
                       !["queue"] = Value(Append(@.records, [kind |-> k])),
                       !["catalog"] = IF k = "purchase" THEN @
                                      ELSE [revision |-> @.revision,
                                            records |-> Edited(@.records)]]
          /\ dirty' = [dirty EXCEPT !["queue"] = TRUE,
                                    !["catalog"] = @ \/ k # "purchase"]
    /\ Flush("queue")
    /\ UNCHANGED <<phase, at, known, synced>>

\* The head is acknowledged.
Acknowledged ==
    /\ Event
    /\ mem["queue"].records # <<>>
    /\ SetMem("queue", Value(Tail(mem["queue"].records)))
    /\ SetDirty("queue", TRUE)
    /\ ToFlush
    /\ UNCHANGED <<storageVars, known, synced>>

NothingHappens ==
    /\ Event
    /\ ToFlush
    /\ UNCHANGED <<storageVars, mem, dirty, known, synced>>

\* Something is edited at the backend, which bumps its revision.
EditedElsewhere ==
    /\ phase = "loop" /\ Idle
    /\ backend + 1 \in Revision
    /\ backend' = backend + 1
    /\ UNCHANGED <<storageVars, build, phase, at, mem, dirty, known, faults, historyVars>>

----------------------------------------------------------------------------
(* flush() of a store, at the end of loop() or where it is called *)

StillDirty == {i \in at .. Len(Order) : dirty[Order[i]]}

StartFlush ==
    /\ phase = "flush" /\ Idle
    /\ IF StillDirty = {}
         THEN phase' = "loop" /\ at' = 1 /\ UNCHANGED storageVars
         ELSE LET next == CHOOSE i \in StillDirty : \A j \in StillDirty : i <= j
                  s == Order[next]
              IN  /\ at' = next /\ phase' = phase
                  /\ StartWrite(s, Encode(build, s, mem[s]))
    /\ UNCHANGED <<build, mem, dirty, known, backend, faults, historyVars>>

WriteWorks ==
    /\ \/ OpenTemp /\ UNCHANGED <<kept, builtBy>>
       \/ WriteTemp /\ UNCHANGED <<kept, builtBy>>
       \/ RemoveOld /\ UNCHANGED <<kept, builtBy>>
       \/ /\ Rename
          /\ kept' = [kept EXCEPT ![writing.store] = mem[writing.store]]
          /\ builtBy' = [builtBy EXCEPT ![writing.store] = build]
    /\ UNCHANGED <<build, phase, at, mem, dirty, known, backend, faults, synced>>

WriteFails ==
    /\ Fault("write_fails")
    /\ \/ OpenFails /\ UNCHANGED kept
       \/ (WriteShort \/ RemoveFails) /\ UNCHANGED kept
       \/ RenameFails /\ kept' = [kept EXCEPT ![writing.store] = Lost]
    /\ UNCHANGED <<build, phase, at, mem, dirty, known, backend, builtBy, synced>>

\* Mutant: the flag is cleared whether or not the file was written.
ReturnedClean(ok) == FALSE

\* Mutant: the flag is never cleared.
ReturnedDirty(ok) == TRUE

\* A failed write leaves the flag set, for the next flush.
Returned(ok) == ~ok

FlushEnds ==
    /\ \E ok \in BOOLEAN : WriteReturns(ok) /\ SetDirty(writing.store, Returned(ok))
    /\ IF phase = "loop" THEN ToFlush ELSE Advance
    /\ UNCHANGED <<build, mem, known, backend, faults, historyVars>>

----------------------------------------------------------------------------
(* Power, and what happens while it is off *)

PowerCut ==
    /\ Fault("power_cut")
    /\ phase \in {"load", "loop", "flush"}
    /\ StorageCut
    /\ phase' = "off" /\ at' = 1
    /\ kept' = [s \in Store |-> IF BetweenFiles(s) THEN Lost ELSE kept[s]]
    /\ mem' = [s \in Store |-> Empty] /\ dirty' = [s \in Store |-> FALSE]
    /\ known' = {} /\ synced' = FALSE
    /\ UNCHANGED <<build, backend, builtBy>>

Damage ==
    /\ phase = "off"
    /\ Fault("damage")
    /\ \E s \in Store :
          /\ kept[s] # Lost
          /\ \E f \in Damaged(disk[s]) : disk' = [disk EXCEPT ![s] = f]
          /\ kept' = [kept EXCEPT ![s] = Lost]
    /\ UNCHANGED <<mounted, writing, build, phase, at, mem, dirty, known, backend,
                   builtBy, synced>>

----------------------------------------------------------------------------
LoopEvent == Sync \/ Book \/ Acknowledged \/ NothingHappens

Setup == PowerOn \/ StorageBegins \/ Load

Next ==
    \/ Setup
    \/ LoopEvent
    \/ StartFlush \/ WriteWorks \/ WriteFails \/ FlushEnds
    \/ EditedElsewhere
    \/ PowerCut \/ Damage \/ FirmwareUpdate

Spec == Init /\ [][Next]_vars

\* The loop runs; LittleFS returns from every call.
LoopStep == Setup \/ LoopEvent \/ StartFlush \/ WriteWorks \/ FlushEnds

SavingSpec == Spec /\ WF_vars(LoopStep)

----------------------------------------------------------------------------
(* Properties *)

Steps == {"open", "write", "remove", "rename", "written", "failed"}

Running == phase \in {"loop", "flush"}

\* Every variable has its type, no list outgrows its array, and only one file
\* is written at a time.
TypeOK ==
    /\ build \in Build /\ mounted \in BOOLEAN
    /\ phase \in {"off", "mount", "load", "loop", "flush"} /\ at \in DOMAIN Order
    /\ DOMAIN disk = Store /\ DOMAIN mem = Store
    /\ Running => \A s \in Store : Len(mem[s].records) <= build.capacity[s]
    /\ dirty \in [Store -> BOOLEAN] /\ known \subseteq {"residents", "summary"}
    /\ writing # NoWrite => writing.step \in Steps /\ writing.store \in Store
    /\ phase \in {"off", "mount"} => Idle
    /\ backend \in Revision /\ faults \in 0 .. MaxFaults /\ synced \in BOOLEAN

\* What a restart of the present build gives for a store, from what was last
\* put in place of its file.
Usable(s) ==
    /\ kept[s] # Lost
    /\ builtBy[s].version = build.version /\ builtBy[s].size[s] = build.size[s]
    /\ Len(kept[s].records) <= build.capacity[s]
    /\ s = "catalog" => kept[s].revision # 0 \/ builtBy[s].seed = build.seed
    /\ s = "residents" => kept[s].records # <<>>

Restored(s) ==
    IF ~Usable(s) THEN Fallback(s)
    ELSE IF s = "queue"
         THEN Value([i \in DOMAIN kept[s].records |-> DecodedEntry(build, kept[s].records[i])])
         ELSE kept[s]

\* A restart brings back, whole, what was last put in place of the file, or
\* starts from the fallback: never a part of a file, an older version, another
\* file's records, or a file of a build with other records (catalog_codec.h:
\* "rejected whole rather than half-loaded").
RestartRestores ==
    [][phase = "load" /\ Idle /\ phase' # "off" => mem'[Current] = Restored(Current)]_vars

\* A store that is not dirty loses nothing in a power cut: its file gives what
\* memory holds, also after a flush that failed half-way, with the old file
\* already gone (product_catalog.cpp: "Leave the dirty flag set").
CleanSurvivesCut ==
    Running /\ mounted =>
        \A s \in Store : ~dirty[s] =>
            mem[s] = IF FromFile(s) THEN Decode(build, s, disk[s]) ELSE Fallback(s)

\* The admin screen's "vom Server" is true, also after a restart: the defaults
\* never get into the file, and a list from the file came from the backend.
FromBackendTells ==
    Running => IF "residents" \in known
               THEN \E r \in Revision : mem["residents"].records = Served[r]["residents"]
               ELSE mem["residents"].records = Defaults

\* There is always somebody to charge, whatever the backend sends and whatever
\* is left of the file (resident_directory.h: "cannot leave the device with no
\* way to record a purchase").
SomebodyToCharge == Running => mem["residents"].records # <<>>

\* A catalog that has never been synced descends from the seed of the build
\* that runs, through edits, flushes and firmware updates in any order.
SeedIsCurrent ==
    Running /\ mem["catalog"].revision = 0 => mem["catalog"].records[1].from = build.seed

\* Once the storage works, what has changed gets saved: a failed flush is
\* repeated.
DirtyGetsSaved ==
    <>[](phase # "off" /\ mounted) /\ <>[][~WriteFails]_vars
        => \A s \in Store : []<>~dirty[s]

(***************************************************************************)
(* TransactionQueue writes its file in one step.  Seen from there, the     *)
(* steps of a write are nothing, success, or one of the failures it        *)
(* allows; between remove and rename the old file still counts.            *)
(***************************************************************************)
QueueLoaded == Running \/ (phase = "load" /\ at > 3)

Written(s) == writing.step = "written" /\ writing.store = s

LongestQueue == CHOOSE n \in {b.capacity["queue"] : b \in Build} :
                    \A b \in Build : b.capacity["queue"] <= n

Abstract == INSTANCE TransactionQueue WITH
    MaxQueued <- LongestQueue,
    queue <- mem["queue"].records,
    dirty <- dirty["queue"] /\ ~Written("queue"),
    file <- Restored("queue").records,
    up <- QueueLoaded

AbstractQueueStep ==
    LET q == mem["queue"].records
        file == Restored("queue").records
    IN  \/ QueueLoaded /\ Abstract!ChangeInMemory(q')
        \/ QueueLoaded /\ q' = q /\ Abstract!Flush(q, {"write_fails"})
        \/ QueueLoaded /\ ~QueueLoaded' /\ (file' = file \/ (dirty["queue"] /\ file' = <<>>))
        \/ ~QueueLoaded /\ Abstract!LoadQueue
        \/ ~QueueLoaded /\ QueueLoaded' /\ file = <<>> /\ q' = <<>> /\ UNCHANGED kept
        \/ ~QueueLoaded /\ ~QueueLoaded'

\* The queue's file behaves as TransactionQueue says it does: all that the
\* models above this one assume about /queue.bin.
ImplementsQueueFile == [][AbstractQueueStep]_(Abstract!queueVars)

\* architecture.md: "The device falls back to settings::default_residents only
\* until its first successful sync".
DefaultsOnlyUntilSync == Running /\ synced => "residents" \in known

=============================================================================
