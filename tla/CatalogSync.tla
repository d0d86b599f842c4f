---------------------------- MODULE CatalogSync ----------------------------
(***************************************************************************)
(* The catalog between the terminal and the sheet: edits at the fridge,    *)
(* which change the terminal's list at once and travel through the         *)
(* transaction queue; edits elsewhere, which travel with a sync; and the   *)
(* request slot, the network task and power cuts in between.               *)
(*                                                                         *)
(* Drinks in the queue are left out here (Terminal has them), so every     *)
(* entry is a product change.  An edit elsewhere is one on the management  *)
(* page or at a second terminal.                                           *)
(*                                                                         *)
(* Four history variables follow what the household said:                  *)
(*   wish         for each beer, whether its last word on it, spoken at    *)
(*                this terminal, was "on the shelf" or "off it"            *)
(*   setBack      beers of which a power cut has since brought back an     *)
(*                older state, because the list was not saved yet          *)
(*   astray       beers whose change at this terminal the backend will     *)
(*                never learn                                              *)
(*   astraySaved  those among the beers on flash                           *)
(***************************************************************************)
EXTENDS ProductCatalog, TransactionQueue

CONSTANTS
    InitialSheet,   \* the sheet when the terminal is set up
    Seed,           \* the compiled-in catalog
    MaxLate,        \* bound: requests given up on that may still be executed
    MaxEvents,      \* bound: edits here and elsewhere, failures and power cuts
    Env             \* what the surroundings may do

(***************************************************************************)
(*   elsewhere   products are edited on the management page                *)
(*   link_fails  a request fails before or after the backend executes it   *)
(*   power_cut   the power fails between two steps                         *)
(*   throws      a handler throws or is killed, before its row or after it *)
(***************************************************************************)
ASSUME EventsAssumption == Env \subseteq {"elsewhere", "link_fails", "power_cut", "throws"}

ASSUME MaxEventsAssumption == MaxEvents \in Nat

\* The compiled-in beers have barcodes and fit the array and the grid.
ASSUME InitialAssumption ==
    /\ InitialSheet \in Seq(Product) /\ Seed \in Seq(Product)
    /\ \A i \in DOMAIN Seed : Seed[i].beer \in Coded
    /\ Len(Seed) <= MaxProducts
    /\ Cardinality(ActiveRows(Seed)) <= MaxActive

VARIABLES
    phase,          \* the call of loop() that comes next
    op,             \* what holds the slot: "None", "Sync" or "Change"
    net,            \* how far its request is
    request,        \* the change that is being sent
    answer,         \* what the backend answers: "ok", "refused", "unchanged", "changed"
    synced,         \* the list a "changed" answer carries, and whether the
                    \* revision it names is still the backend's
    selected,       \* g_ctx.archive_storage_index on the manage screen, else 0
    wish,
    setBack,
    astray,
    astraySaved,
    events          \* how many of those there have been

slotVars == <<op, net, request, answer, synced>>
screenVars == <<wish, setBack>>
historyVars == <<screenVars, astray, astraySaved>>
vars == <<phase, slotVars, selected, historyVars, productsVars, catalogVars, queueVars,
          events>>

Nothing == "nothing"
NoRequest == [kind |-> "none"]
NoList == [list |-> <<>>, current |-> FALSE]

\* Every variable has its type, and neither list outgrows its array.
TypeOK ==
    /\ ProductsTypeOK /\ CatalogTypeOK
    /\ queue \in Seq(Change) /\ Len(queue) <= MaxQueued
    /\ file \in Seq(Change) /\ dirty \in BOOLEAN /\ up
    /\ phase \in {"backend", "ui", "catalog", "queue"}
    /\ op \in {"None", "Sync", "Change"}
    /\ net \in {"idle", "waiting", "sent", "reading", "answered", "failed"}
    /\ request \in Change \cup {NoRequest}
    /\ answer \in {"none", "ok", "refused", "unchanged", "changed"}
    /\ synced \in [list : Seq(Product), current : BOOLEAN]
    /\ selected \in Nat
    /\ wish \in [Beer -> {"on shelf", "off shelf", Nothing}]
    /\ setBack \subseteq Beer /\ astray \subseteq Beer /\ astraySaved \subseteq Beer
    /\ events \in 0 .. MaxEvents

Init ==
    /\ sheet = InitialSheet /\ writer = "none" /\ unbumped = FALSE /\ late = {}
    /\ items = Seed /\ current = FALSE /\ unsaved = FALSE
    /\ saved = [items |-> Seed, current |-> FALSE]
    /\ QueueInit
    /\ phase = "backend"
    /\ op = "Sync" /\ net = "waiting" /\ request = NoRequest
    /\ answer = "none" /\ synced = NoList
    /\ selected = 0
    /\ wish = [b \in Beer |-> Nothing]
    /\ setBack = {} /\ astray = {} /\ astraySaved = {}
    /\ events = 0

----------------------------------------------------------------------------
(* The slot *)

Turn(from, to) == phase = from /\ phase' = to

Start(o, r) ==
    op' = o /\ net' = "waiting" /\ request' = r /\ answer' = "none" /\ synced' = NoList

\* finish()
FreeSlot ==
    op' = "None" /\ net' = "idle" /\ request' = NoRequest /\ answer' = "none" /\ synced' = NoList

\* send_queued_now() for queue q
SendQueuedNow(q) ==
    IF op = "None" /\ q # <<>> THEN Start("Change", q[1]) ELSE UNCHANGED slotVars

\* update() with a free slot: the queue first, a sync only behind it, or
\* nothing because it is not time yet.
StartNext ==
    /\ Turn("backend", "ui")
    /\ op = "None"
    /\ \/ queue # <<>> /\ SendQueuedNow(queue)
       \/ queue = <<>> /\ Start("Sync", NoRequest)
    /\ UNCHANGED <<selected, historyVars, productsVars, catalogVars, queueVars>>

BackendIdle ==
    /\ Turn("backend", "ui")
    /\ net \in {"idle", "waiting", "sent", "reading"}
    /\ UNCHANGED <<slotVars, selected, historyVars, productsVars, catalogVars, queueVars>>

PostRequest ==
    /\ Turn("backend", "ui")
    /\ net = "waiting"
    /\ net' = "sent"
    /\ UNCHANGED <<op, request, answer, synced, selected, historyVars, productsVars,
                   catalogVars, queueVars>>

\* The radio does not come up, or the task reports a failure.
RequestFails ==
    /\ Turn("backend", "ui")
    /\ net = "failed" \/ (net = "waiting" /\ "link_fails" \in Env)
    /\ FreeSlot
    /\ UNCHANGED <<selected, historyVars, productsVars, catalogVars, queueVars>>

----------------------------------------------------------------------------
(* update() with an answer *)

ChangeDone ==
    /\ Turn("backend", "ui")
    /\ op = "Change" /\ net = "answered" /\ answer = "ok"
    /\ ChangeInMemory(Popped(queue))
    /\ FreeSlot
    /\ UNCHANGED <<selected, historyVars, productsVars, catalogVars>>

\* A refusal and a busy backend look alike: the change is dropped.
ChangeRefused ==
    /\ Turn("backend", "ui")
    /\ op = "Change" /\ net = "answered" /\ answer = "refused"
    /\ ChangeInMemory(Popped(queue))
    /\ FreeSlot
    /\ astray' = astray \cup {request.beer}
    /\ wish' = [wish EXCEPT ![request.beer] = Nothing]
    /\ UNCHANGED <<setBack, astraySaved, selected, productsVars, catalogVars>>

\* Mutant: a change that waits its turn behind the sync does not count.
HasProductChangesUnderWay(q) == op = "Change"

\* has_product_changes(): every entry is one here.
HasProductChanges(q) == q # <<>>

\* parse_sync() refuses a list that is longer than the terminal's array.
TooManyItems == Len(synced.list) > MaxProducts

SyncKept ==
    /\ Turn("backend", "ui")
    /\ op = "Sync" /\ net = "answered"
    /\ HasProductChanges(queue) \/ answer = "unchanged" \/ TooManyItems
    /\ FreeSlot
    /\ UNCHANGED <<selected, historyVars, productsVars, catalogVars, queueVars>>

\* apply_sync() installs the list; a beer it brings is no longer astray, and what
\* a cut had set back is put right on the screen, if not on flash yet.
SyncApplied ==
    /\ Turn("backend", "ui")
    /\ op = "Sync" /\ net = "answered"
    /\ ~HasProductChanges(queue) /\ answer = "changed" /\ ~TooManyItems
    /\ ReplaceAll(synced.list, synced.current)
    /\ astray' = {b \in astray : RowsOf(synced.list, b) = {}}
    /\ setBack' = {}
    /\ FreeSlot
    /\ UNCHANGED <<wish, astraySaved, selected, productsVars, queueVars>>

----------------------------------------------------------------------------
(* The backend *)

\* When a change has put more on the shelf than fits, anything may be trimmed.
Trimmed(w) ==
    IF Cardinality(ActiveRows(sheet')) > MaxActive THEN [b \in Beer |-> Nothing] ELSE w

\* A handler of ours writes its row under the lock.
ChangeWritten ==
    /\ op = "Change" /\ net = "sent" /\ writer = "none"
    /\ Writes(request)
    /\ writer' = "ours"
    /\ wish' = Trimmed(wish)
    /\ UNCHANGED <<phase, slotVars, selected, setBack, astray, astraySaved, unbumped,
                   late, catalogVars, queueVars>>

\* The handler refuses or throws, or finds the lock held for 20 s.
ChangeNotWritten ==
    /\ op = "Change" /\ net = "sent"
    /\ \/ writer = "none" /\ Refuses(request)
       \/ writer = "none" /\ "throws" \in Env
       \/ writer = "other"
    /\ net' = "answered"
    /\ answer' = "refused"
    /\ UNCHANGED <<phase, op, request, synced, selected, historyVars, productsVars,
                   catalogVars, queueVars>>

\* What somebody else says about a beer replaces what was said here.
ChangedElsewhere ==
    /\ "elsewhere" \in Env
    /\ writer = "none"
    /\ \E c \in Change :
          /\ Writes(c)
          /\ wish' = Trimmed([wish EXCEPT ![c.beer] = Nothing])
    /\ writer' = "other"
    /\ UNCHANGED <<phase, slotVars, selected, setBack, astray, astraySaved, unbumped,
                   late, catalogVars, queueVars>>

\* What a change says about its beer, if it is not about the price.
Says(c) == IF c.kind = "archive" THEN "off shelf" ELSE "on shelf"

\* The beers a queue still has something to say about.
Pending(q) == {q[j].beer : j \in DOMAIN q}

\* The entry that is being sent is in the sheet; the answer is still on its way.
HeadWritten == op = "Change" /\ (writer = "ours" \/ (net = "answered" /\ answer = "ok"))
FirstUnwritten == IF HeadWritten THEN 2 ELSE 1

\* From entry f on, the queue still has something to say about the shelf.
Unwritten(q, b, f) == \E i \in DOMAIN q : i >= f /\ q[i].beer = b /\ q[i].kind # "price"

\* An older change has the last word in the sheet, against a newer one that has
\* been there before it: the backend does not know which of the two is newer.
Overrules(c) ==
    c.kind # "price" /\ Says(c) # wish[c.beer] /\ ~Unwritten(queue, c.beer, FirstUnwritten)

\* A request of ours is executed after the terminal has given it up.
ExecutedLate ==
    /\ writer = "none"
    /\ \E c \in late :
          /\ Writes(c)
          /\ late' = late \ {c}
          /\ wish' = Trimmed(IF Overrules(c) THEN [wish EXCEPT ![c.beer] = Nothing] ELSE wish)
    /\ writer' = "other"
    /\ UNCHANGED <<phase, slotVars, selected, setBack, astray, astraySaved, unbumped,
                   catalogVars, queueVars>>

\* Mutant: the handler that writes does not bump the revision.
NoBump == UNCHANGED <<current, saved, synced>>

\* bumpRevision_(): from now on every revision handed out before is old.
BumpRevision ==
    /\ current' = FALSE
    /\ saved' = [saved EXCEPT !.current = FALSE]
    /\ synced' = [synced EXCEPT !.current = FALSE]

\* The lock is released, and who waits gets an answer.
Release(a) ==
    /\ writer' = "none"
    /\ IF writer = "ours" THEN net' = "answered" /\ answer' = a ELSE UNCHANGED <<net, answer>>

HandlerEnds ==
    /\ writer # "none"
    /\ BumpRevision
    /\ unbumped' = FALSE
    /\ Release("ok")
    /\ UNCHANGED <<phase, op, request, selected, historyVars, sheet, late, items, unsaved,
                   queueVars>>

\* The handler throws or is killed between its row and its bump; doPost answers
\* ok: false.
HandlerDies ==
    /\ "throws" \in Env
    /\ writer # "none"
    /\ unbumped' = TRUE
    /\ Release("refused")
    /\ UNCHANGED <<phase, op, request, synced, selected, historyVars, sheet, late, catalogVars,
                   queueVars>>

\* handleSync_ reads the revision and compares it with the terminal's.
SyncReadsRevision ==
    /\ op = "Sync" /\ net = "sent"
    /\ \/ /\ current
          /\ net' = "answered" /\ answer' = "unchanged" /\ UNCHANGED synced
       \/ /\ ~current
          /\ net' = "reading" /\ synced' = [NoList EXCEPT !.current = TRUE] /\ UNCHANGED answer
    /\ UNCHANGED <<phase, op, request, selected, historyVars, productsVars,
                   catalogVars, queueVars>>

SyncReadsProducts ==
    /\ op = "Sync" /\ net = "reading"
    /\ net' = "answered"
    /\ answer' = "changed"
    /\ synced' = [synced EXCEPT !.list = Served(sheet)]
    /\ UNCHANGED <<phase, op, request, selected, historyVars, productsVars,
                   catalogVars, queueVars>>

\* The task gives up, and what it waited for goes on by itself: a handler that
\* holds the lock, or a change on its way to the backend.
GivenUp ==
    /\ writer' = IF writer = "ours" THEN "other" ELSE writer
    /\ late' = IF /\ op = "Change" /\ net = "sent" /\ writer # "ours"
                  /\ Cardinality(late) < MaxLate
               THEN late \cup {request} ELSE late

\* Also a sync whose handler throws: the terminal takes it for a failure.
LinkFails ==
    /\ "link_fails" \in Env
    /\ net \in {"sent", "reading", "answered"}
    /\ net' = "failed"
    /\ answer' = "none"
    /\ synced' = NoList
    /\ GivenUp
    /\ UNCHANGED <<phase, op, request, selected, historyVars, sheet, unbumped, catalogVars,
                   queueVars>>

----------------------------------------------------------------------------
(* At the fridge *)

\* The household's word: the screen shows it, but it is not saved yet.
Said(c) ==
    IF c.kind = "price" THEN UNCHANGED screenVars
    ELSE /\ wish' = [wish EXCEPT ![c.beer] = Says(c)]
         /\ setBack' = setBack \ {c.beer}

\* queue_product_entry() for change c: without room in the queue the list is
\* changed all the same and the backend never hears of it.
QueueProductEntry(c) ==
    \/ /\ Full(queue)
       /\ astray' = astray \cup {c.beer}
       /\ wish' = [wish EXCEPT ![c.beer] = Nothing]
       /\ UNCHANGED <<setBack, astraySaved, slotVars, queueVars>>
    \/ /\ ~Full(queue)
       /\ Store(Append(queue, c), {})
       /\ SendQueuedNow(Append(queue, c))
       /\ Said(c)
       /\ UNCHANGED <<astray, astraySaved>>

UiTurn == Turn("ui", "catalog") /\ UNCHANGED productsVars

LeaveManage == selected' = 0

\* A tile, then "Bier verwalten".
TapManage ==
    /\ UiTurn
    /\ selected = 0
    /\ \E i \in ActiveRows(items) : selected' = i
    /\ UNCHANGED <<slotVars, historyVars, catalogVars, queueVars>>

TapBack ==
    /\ UiTurn
    /\ selected # 0
    /\ LeaveManage
    /\ UNCHANGED <<slotVars, historyVars, catalogVars, queueVars>>

\* "Archivieren", confirmed.  A position behind the end is ignored.
ConfirmArchive ==
    /\ UiTurn
    /\ selected # 0
    /\ LeaveManage
    /\ \/ /\ selected \in DOMAIN items
          /\ QueueProductEntry([kind |-> "archive", beer |-> items[selected].beer])
          /\ Archive(selected)
       \/ /\ selected \notin DOMAIN items
          /\ UNCHANGED <<slotVars, historyVars, catalogVars, queueVars>>

\* "Preis speichern": a position behind the end leaves the screen as it is.
ConfirmPrice ==
    /\ UiTurn
    /\ selected \in DOMAIN items
    /\ \E p \in Price :
          /\ SetPrice(selected, p)
          /\ QueueProductEntry([kind |-> "price", beer |-> items[selected].beer, price |-> p])
    /\ LeaveManage

\* A tile under "Nicht gelistet".
TapRestore ==
    /\ UiTurn
    /\ selected = 0
    /\ \E i \in DOMAIN items :
          /\ Restore(i)
          /\ QueueProductEntry([kind |-> "restore", beer |-> items[i].beer])
    /\ UNCHANGED selected

\* "Neues Bier anlegen"; the drink that follows is not modelled here.
ConfirmNewProduct ==
    /\ UiTurn
    /\ selected = 0
    /\ \E b \in Beer \ Coded, p \in Price :
          /\ AddProduct(b, p)
          /\ QueueProductEntry([kind |-> "create", beer |-> b, price |-> p])
    /\ UNCHANGED selected

\* set_active(): waking asks for a sync even while changes are queued.
Wake ==
    /\ UiTurn
    /\ op = "None"
    /\ Start("Sync", NoRequest)
    /\ UNCHANGED <<selected, historyVars, catalogVars, queueVars>>

UiIdle ==
    /\ UiTurn
    /\ UNCHANGED <<slotVars, selected, historyVars, catalogVars, queueVars>>

----------------------------------------------------------------------------
(* The end of the iteration, and power *)

SaveCatalog ==
    /\ Turn("catalog", "queue")
    /\ FlushCatalog
    /\ astraySaved' = astray
    /\ UNCHANGED <<slotVars, selected, screenVars, astray, productsVars, queueVars>>

SaveQueue ==
    /\ Turn("queue", "backend")
    /\ IF dirty THEN Store(queue, {}) ELSE UNCHANGED queueVars
    /\ UNCHANGED <<slotVars, selected, historyVars, productsVars, catalogVars>>

Shows(list, i) == IF list[i].active THEN "on shelf" ELSE "off shelf"

\* The list has the beer as wished, unless it has it twice.
ShowsWish(list, b, w) ==
    \A i \in RowsOf(list, b) : (\A j \in RowsOf(list, b) : j = i) => Shows(list, i) = w

\* An edit that is not saved yet is not shown after the cut: queue_product_entry()
\* has flushed the queue, but the list is flushed at the end of the loop.
PowerCut ==
    /\ "power_cut" \in Env
    /\ phase' = "backend"
    /\ LoadCatalog
    /\ LoadQueue
    /\ Start("Sync", NoRequest)
    /\ GivenUp
    /\ LeaveManage
    /\ setBack' = setBack \cup
          {b \in Beer : unsaved /\ wish[b] # Nothing /\ ~ShowsWish(saved.items, b, wish[b])}
    /\ astray' = astray \cup astraySaved
    /\ UNCHANGED <<wish, astraySaved, sheet, unbumped>>

----------------------------------------------------------------------------
EditAtFridge == ConfirmArchive \/ ConfirmPrice \/ TapRestore \/ ConfirmNewProduct

UiStep == TapManage \/ TapBack \/ Wake \/ UiIdle

BackendUpdate ==
    \/ StartNext \/ BackendIdle \/ PostRequest \/ RequestFails
    \/ ChangeDone \/ ChangeRefused \/ SyncKept \/ SyncApplied

Handlers ==
    \/ ChangeWritten \/ ChangeNotWritten \/ HandlerEnds \/ ExecutedLate
    \/ SyncReadsRevision \/ SyncReadsProducts

Step == BackendUpdate \/ UiStep \/ SaveCatalog \/ SaveQueue \/ Handlers

Event == EditAtFridge \/ ChangedElsewhere \/ HandlerDies \/ LinkFails \/ PowerCut

Next ==
    \/ Step /\ UNCHANGED events
    \/ Event /\ events < MaxEvents /\ events' = events + 1

Spec == Init /\ [][Next]_vars

----------------------------------------------------------------------------
(* Safety *)

\* In the Products sheet a beer never has two rows, whatever is retried after a
\* lost answer, created at the fridge and on the phone at once, or executed late.
OneRowPerBeer == \A b \in Beer : Cardinality(RowsOf(sheet, b)) <= 1

\* Equal revisions mean equal catalogs: when the terminal holds the backend's
\* revision, has nothing to send and no handler is between its row and its
\* bump, a sync that answers "unchanged" leaves it with what the sheet says
\* about every beer it has not been refused.  (After a handler that died in
\* between this holds again from the next bump on.)
Same(b) ==
    {items[i] : i \in RowsOf(items, b)} = {Served(sheet)[i] : i \in RowsOf(sheet, b)}

RevisionTells ==
    current /\ queue = <<>> /\ writer = "none" /\ ~unbumped
        => \A b \in Beer \ astray : Same(b)

\* What the household archived or put on the shelf at this terminal stays so on
\* its screen until somebody says otherwise elsewhere: no sync that was under
\* way, no retry and no late execution of what is also queued or was said again
\* brings the old state back.  A power cut does, and only for a beer whose
\* change was queued but not saved in the list yet: it is set right again by the
\* sync that follows the change, so while it is wrong the change is queued or
\* the terminal is behind the backend's revision.
\* (A beer the list holds twice, typed in again under its name, is left out
\* until a sync has merged the two.)
WishStaysShown ==
    \A b \in Beer : wish[b] # Nothing
        => \/ ShowsWish(items, b, wish[b])
           \/ b \in setBack /\ (b \in Pending(queue) \/ ~current)

\* The grid has a place for every active beer, so long as every change made at
\* the terminal has reached the backend or still can.
ShelfFits == astray = {} => Cardinality(ActiveRows(items)) <= MaxActive

=============================================================================
