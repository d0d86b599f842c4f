# beer-tab5: a verification development

beer-tab5 is a terminal in front of a shared fridge: tap a beer, tap a name,
and the drink is booked in a spreadsheet. The firmware runs on an ESP32 tablet;
the backend is a Google Apps Script web app over one spreadsheet. What makes the
program hard is a promise in its README: every purchase is written to flash
before it is sent and keeps its transaction id across retries, "so a dead router
or a backend outage cannot lose a drink and a retry cannot record one twice".

This directory holds TLA+ models of the parts that keep (or break) that promise,
the TLC configurations that check them, and proofs checked by TLAPS. Paths below
are relative to `src/firmware/beer_terminal/` unless they start with `src/`.

## 1. Inventory

| Part | State it keeps | Operations | Modelled in |
|---|---|---|---|
| Main loop (`beer_terminal.ino`) | none | `setup()`; `loop()`: Wi-Fi, LVGL, backend, app, touch, flush, power, in turn | `Terminal` |
| Screen flow (`app_state.cpp`) | state, purchase context, `g_simulated`, timer, failure switch | `dispatch`, `enter`, `update`, the enqueue functions | `AppState` |
| Request slot (`backend.cpp`) | operation, posted flag, request bytes, result, deadline, backoff, summary state, last sync | `update`, `send_queued_now`, `request_sync`, `request_my_summary`, `set_active`, `clear` | `Backend` |
| Network task (`api_client.cpp`) | atomic status, request and response buffers | `post`, the worker's `perform`, `reset` | `ApiClient` |
| Transaction queue (`transaction_queue.cpp`) | array of at most 64 entries, dirty flag, `/queue.bin` | `push`, `pop`, `remove_purchase`, `full`, `flush`, `begin` | `TransactionQueue` |
| Flash storage (`device_storage.cpp`) | LittleFS files | `begin`, `read`, `write` (temporary file, remove, rename) | `DeviceStorage`, with its four users in `Persistence`; in one step in `TransactionQueue` (`Flush`) |
| Purchases sheet (`src/backend/apps-script/Api.gs`, `Data.gs`) | rows with id and `voided_at` | `recordPurchase`, `voidPurchase`, under the script lock | `PurchaseSheet` |
| Wire protocol (`api_protocol.cpp`) | none | build requests, parse answers | `Backend` (`ParseAck`), `CatalogSync` (`TooManyItems`), `Household` (what is asked); JSON not |
| Sleep timer (`power_manager.cpp`) | last activity | sleep after a minute, wake on touch | `AppState` (`Sleep`, `Wake`) |
| Wi-Fi manager (`wifi_manager.cpp`) | radio state, deadlines, attempts, wanted/linger | `request_online`, `update` | `WifiManager`, with the slot in `RadioSlot` |
| Catalog (`product_catalog.cpp`) | products, revision, dirty flag, `/catalog.bin` | `archive`, `restore`, `add_product`, `set_price`, `replace_all`, `flush`, `begin` | `ProductCatalog`, with the rest of the device in `CatalogSync` |
| Residents (`resident_directory.cpp`) | a list, whether it is the backend's, `/residents.bin` | `begin`, `at`, `replace_all`, `flush` | `Persistence`, `Household` |
| Purchase log (`purchase_log.cpp`) | baseline figures, `/summary.bin`, a view | `begin`, `set_baseline`, `flush`; `rebuild` over the queue | `Persistence`, `Household`; the view is dead code |
| Grid layout (`catalog_layout.cpp`) | none | a pure function | not modelled |
| Catalog side of the backend (`Api.gs`, `Data.gs`, `Admin.gs`) | Products sheet, revision | `sync`, `createProduct`, `setActive`, `changePrice`, the management page | `ProductsSheet` |
| Household side of the backend (`Api.gs`, `Data.gs`, `Admin.gs`) | Residents sheet, the same revision, what Purchases adds up to | `sync`, `mySummary`, the look-up in `recordPurchase`, `adminSaveResident`, edits by hand | `ResidentsSheet` |
| Field validation (`Validate.gs`) | none | cleaning of text and prices | not modelled |
| Storage codec (`catalog_codec.cpp`) | none | encode and decode with version, sizes and a checksum | `CatalogCodec` |
| Screens, keyboard, fonts, LVGL setup | widgets | tap handlers, the overview | the taps that reach `dispatch`, and what the overview draws |

How they interact: everything but the network task runs in one thread, in the
order of `loop()`. The loop hands the task one request at a time through an
atomic status. A touch runs `dispatch()`, which runs `enter()`, which pushes to
the queue, flushes it and tries to start a request, all inside the touch
handler. The result comes back through `g_result`, which the waiting screens
poll. The queue drains in the background, asleep or awake.

### What is hard to test here

`PROJECT.json` lists the hazards line by line. In short:

* **Order.** The acknowledgement pops *the head*, which need not be what was
  sent; the request that starts after a push is that of the head, which need
  not be what was pushed; a late request arrives after its retry.
* **Lost answers.** "Failed" says nothing about execution, for a booking and for
  a reversal alike.
* **Crashes.** Power cuts between push and flush, between acknowledgement and
  flush, in the middle of a request, between `remove()` and `rename()`, and
  between the files of one sync; firmware updates that change the record sizes.
* **Waiting.** A screen that waits must end waiting; a queue must drain behind
  refused catalog changes, expired deadlines and summaries.
* **Stale values.** A waiting screen must not read an earlier attempt's result; a
  sync under way must not undo an edit made meanwhile; a screen's index into the
  catalog or the list of people must still mean the same beer or person; an
  overview must not show another person's figures.
* **Two orders.** The backend writes a row and then bumps the revision; a sync
  reads the revision and then the rows, without the lock.
* **Clocks.** `millis()` wraps around after 49 days and deadlines are compared by
  the sign of a difference; linger, deadline and backoff run against each other.
* **Limits.** The queue at capacity; a reversal that finds no room.

## 2. Modules

```
PurchaseSheet <- ApiClient \
                            Backend <- AppState <- Terminal <- MCTerminal   (TLC)
TransactionQueue ---------/                          |
                                                      +-- PurchaseLedger    (abstract)
Terminal <- TerminalSafety <- TerminalDrinks, TerminalLedger <- TerminalUndo (TLAPS)

ProductsSheet <- ProductCatalog \
                                 CatalogSync <- MCCatalogSync               (TLC)
TransactionQueue ---------------/           |
                                            +-- CatalogProofs               (TLAPS)
WifiManager <- RadioSlot                                                   (TLC)
                   |
                   +-- RadioSlotProofs                                      (TLAPS)

CatalogCodec <- DeviceStorage <- Persistence <- MCPersistence              (TLC)
                                      |
                                      +-- TransactionQueue                  (abstract)
                                      +-- PersistenceProofs                 (TLAPS)
ResidentsSheet <- Household <- MCHousehold                                 (TLC)
                      |
                      +-- HouseholdProofs                                   (TLAPS)
```

An arrow is EXTENDS, so a state of `Terminal` is the state of the whole device,
the link and the sheet. The other four are slices of the same device, each with
what its questions need; `Persistence` is tied to the first by a refinement.

* **PurchaseSheet.** A row is its transaction id and whether `voided_at` is
  filled. `RecordPurchase(t, answer)` and `VoidPurchase(t, answer)` are the two
  handlers: validation, lock, duplicate check, append or mark; with `throws` an
  exception, before or after the row is written, which `doPost()` turns into
  `ok: false`. The constants `Env` and `Refusable` list what the surroundings may do
  in a run.
* **ApiClient.** `post`, the task's `perform` with its outcomes, `reset`. The
  backend executes the request at some moment while the task is busy
  (`BackendAnswers`), or after the task gave up (`LateExecution`), or never.
* **TransactionQueue.** Queue, dirty flag and file; `Store` is push-or-remove
  followed by `flush()`, `ChangeInMemory` a pop that waits for the flush at the
  end of the loop, `Flush` the three outcomes of a LittleFS write.
* **Backend.** The slot: one action per branch of `update()`. Time is two flags,
  `expired` and `backoff`. `g_last_sync` is abstracted away: a periodic sync may
  be due whenever the terminal is active.
* **AppState.** One action per tap and per result or timer that `update()`
  handles. `enter()` runs inside the action, so a tap on a name pushes, flushes
  and sends in one step, as in the code. The four catalog-editing screens are
  one (`Editing`): to a purchase they matter as a source of queue entries.
* **Terminal.** `loop()` as the phases `backend`, `app`, `ui`, `flush`; one
  phase is one atomic step, since the loop is one thread. Between phases the
  task, the backend, the clock or a power cut may come in. `Restart` is
  `setup()`. The history variables `submitted`, `undoAsked` and `told` record
  what the user did and was told; no action reads them except that transaction
  ids are drawn fresh.
* **PurchaseLedger.** What the whole promises about a drink: absent, recorded
  once it is submitted, voided once the user asks, and nothing else.

* **WifiManager, RadioSlot.** `wifi_manager::update()` branch by branch, and the
  request slot reduced to whether it is taken. A time stamp is kept as the 32-bit
  difference to now, which is all the code ever uses of it; `Half` of the range
  is "negative". `Backend` lets the radio come and go at will; these two modules
  justify its `DeadlinePasses`. `sinceAsked` and `sinceFailure` are history
  variables: true ages, for the properties to compare with what the code believes.
* **ProductsSheet.** The rows of Products and the handlers that write them. A
  handler writes its row in one step and bumps the revision in another
  (`writer` is who is in between, holding the lock), or throws or is ended in
  between (`unbumped`, until the next bump). `late` are changes the terminal has
  given up on and the backend may still execute.
* **ProductCatalog.** The terminal's list, addressed by position, and its file. A
  revision is only compared for equality, so it is kept as "equals the
  backend's"; a bump makes all copies unequal. The code asks for nothing else.
  `Nth` picks the local products that `replace_all()` carries over, in the order of
  the list, by counting; a recursive filter would be opaque to the provers.
* **CatalogSync.** The catalog from the fridge to the sheet and back: the edit
  screens, the queue (entries are product changes here), the slot, the handlers,
  edits elsewhere, lost answers, late executions and power cuts. History variables:
  `wish` is the household's last word on a beer, and `setBack` the beers of which a
  power cut has brought back an older state: the tap flushes the queue
  (`app_state.cpp:459`) and the list waits for the end of `loop()`
  (`beer_terminal.ino:98`). `astray` and `astraySaved` are beers whose change the
  backend will never learn: refused, or made with a full queue. A late change
  takes a wish back only if it has the last word in the sheet against a newer one
  (`Overrules`), which the backend has no means of telling.

* **CatalogCodec.** A file is a header (version, kind, record size, generation or
  revision, count, checksum) and its records; `Check` is the code's chain of
  comparisons and `Damaged` what a bad flash may make of a file. A checksum is
  taken to tell any two contents apart. A *build* is a firmware: its format
  version, record sizes, capacities, seed and the kinds of queue entry it knows.
* **DeviceStorage.** `write()` one LittleFS call at a time, each of which may
  fail or be the last before a power cut; `begin()` with a mount that fails and
  formats. `Readable` is `read()` with its limit on the size and its refusal of a
  file that gives fewer bytes than its size says (`Unread`).
* **Persistence.** The four stores (catalog, residents, queue, summary) in memory
  and in their files; `setup()` loading them in its order, `loop()` saving them in
  its order, and in between syncs, bookings, acknowledgements, damage and firmware
  updates. What a record of a person or of the figures says is left open (`Item`).
  `kept`, `builtBy` and `synced` are history variables. At its end the
  module instantiates `TransactionQueue` with a refinement mapping:
  `ImplementsQueueFile` says that what the queue sees of all this is nothing but
  the one-step `Flush`, `Store` and `LoadQueue` on which the `Terminal` models rest.
* **ResidentsSheet.** The rows of Residents, the revision, and the rows of
  Purchases as transaction, person and beer; the person may have left the household
  (`Former`). `SaveResident` and `BumpRevision` are two steps, as in
  `adminSaveResident()`, which may also end in between (`SaveDies`); `EditByHand`
  bumps nothing. `ConsumptionSummary` is cut to as many people as the terminal
  takes, whoever drank first, and `Drinks`, the total of an overview, to the
  products that have room in it, those with the most drinks first.
* **Household.** Who is charged and who is shown what. The list of people, the
  positions that buttons carry, the queue of drinks, the slot with its three
  kinds of request, the overview's state and its redraw, and the baseline that
  every sync brings. A purchase that finds the script lock held is refused at some
  point (`ServeBusy`). Time is left out as in `Backend`: a request that waits for
  the radio in vain counts as one that fails once it is sent. `asked`, `floor`,
  `crossed` and `blank` are history variables.

Left out on purpose: wording, prices and names (a purchase is its id), timer
values, JSON, TLS, logging. An unconfigured device (`NoBackend` throughout) has
no behaviour worth checking. `start()` refusing a request that does not fit its
buffer is left out; the buffers are sized for the longest entry.

Names in capitals in the code keep their names here. Where the code compares
strings, the model compares ids; random ids are assumed distinct.

## 3. Runs

Each takes between a few seconds and three and a half minutes with two workers.

| Run | Bounds and events | Shows |
|---|---|---|
| `terminal_faults` | 2 drinks, queue of 3; power cuts, failing link, unreadable answers | `HeadIsInFlight`, `DurableBeforeSent`, `DrinkNeverLost`, `VoidHasItsPurchase`, refinement of the ledger |
| `terminal_hostile` | 1 drink, queue of 2; storage faults, a cut inside a write, busy lock, handlers that throw, no task, refusals, early undo, the demo switch | `OutcomeBelongsToSlot`, `WatchedResultIsFresh`, `NoPurchaseWithItsVoid`, `UndoHasRoom`, and `WaitEnds` |
| `terminal_undo` | 2 drinks, radio coming and going, power cuts, no lost answer | `UndoneIsReversed` |
| `terminal_drain` | 1 drink and catalog changes, queue of 2, power cuts, a network that recovers | `TypeOK`, `HeadIsInFlight`, `DrinkNeverLost` with a full queue and foreign entries; `QueueDrains`, `BookedGetsRecorded` |
| `radio` | a clock of 40 ticks, the times in the code's order | `WaitingGetsRadio`, `RadioOffWhenIdle`, `RetriesArePaced`, `WaitForRadioEnds` |
| `catalog` | 2 beers, a shelf of one, a queue of 2; 5 events of: edit here, edit elsewhere, lost answer, handler that dies, power cut; 1 late execution at a time | `OneRowPerBeer`, `RevisionTells`, `WishStaysShown`, `ShelfFits` |
| `storage` | 4 files, 2 builds, 2 revisions, 2 events of: power cut, failing call, failing mount, damaged file, firmware update | `RestartRestores`, `CleanSurvivesCut`, `FromBackendTells`, `SomebodyToCharge`, `SeedIsCurrent`, refinement of the queue's file, and `DirtyGetsSaved` |
| `household` | 2 people and one who left, 2 drinks, 1 edit, queue of 1, a summary of 2 people, an overview of 1 product; requests lost before and after their execution | `ResidentsFollowRevision`, `OverviewIsTheirs`, `OverviewIsDrawn`, `LoadingEnds`, `CatchesUp` |

The other four runs end in a violation; they are the subject of the next
subsection.

Why the bounds are enough to be interesting: two drinks give a queue whose head
is not the drink on the screen, a foreign entry in front of it and an undo of
the second while the first is sent; three places hold two purchases and a
reversal; a queue of two is full after two entries, which is where `Refused`
and `UndoHasRoom` live. A cut may happen in every state, any number of times.
The number of retries and of late requests is bounded by nothing but the ids.
(This is about the four `terminal_` runs.)
Symmetry is used only where safety alone is checked and no constant tells the
drinks apart. The proofs of section 5 remove the bounds for the properties they
cover.

The clock of `radio` has 40 ticks of about seven seconds; what matters is that
base < timeout < linger < deadline < cap < half a turn, as in the code, and that
it goes round. `catalog` has one beer with a barcode and one without, because
`replace_all()` treats them differently, and room for one of them, so every
restore competes with a restore elsewhere. It has one price: prices travel with
the changes but two of them are not told apart. The array is as long as the
number of beers, so two situations are not reached there: a list that shrinks
under an index, and the refusal of a sync that is too long. `MaxEvents` counts the
edits at the fridge, the edits elsewhere, the failures and the cuts together, in
any order; five are enough for an edit, its request given up, another edit of that
beer, its cut and the late execution, in each of which `WishStaysShown` rests on a
different part of itself.

In `storage` two events are a fault during a write and a cut before it is
repaired, or a firmware update of a file that a cut has left behind. The second
build has another seed, wider residents, a longer queue and one more kind of
entry, so that each comparison in the codec is the one that matters in some
behaviour; the second revision of the backend has nobody left in it. In
`household` the terminal starts with two people and the sheet with one of them,
so the first sync already changes the list; one edit more makes the list differ
again or brings somebody back, by hand or not. Two drinks are two overviews, of
one person or of both, the second opened while the first is still under way; they
are different beers, of which an overview has room for one, and the summary has
room for two of the three people that may have rows, the one who left being the
first; a queue of one is full after one drink, which is where the error screen and its
Retry come from. Voids, undo and reboots are not in `household`.

`DrinkNeverLost` and `HeadIsInFlight` are checked without the events under
which the code does break them (`Calm` in section 5); everything else is in.

Four properties say less than one might wish, because the code does:

* `WishStaysShown`: after a power cut between the flush of the queue in the tap and
  that of the list at the end of `loop()` the old state *is* on the screen. The
  property then says that it will not stay: the change is queued, or the terminal is
  behind the backend's revision, so a sync brings it. Where two changes of one
  beer cross, because the older was given up and executed late, the older one has
  the last word.
* `RevisionTells` and `ResidentsFollowRevision`: a row written by an execution that
  ended before `bumpRevision_()` is not delivered until the next bump.
* `DurableBeforeSent` is about storage that works: after a flush that failed the
  request is sent all the same (`app_state.cpp:144`).
* `OverviewIsTheirs` leaves out an overview opened in front of an earlier one
  (`crossed`), whose figures the code does show.

### What the code does that its documents say it does not

Four runs end in a violation; each is one disagreement between the code and its
own documents, and TLC's trace is the scenario.

* `undo_lost_answer` (`UndoneIsReversed`). The answer to a booking is lost; the
  booking is recorded *and* still queued. Undo finds it queued, drops it, and
  sends no reversal: "nothing was ever recorded" (`transaction_queue.h:56`) is
  not what being queued means.
* `undo_in_flight` (`DrinkNeverLost`). Undo is tapped in the moment that very
  purchase is being sent. The head is removed; the acknowledgement pops the next
  entry, which is another, booked drink.
* `torn_sync` (`DefaultsOnlyUntilSync`). The first sync's catalog is on flash,
  with the revision, and the power fails before its residents are. The restarted
  terminal offers the compiled-in people, and every sync is answered
  "unchanged" from then on.
* `stale_tap` (`ChargedIsShown`). "Wer trinkt?" is on the screen when a sync
  replaces the list of people. The buttons carry positions, so the tap charges
  whoever is at that position now.

Further disagreements have no run (`PROJECT.json`, findings):

* *Which entry, which person.* With an older entry queued the screen confirms the
  new drink with the older one's answer (`app_state.cpp:148`). Retry after an
  error reported for another entry queues a purchase twice, and Undo removes one
  copy (`app_state.cpp:368`). An index held by the manage screen means another
  beer after a sync (`app_state.cpp:326`). An overview opened while an earlier one
  is on its way shows the earlier person's figures (`backend.cpp:155`). An overview
  whose request fails is not redrawn when the one before it ended in a failure
  that was noted while an earlier request was still in the slot
  (`app_state.cpp:382`): three drinks, one more than the run has; the proof
  attempt met it.
* *Refusals.* A busy script lock is answered `ok: false`, which the terminal takes
  for a verdict, and the drink is dropped; `retry: true` of the catalog handlers
  is read by nobody; a person is looked up before the transaction id, so a
  replay is refused when the person has been deactivated (`Api.gs:183`).
* *Clocks.* After half a turn of `millis()` without a failed attempt the retry
  time reads as the future, and none is started for 24.8 days
  (`wifi_manager.cpp:81`); the sync "for fresh figures" does not start in the first
  ten minutes (`backend.cpp:347`); several screens never let the terminal sleep.
* *Limits.* More than 32 rows in Products end all syncs; `upsertProduct_()` and
  `replace_all()` can exceed the shelf; a twelfth active person, by
  reactivation, silently disappears from the terminal (`Admin.gs:113`); the total
  of an overview leaves out what is beyond its twelve products (`Data.gs:145`), and
  the summary whoever drank after eleven others, also if those have left
  (`Data.gs:107`).
* *Revisions.* A sheet edited by hand is not delivered until a product is edited,
  and the documents have residents maintained by hand (`Api.gs:64`).
* *Documents.* Who goes first, summary or queue (`backend.h:50`); that an
  overview includes the drink just booked, that a purchase is never both in the
  figures and queued, that the summary screen shows the purchase log
  (`summary-persistence.md`, `purchase_log.h`); that a cut in a write leaves the
  previous version (`device_storage.h:19`).

## 4. Fairness

`DeviceFairness` is what the device gives: the loop keeps being called (WF of
`LoopStep`), an armed timer on a waiting screen fires (SF, because each loop
iteration may also find it not due yet; `millis()` advances and nothing re-arms
it), deadlines and backoffs pass, the task returns, since every wait in
`perform()` is bounded by `request_timeout_ms`, and power comes back. Nothing is
assumed of network, backend, radio or user; `WaitEnds` holds under this alone.

`NetworkFairness` adds that an outage ends: a request that is tried again and
again is at some point posted, executed and answered. `QueueDrains` and
`BookedGetsRecorded` need it. They are stated for behaviours that settle down:
from some point no power cuts, and nobody sleeps and wakes the terminal for ever
(each wake may start a sync, which takes the slot).

`RadioSlot`'s `TimedSpec` assumes that the loop runs and that `millis()` counts
(SF, because an iteration may end within the tick it began in). The catalog run
checks safety only and assumes nothing.

`Persistence`'s `SavingSpec` assumes that `setup()` and `loop()` run and LittleFS
returns. `DirtyGetsSaved` is stated for behaviours in which the storage is
mounted, the power stays on and no call fails from some point on.

`Household`'s `FairSpec` assumes that the loop runs; that a request which may start
or be posted again and again is (SF: interval, backoff and radio make it wait,
and a wait for the radio that is in vain is counted as a failed request, since
the slot's deadline ends it); that a request which is sent is answered or fails
(every wait in `perform()` is bounded); and that `adminSaveResident()` gets to its
bump. It is about a terminal that is awake: asleep it does not sync. `LoadingEnds`
needs that nobody taps Retry for ever, since each tap takes the slot again and
the overview waits; `CatchesUp` in addition that the link works from some point.

## 5. Proofs

TLAPS proves the following for every value of the constants (transactions,
people, beers, capacities, bounds on edits and taps, events in `Env`, and
`Refusable`) except where an assumption is named; the assumptions of the modules
on their constants are used throughout.

| Theorem | Assumes | States |
|---|---|---|
| `TypeCorrect` (TerminalSafety) | - | `Spec => []TypeOK` (with the queue's and the file's capacity) |
| `SlotCorrect` (TerminalSafety) | - | `Spec => []OutcomeBelongsToSlot` |
| `WatchedResultsAreFresh` (TerminalSafety) | - | `Spec => []WatchedResultIsFresh` |
| `UndoAlwaysFits` (TerminalSafety) | - | `Spec => []UndoHasRoom` |
| `HeadCorrect` (TerminalDrinks) | no early undo | `Spec => []HeadIsInFlight` |
| `DurableCorrect` (TerminalDrinks) | no early undo, storage works | `Spec => []DurableBeforeSent` |
| `DrinksAreNeverLost` (TerminalDrinks) | `Calm` | `Spec => []DrinkNeverLost` |
| `VoidsFindTheirPurchase` (TerminalDrinks) | `Calm` | `Spec => []VoidHasItsPurchase` |
| `UndoIsExact` (TerminalUndo) | `Quiet` | `Spec => []UndoneIsReversed` |
| `LedgerImplemented` (TerminalLedger) | - | `Spec => Ledger!Spec`: recorded at most once, only if submitted; voided only if asked |
| `PurchaseNeverMeetsItsVoid` (TerminalLedger) | - | `Spec => []NoPurchaseWithItsVoid` |
| `StorageTypes`, `CleanIsDurable`, `SourceIsTold`, `SomebodyIsThere`, `SeedFollowsBuild` (PersistenceProofs) | - | `Spec => []` of `TypeOK`, `CleanSurvivesCut`, `FromBackendTells`, `SomebodyToCharge`, `SeedIsCurrent` |
| `RestartIsWhole` (PersistenceProofs) | - | `Spec => RestartRestores` (an action property) |
| `QueueFileImplemented` (PersistenceProofs) | - | `Spec => ImplementsQueueFile`: the refinement of the one-step file |
| `HouseholdTypes`, `PeopleFollowRevision`, `OverviewCorrect`, `RedrawCorrect` (HouseholdProofs) | - | `Spec => []` of `TypeOK`, `ResidentsFollowRevision`, `OverviewIsTheirs`, `OverviewIsDrawn` |
| `RadioTypes`, `WaitingIsServed`, `IdleIsOff` (RadioSlotProofs) | - | `Spec => []` of `TypeOK`, `WaitingGetsRadio`, `RadioOffWhenIdle` |
| `RetriesArePacedAlways` (RadioSlotProofs) | - | `Spec => RetriesArePaced` (an action property) |
| `CatalogTypeCorrect`, `RevisionCorrect`, `ShelfCorrect`, `WishCorrect` (CatalogProofs) | - | `Spec => []` of `TypeOK`, `RevisionTells`, `ShelfFits`, `WishStaysShown` |
| `OneRowCorrect` (CatalogProofs) | no double row at first | `Spec => []OneRowPerBeer` |

`Calm` is: no early undo, storage works, the script lock is never busy for 20 s,
no handler throws and nothing is refusable; lost, late and unreadable answers, power cuts, catalog
edits and a missing network task remain. `Quiet` is `Calm` in which moreover every
answer is read and nobody edits the catalog or asks for a failure. What falls
outside is where the code does break the property: with catalog edits or the
demo's failure switch, for one, Retry after an error that was not the purchase's own
queues it twice and Undo removes one copy; TLC finds `UndoneIsReversed` violated
when either event is added to the run.

The constants are assumed to be what the code makes them: capacities of at least
one, ids that differ from the mark for none; a seed of coded beers that fits the
array and the grid, a sheet of rows; default residents that fit their array and
are not empty, served lists likewise in type; a record that damage has touched
is no longer a record (`DamageShows`); and of the radio's times only that each is
positive and below half a turn, and that the longest backoff does not overflow
(`TimesAssumption`, `ShiftsFit`). TLC evaluates these in the runs.

The invariants behind them:

* `TypeInv` adds to `TypeOK` that screens about a transaction have one; without
  it a retry could push the entry of no transaction. `TerminalSafety` begins with
  lemmas on what `pop`, `remove_purchase` and `push` do to a sequence.
* `SlotInv` is the property itself, inductive once the effect of each layer on
  the slot is known (`TakesSlot`, `UiEffect`, `AppUpdateEffect`).
* `WatchedResultIsFresh` is inductive by itself beside these two: the result of a
  screen that waits is pending while that request is in the slot, and an outcome
  for the rest of the one iteration in which it arrives, so no earlier attempt can
  have left it.
* `RoomInv`: on a screen from which an undo may follow, the queue has a place,
  or still holds the purchase, which an undo would remove; an acknowledgement, or
  the refusal of a reversal, leaves a place.
* `HeadInv` adds that the slot's operation matches the kind of the head. Undo
  is the only operation that touches the middle of the queue; it cannot remove
  the head under way, because then the slot would be sending that very purchase.
* `DurableInv` adds that the file equals the queue except between a pop and the
  flush that ends the iteration (`FileFollows`), and that a request is posted
  only at the start of an iteration, when they are equal.
* `DrinkInv` has four parts: a submission about to be reported as booked is on
  flash (`BookedIsStored`), what is on flash is still in memory or already in
  the sheet (`FileIsHeld`), an answer that reads as an acknowledgement means the
  row is there (`AckTells`), and the property. The pop is safe by `HeadInv` and
  `AckTells` together.
* `LedgerInv` traces every request, in memory, on flash, in the slot, on the
  wire or late, to something the user did (`Known`), and keeps rows at most one.
* `VoidInv` follows a drink from the submission to its reversal (`ShownIsHeld`): it
  is in the queue in memory or in the sheet, and once the reversal has been handed
  over it is in the sheet, since Undo of a queued drink removes it instead.
* `PairInv` says of a screen that would push a purchase that nobody has taken it
  back (`tx \notin undoAsked`), and of one that would push a reversal that the
  purchase is gone. `LedgerInv` lends it the tracing of requests.
* `UndoneInv` strengthens the disjunction of the property to what a restart can
  bring back: a drink taken back is nowhere, in memory, on flash, on the wire and
  late (`Nowhere`), or marked, or its reversal is on flash (`TakenInv`). This needs
  that a purchase which is queued and recorded is the one being sent (`SentInv`),
  which is what a lost answer breaks.
* `StorageInv` relates memory, file and disk. `DiskInv` says what is in a file's
  place at each step of a write; `Sound` when a list in memory would be taken back
  whole by a restart of this build; `LoadedInv` that a store which is not dirty is
  just what such a restart would restore; `WriteInv` that the write under way
  carries what memory holds, which is why no other write may change that store.
  `QueueStep` maps each step to one of `TransactionQueue` or to a stutter; the
  rename is the `Flush`.
* `RadioInv` says that each 32-bit difference tests what the code takes it to test:
  `LingerFollows` and `RetryFollows` give the difference as a function of the true
  age while that is below half a turn, `WaitFollows` bounds the age of what waits
  by its deadline, `UpHasNotFailed` ties the counter to the association.
* `Distinct` says that two rows never have the same beer: a row is appended only
  when `findProductRow_()` has found none, and an update keeps the beer. Queue,
  retries and the fridge do not matter to it.
* `CopiesInv` follows the copies of the catalog. A copy that holds the backend's
  revision agrees with the sheet (`Agrees`) but for the beers whose change is still
  queued or was lost: `MemoryInv` says so of the list, `FlashInv` of the file, with
  the queue *on file* and what was astray when it was written, since that is the
  pair a cut brings back, and `ArrivedInv` of a list on its way. `FileInv` says that
  what the file's queue has and memory's has not, the backend has executed or the
  terminal dropped; `WrittenInv` that an executed change has outdated the list,
  so that the pop in the next step does not make a false claim. All this is said of
  a sheet that is `Settled`: no handler is between its row and its bump, and none
  has died there since the last one. `Listed` is the
  half that needs no revision: `replace_all()` keeps a local beer without a barcode
  until the sheet has it, and two such lists added up must still fit the shelf.
* `WishInv` adds the household's last word: the queue, in memory and on file, does
  not contradict it (`Speaks`), a wish with no entry left to send is what the
  sheet shows (`Kept`), and a list that arrives with an empty queue shows it. An
  entry that the backend has written but not answered counts as sent
  (`FirstUnwritten`); without that, retry of a written entry is not inductive.
* `ScreenInv` is what the property needs of the two lists. On the screen
  (`OnScreen`, the property itself) and on flash (`OnFlash`) a beer is as wished, or
  a cut has set it back, or will, and then its change is still queued there or has
  outdated that list; what is on file and no longer queued has outdated the list in
  memory or was refused (`Dropped`), so a flush of the queue loses nothing. `WishInv`
  is needed for the one step that could go wrong, the sync that is applied.
* `RevisionInv` follows a revision around. Nobody holds, asks about or has read a
  revision beyond the backend's (`RevisionsGrow`, `AskedSince`, `RevisionRead`), and
  an answer whose revision is still the current one carries the list as it is now,
  or says "unchanged" to a terminal that has it (`AnswerFollows`). Every change of
  the list after the revision was read leaves a handler that has yet to bump, or a
  newer revision: this is where writing the row before the bump and reading the
  revision before the rows both enter.
* `OverviewInv` follows an overview that was opened uncrossed: what waits, what is
  in the slot, what is answered and what is drawn are all about the person it was
  opened for (`WaitsForAsked` to `FiguresForAsked`), and rows are only appended, so
  figures read later are at least those of the opening (`FloorHolds`). The attempt
  to prove it with "no overview was loading" as the condition failed, rightly: an
  earlier request can still hold the slot after its overview was given up; the
  history variable `crossed` therefore looks at the slot as well.
* `RedrawInv` follows the static in `update()`: a request in the slot is noted as
  loading before it can end (`LateIsLoading`, `LoadingIsSeen`), so that its end is a
  difference and is drawn. It fails for an overview of nobody opened in front of a
  late one, which is the failure that is never drawn (section 3); `blank` marks it.
* `FitInv` holds the types: lists and queue stay within their arrays, the list that
  arrives included (`ListsFit`), a submission that is watched is a drink in the
  slot, and no transaction gets two rows.

So every invariant and every action property of the passing runs is proved, some
under the assumptions named above, and the two refinements. Only model-checked are
the liveness properties `WaitEnds`, `QueueDrains`, `BookedGetsRecorded`,
`WaitForRadioEnds`, `DirtyGetsSaved`, `LoadingEnds` and `CatchesUp`: fairness is
ENABLED underneath, which is out of the prover's reach. The properties of the
four runs that end in a violation are false, and so not proved.

## 6. Not modelled

* *Generated and configured:* the four fonts (18 000 of the 24 000 lines),
  `lv_conf.h`, `settings.h`. Constants that matter are CONSTANTS of the modules. The
  share of the lines that the map covers stays small for this reason: most of
  them are bitmaps.
* *Presentation:* widgets, the keyboard, the grid layout, which is a pure function
  with host tests of its own.
* *JSON and text:* building requests, parsing fields, cleaning input
  (`Validate.gs`, `api_protocol.cpp`). What a refused or unreadable answer does is
  modelled; why it is refused is a choice.
* *Dead code:* the view of `purchase_log` and `purchase_log::count`, `at` and the
  totals; `wifi_manager::request_offline()`; the states LookingUp and ProductFound.
  `adminSaveResident()` is modelled although no page calls it yet.
* *Time as a number* outside `RadioSlot`: the ten-minute interval, dwell times and
  the sleep timer are things that may happen.
* *Host tests, build tools, documents:* read as statements of intent.

## 7. Plan

1. *Done:* the purchase path end to end, its abstract ledger, its proofs.
2. *Done:* the radio against the slot and a clock that wraps around.
3. *Done:* the catalog between fridge and sheet. *Left:* a run in which the list
   shrinks under an index, a price edited on both sides.
4. *Done:* storage and what a restart brings back, as a refinement of the
   queue's file; the household: residents, who is charged, and the overview.
   *Left:* void of a row that is not in the month.
5. `SyncSchedule`: `g_last_sync`, sleep and the ten-minute interval on the
   wrapping clock, with the sleep timer.
6. *Done:* proofs of every safety property of the passing runs. *Left:* assumptions
   weaker than `Calm` and `Quiet`, stated by history (no refusal *of this* drink,
   no early undo *so far*); abstract specifications of the catalog (one
   shelf that the household and the management page write) and of the household.
