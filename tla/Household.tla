----------------------------- MODULE Household -----------------------------
(***************************************************************************)
(* The people: who is charged for a drink, and what a person is told he    *)
(* owes.  The terminal's list of residents (resident_directory.cpp)        *)
(* follows the sheet by syncs; the screens hold a position in that list;   *)
(* the overview (mySummary) shares the one request slot with drinks and    *)
(* syncs; and the summary that every sync brings is kept as a baseline     *)
(* (purchase_log.cpp).                                                     *)
(*                                                                         *)
(* loop() runs backend::update(), app_state::update() and the touch        *)
(* handlers; the backend, the page and the network run in between.  Undo   *)
(* and the admin screen are in Terminal, reboots in Persistence, catalog   *)
(* edits in CatalogSync.                                                   *)
(*                                                                         *)
(* asked, floor, crossed and blank are history variables: whose overview   *)
(* was opened, what the sheet said of him then, whether an earlier one was *)
(* still on its way, and whether any was ever opened for a person who had  *)
(* just left the list while an earlier one was on its way.                 *)
(***************************************************************************)
EXTENDS ResidentsSheet

CONSTANTS
    Defaults,       \* the list the terminal starts with
    InitialRows,    \* the Residents sheet at the start
    OldRows,        \* the Purchases sheet at the start
    MaxTaps,        \* bound on the drinks tapped in a behaviour
    MaxQueued,      \* settings::max_queued_transactions
    Env             \* what the surroundings may do

\* link_fails: a request fails before or after the backend executes it
ASSUME EventsAssumption == Env \subseteq {"link_fails"}

\* resident_directory's seed() stops at the end of its array.
ASSUME InitialAssumption ==
    /\ Defaults \in Seq(Person) /\ Len(Defaults) <= MaxResidents
    /\ InitialRows \in Seq([who : Person, active : BOOLEAN])
    /\ OldRows \in Seq([tx : Nat, who : Person \cup Former, beer : Beer])
    /\ \A i, j \in DOMAIN OldRows : OldRows[i].tx = OldRows[j].tx => i = j
    /\ MaxTaps \in Nat /\ 1 .. MaxTaps \subseteq DOMAIN BeerOf
    /\ \A i \in DOMAIN OldRows : OldRows[i].tx \notin DOMAIN BeerOf
    /\ MaxQueued \in Nat \ {0}

VARIABLES
    phase,          \* the call of loop() that comes next: "backend", "app" or "ui"
    residents,      \* g_entries of the directory
    seen,           \* product_catalog::revision()
    baseline,       \* g_baseline, by person
    queue,          \* drinks that are not acknowledged: transaction and person
    slot,           \* g_op, how far its request is, what it asks, the answer
    my,             \* g_my_state; whom a request that waits asks about, and the
                    \* figures of an answer that is there
    screen,
    index,          \* g_ctx.resident_index, 0 for none
    shown,          \* the names on the buttons of "Wer trinkt?"
    submission,     \* what the submitting screen waits for, or how it ends
    last,           \* the static of app_state::update()
    drawn,          \* what the overview shows
    taps,           \* the drinks tapped so far; the last is that of the context
    asked, floor, crossed, blank

screenVars == <<screen, index, shown, last, drawn, taps>>
uiVars == <<screenVars, submission>>
historyVars == <<asked, floor, crossed, blank>>
deviceVars == <<residents, seen, baseline, queue>>
vars == <<phase, householdVars, deviceVars, slot, my, uiVars, historyVars>>

NoRequest == [ask |-> "nothing"]
Free == [op |-> "None", net |-> "idle", request |-> NoRequest, answer |-> NoRequest]
NoFigures(state, p) == [state |-> state, asks |-> p, who |-> NoOne, drinks |-> 0]
NothingDrawn == [state |-> "Idle", who |-> NoOne, drinks |-> 0]

Init ==
    /\ listed = InitialRows /\ revision = 1 /\ saving = FALSE /\ unbumped = FALSE
    /\ edits = 0 /\ rows = OldRows
    /\ phase = "backend"
    /\ residents = Defaults /\ seen = 0 /\ queue = <<>>
    /\ baseline = [p \in Person \cup Former |-> 0]
    /\ slot = Free
    /\ my = NoFigures("Idle", NoOne)
    /\ screen = "SelectingProduct" /\ index = 0 /\ shown = <<>>
    /\ submission = "none"
    /\ last = "Idle" /\ drawn = NothingDrawn /\ taps = 0
    /\ asked = NoOne /\ floor = 0 /\ crossed = FALSE /\ blank = FALSE

\* resident_directory::at(): the position is read in the list as it is now.
At(i) == IF i \in DOMAIN residents THEN residents[i] ELSE NoOne

Turn(from, to) == phase = from /\ phase' = to

----------------------------------------------------------------------------
(* The slot *)

\* start()
Start(op, request) ==
    slot' = [op |-> op, net |-> "waiting", request |-> request, answer |-> NoRequest]

\* finish(): a result that nobody watches is not kept here.
Finish(r) ==
    /\ slot' = Free
    /\ submission' = IF submission = "watched" THEN r ELSE submission

\* The request in the slot gets as far as n, with answer a.
GetsTo(n, a) == slot' = [op |-> slot.op, net |-> n, request |-> slot.request, answer |-> a]

\* send_queued_now() for queue q, which is not empty
SendQueuedNow(q) == Start("Purchase", q[1])

AskMySummary(p) == Start("MySummary", [who |-> p])

\* update() with a free slot: a waiting overview first, then the queue, then
\* a sync.  The queue waits for its backoff and the sync for its interval.
OverviewWaits == my.state = "Loading" /\ my.asks # NoOne

StartWaitingSummary ==
    /\ slot.op = "None" /\ OverviewWaits
    /\ AskMySummary(my.asks)

StartPurchase ==
    /\ slot.op = "None" /\ ~OverviewWaits /\ queue # <<>>
    /\ SendQueuedNow(queue)

StartSync ==
    /\ slot.op = "None" /\ ~OverviewWaits /\ queue = <<>>
    /\ Start("Sync", [since |-> seen])

NotYet == slot.op = "None" /\ ~OverviewWaits /\ UNCHANGED slot

UpdateIdle ==
    /\ Turn("backend", "app")
    /\ StartWaitingSummary \/ StartPurchase \/ StartSync \/ NotYet
    /\ UNCHANGED <<deviceVars, my, uiVars, historyVars, householdVars>>

UpdateWaits ==
    /\ Turn("backend", "app")
    /\ slot.net \in {"waiting", "sent", "reading"}
    /\ UNCHANGED <<slot, deviceVars, my, uiVars, historyVars, householdVars>>

Post ==
    /\ Turn("backend", "app")
    /\ slot.net = "waiting"
    /\ GetsTo("sent", NoRequest)
    /\ UNCHANGED <<deviceVars, my, uiVars, historyVars, householdVars>>

\* Mutant: an overview that got no answer goes on waiting for one.
FailedForgetful ==
    /\ Finish("Unreachable")
    /\ UNCHANGED my

Failed ==
    /\ Finish("Unreachable")
    /\ my' = IF slot.op = "MySummary" THEN NoFigures("Unavailable", NoOne) ELSE my

\* The slot's deadline and a failed request end alike: a wait for the radio
\* that is in vain counts as a request that fails once it is sent.
UpdateFailed ==
    /\ Turn("backend", "app")
    /\ slot.net = "failed"
    /\ Failed
    /\ UNCHANGED <<deviceVars, screenVars, historyVars, householdVars>>

Answered(op) == Turn("backend", "app") /\ slot.op = op /\ slot.net = "answered"

\* The answer is taken for whoever is asked about now.
MySummaryArrives ==
    /\ Answered("MySummary")
    /\ my' = [state |-> "Ready", asks |-> NoOne, who |-> slot.answer.who,
              drinks |-> slot.answer.drinks]
    /\ Finish("Idle")
    /\ UNCHANGED <<deviceVars, screenVars, historyVars, householdVars>>

\* Mutant: the summary is taken with the lists only.
ApplySyncIfChanged(a) ==
    /\ baseline' = IF a.revision # seen THEN a.summary ELSE baseline
    /\ residents' = IF a.revision # seen /\ a.people # <<>> THEN a.people ELSE residents
    /\ seen' = a.revision

\* apply_sync(): the summary in any case; the list of residents only with a
\* new revision, and only if there is anybody in it.
ApplySync(a) ==
    /\ baseline' = a.summary
    /\ residents' = IF a.revision # seen /\ a.people # <<>> THEN a.people ELSE residents
    /\ seen' = a.revision

SyncArrives ==
    /\ Answered("Sync")
    /\ ApplySync(slot.answer)
    /\ Finish("Idle")
    /\ UNCHANGED <<queue, my, screenVars, historyVars, householdVars>>

\* pop() on a verdict; after a drink went through it is time for a sync.
PurchaseArrives ==
    /\ Answered("Purchase")
    /\ queue' = IF queue = <<>> THEN queue ELSE Tail(queue)
    /\ Finish(IF slot.answer.verdict = "ok" THEN "Success" ELSE "Rejected")
    /\ UNCHANGED <<residents, seen, baseline, my, screenVars, historyVars, householdVars>>

----------------------------------------------------------------------------
(* The network and the backend *)

Reply(from, answer) ==
    /\ slot.net = from
    /\ GetsTo("answered", answer)

Remote ==
    UNCHANGED <<phase, deviceVars, my, uiVars, historyVars>>

\* handleSync_() reads the revision first and the lists after it.
ServeRevision ==
    /\ slot.op = "Sync" /\ slot.net = "sent"
    /\ GetsTo("reading", [revision |-> revision])
    /\ Remote /\ UNCHANGED householdVars

ServeLists ==
    /\ slot.op = "Sync"
    /\ Reply("reading",
             [revision |-> slot.answer.revision, summary |-> ConsumptionSummary,
              people |->
                IF slot.request.since = slot.answer.revision THEN <<>> ELSE Served])
    /\ Remote /\ UNCHANGED householdVars

\* handleRecordPurchase_() looks the person up and then waits for the script
\* lock, which adminSaveResident() holds, and gives up after a while.
ServePerson ==
    /\ slot.op = "Purchase" /\ slot.net = "sent"
    /\ GetsTo("reading", [known |-> IsActive(slot.request.who)])
    /\ Remote /\ UNCHANGED householdVars

ServePurchase ==
    /\ slot.op = "Purchase" /\ slot.net = "reading"
    /\ slot.answer.known => ~saving
    /\ LET done == RecordPurchase(slot.request.tx, slot.request.who, slot.answer.known)
       IN  /\ Reply("reading", [verdict |-> done.verdict])
           /\ rows' = done.rows
    /\ Remote /\ UNCHANGED <<listed, revision, saving, unbumped, edits>>

ServeBusy ==
    /\ slot.op = "Purchase" /\ slot.net = "reading"
    /\ slot.answer.known /\ saving
    /\ Reply("reading", [verdict |-> "refused"])
    /\ Remote /\ UNCHANGED householdVars

\* handleMySummary_()
ServeMySummary ==
    /\ slot.op = "MySummary"
    /\ Reply("sent", [who |-> slot.request.who, drinks |-> Drinks(slot.request.who)])
    /\ Remote /\ UNCHANGED householdVars

\* A lost answer to a question is the same as a question that is lost.
LinkFails ==
    /\ "link_fails" \in Env
    /\ slot.net = "sent" \/ (slot.op = "Purchase" /\ slot.net = "answered")
    /\ GetsTo("failed", NoRequest)
    /\ Remote /\ UNCHANGED householdVars

EditResidents ==
    /\ SaveResident \/ BumpRevision \/ SaveDies \/ ProductSaved \/ EditByHand
    /\ UNCHANGED <<phase, deviceVars, slot, my, uiVars, historyVars>>

----------------------------------------------------------------------------
(* The screens: app_state::update() *)

\* build_summary(): figures with the name that came with them, or else what
\* is queued for the person at the position.
Queued(p) == Cardinality({i \in DOMAIN queue : queue[i].who = p})

Picture(m, i) ==
    CASE m.state = "Ready" -> [state |-> "Ready", who |-> m.who, drinks |-> m.drinks]
      [] m.state = "Loading" -> [state |-> "Loading", who |-> At(i), drinks |-> 0]
      [] OTHER -> [state |-> "Unavailable", who |-> At(i), drinks |-> Queued(At(i))]

\* Mutant: only the states that are drawn are remembered.
RedrawForgetful ==
    IF screen = "Summary" /\ my.state # last /\ my.state # "Loading"
    THEN last' = my.state /\ drawn' = Picture(my, index)
    ELSE UNCHANGED <<last, drawn>>

\* The overview is drawn again when what is known of it has changed.
Redraw ==
    IF screen = "Summary" /\ my.state # last
    THEN /\ last' = my.state
         /\ drawn' = IF my.state = "Loading" THEN drawn ELSE Picture(my, index)
    ELSE UNCHANGED <<last, drawn>>

AppUpdate ==
    /\ Turn("app", "ui")
    /\ screen = "Submitting" => submission = "watched"
    /\ Redraw
    /\ UNCHANGED <<screen, index, shown, submission, taps, slot, deviceVars, my,
                   historyVars, householdVars>>

SubmissionEnds ==
    /\ Turn("app", "ui")
    /\ screen = "Submitting" /\ submission # "watched"
    /\ screen' = IF submission \in {"stored", "Success", "Unreachable"}
                   THEN "Success" ELSE "Error"
    /\ submission' = "none"
    /\ UNCHANGED <<slot, index, shown, last, drawn, taps, deviceVars, my, historyVars,
                   householdVars>>

----------------------------------------------------------------------------
(* Touches *)

Touch ==
    /\ Turn("ui", "backend")
    /\ UNCHANGED <<householdVars, residents, seen, baseline, last>>

NoTouch ==
    /\ Touch
    /\ UNCHANGED <<queue, slot, my, screen, index, shown, submission, drawn, taps,
                   historyVars>>

\* enter(Submitting): enqueue_purchase() of the context's transaction for the
\* person who is at the position now.
EnqueuePurchase(t, i) ==
    /\ screen' = "Submitting"
    /\ IF Len(queue) >= MaxQueued
         THEN submission' = "refused" /\ UNCHANGED <<queue, slot>>
         ELSE /\ queue' = Append(queue, [tx |-> t, who |-> At(i)])
              /\ IF slot.op = "None"
                   THEN submission' = "watched" /\ SendQueuedNow(queue')
                   ELSE submission' = "stored" /\ UNCHANGED slot

ProductSelected ==
    /\ Touch
    /\ screen = "SelectingProduct"
    /\ screen' = "SelectingUser"
    /\ shown' = residents
    /\ UNCHANGED <<queue, slot, my, index, submission, drawn, taps, historyVars>>

\* A button carries its position.
ResidentSelected ==
    /\ Touch
    /\ screen = "SelectingUser"
    /\ taps < MaxTaps /\ taps' = taps + 1
    /\ \E i \in DOMAIN shown :
          /\ index' = i
          /\ EnqueuePurchase(taps', i)
    /\ shown' = <<>>
    /\ UNCHANGED <<my, drawn, historyVars>>

Retry ==
    /\ Touch
    /\ screen = "Error"
    /\ EnqueuePurchase(taps, index)
    /\ UNCHANGED <<my, index, shown, drawn, taps, historyVars>>

\* Mutant: figures that are there already are good enough.
RequestMySummaryOnce(p) ==
    IF my.state = "Ready" THEN UNCHANGED <<my, slot>>
    ELSE /\ my' = NoFigures("Loading", p)
         /\ IF slot.op = "None" THEN AskMySummary(p) ELSE UNCHANGED slot

RequestMySummary(p) ==
    IF p = NoOne THEN my' = NoFigures("Unavailable", NoOne) /\ UNCHANGED slot
    ELSE /\ my' = NoFigures("Loading", p)
         /\ IF slot.op = "None" THEN AskMySummary(p) ELSE UNCHANGED slot

\* enter(Summary)
ShowSummary ==
    /\ Touch
    /\ screen = "Success"
    /\ screen' = "Summary"
    /\ RequestMySummary(At(index))
    /\ drawn' = Picture(my', index)
    /\ asked' = At(index) /\ floor' = Drinks(At(index))
    /\ crossed' = (my.state = "Loading" \/ slot.op = "MySummary")
    /\ blank' = (blank \/ (asked' = NoOne /\ slot.op = "MySummary"))
    /\ UNCHANGED <<queue, index, shown, submission, taps>>

Leave ==
    /\ Touch
    /\ screen \in {"SelectingUser", "Success", "Summary", "Error"}
    /\ screen' = "SelectingProduct"
    /\ index' = 0 /\ shown' = <<>> /\ drawn' = NothingDrawn
    /\ asked' = NoOne /\ floor' = 0 /\ crossed' = FALSE
    /\ UNCHANGED <<blank, queue, slot, my, submission, taps>>

----------------------------------------------------------------------------
BackendUpdate ==
    \/ UpdateIdle \/ UpdateWaits \/ Post \/ UpdateFailed
    \/ MySummaryArrives \/ SyncArrives \/ PurchaseArrives

LoopStep ==
    \/ BackendUpdate
    \/ AppUpdate \/ SubmissionEnds
    \/ NoTouch \/ ProductSelected \/ ResidentSelected \/ Retry \/ ShowSummary \/ Leave

Serve ==
    \/ ServeRevision \/ ServeLists
    \/ ServePerson \/ ServePurchase \/ ServeBusy
    \/ ServeMySummary

Next ==
    \/ LoopStep
    \/ Serve \/ LinkFails
    \/ EditResidents

Spec == Init /\ [][Next]_vars

SomethingStarts == UpdateIdle /\ slot'.op # "None"

\* The loop turns; the timers run out, and a request that waits for the radio
\* gets it or is counted as failed; the backend answers or the request times
\* out.  The terminal stays awake: asleep it does not sync.
FairSpec ==
    /\ Spec
    /\ WF_vars(LoopStep)
    /\ SF_vars(SomethingStarts \/ Post)
    /\ WF_vars(Serve \/ LinkFails) /\ WF_vars(saving /\ EditResidents)

----------------------------------------------------------------------------
(* Properties *)

\* Every variable has its type, the lists fit their arrays, and no transaction
\* has two rows in the sheet.
TypeOK ==
    /\ phase \in {"backend", "app", "ui"}
    /\ Len(residents) <= MaxResidents /\ Len(queue) <= MaxQueued
    /\ slot.op \in {"None", "Sync", "Purchase", "MySummary"}
    /\ slot.net \in {"idle", "waiting", "sent", "reading", "answered", "failed"}
    /\ slot.op = "None" <=> slot.net = "idle"
    /\ submission \in {"none", "watched", "stored", "refused",
                       "Success", "Unreachable", "Rejected"}
    /\ my.state \in {"Idle", "Loading", "Ready", "Unavailable"}
    /\ screen \in {"SelectingProduct", "SelectingUser", "Submitting",
                   "Success", "Error", "Summary"}
    /\ \A i, j \in DOMAIN rows : rows[i].tx = rows[j].tx => i = j

\* When the terminal's revision is the backend's, so is its list of people,
\* unless somebody has edited the sheet by hand, or died before the bump, since:
\* the sheet is written before the revision and read after it (Admin.gs:113-122,
\* Api.gs:56-94).
ResidentsFollowRevision ==
    seen = revision /\ ~saving /\ ~unbumped /\ Served # <<>> => residents = Served

\* Unless an earlier overview was still on its way, an overview with figures
\* is that of the person it was opened for, and at least as new as its opening
\* (summary-persistence.md: "fetched on demand").
OverviewIsTheirs ==
    screen = "Summary" /\ drawn.state = "Ready" /\ ~crossed =>
        drawn.who = asked /\ drawn.drinks >= floor

\* When a touch is handled, the overview shows the state that its request is
\* in: no answer comes without its redraw, also while another one is late.  (An
\* overview of somebody who is no longer listed, opened in front of a late one,
\* leaves a failure in last; the failure of the late one is then not drawn.)
OverviewIsDrawn ==
    screen = "Summary" /\ phase = "ui" /\ ~blank => drawn.state = my.state

RetriesEnd == <>[][~Retry]_vars

\* The spinner of the overview ends, with figures or without, unless somebody
\* taps Retry for ever.
LoadingEnds == RetriesEnd => (my.state = "Loading" ~> my.state # "Loading")

\* Once the link works again and nobody keeps tapping Retry, the terminal's
\* figures are those of the sheet, of the people who fit the summary, whatever
\* was lost on the way: who drank first counts, also those who have left, and
\* everybody else stays at 0.  So are its people, unless they were edited
\* without a bump.
CatchesUp ==
    RetriesEnd /\ <>[][~LinkFails]_vars
        => <>[](/\ baseline = ConsumptionSummary
                /\ Served # <<>> /\ ~unbumped => residents = Served)

\* README.md: "Tap the beer, tap your name, done": the person who is charged
\* is the one whose name was tapped.
ChargedIsShown ==
    [][\A i \in DOMAIN shown :
            ResidentSelected /\ index' = i /\ queue' # queue
                => queue'[Len(queue')].who = shown[i]]_vars

=============================================================================
