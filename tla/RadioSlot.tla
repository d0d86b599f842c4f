----------------------------- MODULE RadioSlot -----------------------------
(***************************************************************************)
(* The request slot of backend.cpp against the radio and the clock.  The   *)
(* module Backend keeps what the slot holds and lets the radio come and go *)
(* and deadlines pass at will; here only whether the slot is taken is      *)
(* kept, and radio and time are those of the code.  Each iteration of      *)
(* loop() runs wifi_manager::update() and then backend::update().          *)
(***************************************************************************)
EXTENDS WifiManager

CONSTANT SlotWait       \* the slot's deadline: association, request and 5 s

ASSUME SlotWaitAssumption == SlotWait \in Nat \ {0} /\ SlotWait < Half

VARIABLES
    phase,          \* what the loop does next
    slot,           \* nothing, a request that waits for the radio, a posted one
    pastDeadline    \* now - g_deadline; 0 unless waiting, where it is read

vars == <<phase, slot, pastDeadline, wifiVars>>

TypeOK ==
    /\ WifiTypeOK
    /\ phase \in {"wifi", "slot", "clock"}
    /\ slot \in {"free", "waiting", "posted"}
    /\ pastDeadline \in Difference

Init ==
    /\ WifiInit
    /\ phase = "wifi"
    /\ slot = "free"
    /\ pastDeadline = 0

----------------------------------------------------------------------------
Turn(from, to) == phase = from /\ phase' = to

RadioTurn == Turn("wifi", "slot") /\ WifiUpdate /\ UNCHANGED <<slot, pastDeadline>>

\* Mutant: takes the slot and leaves it to others to ask for the radio.
StartSilently ==
    /\ Turn("slot", "clock")
    /\ slot = "free"
    /\ slot' = "waiting"
    /\ pastDeadline' = Ahead(SlotWait)
    /\ UNCHANGED wifiVars

\* start(): a sync, a summary or a queued entry; each asks for the radio.
StartRequest ==
    /\ Turn("slot", "clock")
    /\ slot = "free"
    /\ slot' = "waiting"
    /\ pastDeadline' = Ahead(SlotWait)
    /\ RequestOnline

PostRequest ==
    /\ Turn("slot", "clock")
    /\ slot = "waiting"
    /\ wifi = "Connected"
    /\ slot' = "posted"
    /\ pastDeadline' = 0
    /\ UNCHANGED wifiVars

\* Mutant: gives up only when the radio has been switched off.
GiveUpWhenOff ==
    /\ Turn("slot", "clock")
    /\ slot = "waiting"
    /\ wifi = "Off"
    /\ Due(pastDeadline)
    /\ slot' = "free"
    /\ pastDeadline' = 0
    /\ UNCHANGED wifiVars

GiveUpOnRadio ==
    /\ Turn("slot", "clock")
    /\ slot = "waiting"
    /\ wifi # "Connected"
    /\ Due(pastDeadline)
    /\ slot' = "free"
    /\ pastDeadline' = 0
    /\ UNCHANGED wifiVars

\* The network task is done, one way or the other.
OutcomeArrives ==
    /\ Turn("slot", "clock")
    /\ slot = "posted"
    /\ slot' = "free"
    /\ UNCHANGED <<pastDeadline, wifiVars>>

SlotIdle ==
    /\ Turn("slot", "clock")
    /\ \/ slot \in {"free", "posted"}
       \/ slot = "waiting" /\ wifi # "Connected" /\ ~Due(pastDeadline)
    /\ UNCHANGED <<slot, pastDeadline, wifiVars>>

SlotTurn == StartRequest \/ PostRequest \/ GiveUpOnRadio \/ OutcomeArrives \/ SlotIdle

\* An iteration is much shorter than a tick.
SameTick == Turn("clock", "wifi") /\ UNCHANGED <<slot, pastDeadline, wifiVars>>

NextTick ==
    /\ Turn("clock", "wifi")
    /\ WifiTick
    /\ pastDeadline' = IF slot = "waiting" THEN Later(pastDeadline) ELSE 0
    /\ UNCHANGED slot

Next == RadioTurn \/ SlotTurn \/ SameTick \/ NextTick

Spec == Init /\ [][Next]_vars

\* loop() keeps being called and millis() keeps counting.
TimedSpec == Spec /\ WF_vars(Next) /\ SF_vars(NextTick)

----------------------------------------------------------------------------
(* Properties *)

\* How long the slot has been waiting.
Waited == (pastDeadline + SlotWait) % Width

\* The radio is on or coming up for a request that waits, within its linger
\* window, once the backoff since the last failure is over.  This says so of
\* every moment after wifi_manager::update() has run, whatever came before,
\* with a failure less than half a turn of millis() ago (24.8 days): with an
\* older one g_retry_after no longer means what it says, and it is violated.
WaitingGetsRadio ==
    phase = "slot" /\ slot = "waiting" /\ Waited < Linger
        /\ sinceFailure \in Backoff(failures) .. Half - 1
    => wifi \in On

\* Attempts that keep failing are spaced by the backoff, however requests,
\* giving up and powering down come in between ("should not keep the radio busy
\* retrying every second").
RetriesArePaced ==
    [][wifi \notin On /\ wifi' \in On
        => failures = 0 \/ sinceFailure >= Backoff(failures)]_vars

\* The radio is not left on when nothing has asked for it since Linger ago.
\* (A radio that had failed is not switched off, and g_wanted stays set: after
\* half a turn of millis() it is tried again for nobody.)
RadioOffWhenIdle ==
    phase = "slot" /\ wifi \in On => sinceAsked < Linger \/ sinceAsked = Half

\* A request never waits for ever for a radio that does not come up; this is
\* what the fairness of Backend's DeadlinePasses rests on.
WaitForRadioEnds == slot = "waiting" ~> slot # "waiting"

=============================================================================
