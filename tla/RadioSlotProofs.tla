-------------------------- MODULE RadioSlotProofs --------------------------
(***************************************************************************)
(* The radio and the slot on a clock that wraps around, for every choice   *)
(* of the times and every width of millis().                               *)
(*                                                                         *)
(* The code only knows 32-bit differences; the properties are about true   *)
(* ages.  The invariants tie the two together for as long as an age stays  *)
(* below half a turn: each difference is its age less the delay it was set *)
(* with, turned over below zero.  From there on, a sign that the code      *)
(* tests says what the code takes it to say.                               *)
(***************************************************************************)
EXTENDS RadioSlot, TLAPS

\* The age of a time stamp, seen as the difference to a deadline set delay after it.
Past(age, delay) == IF age < delay THEN Width - delay + age ELSE age - delay

\* g_linger_until says when the link was last asked for, for half a turn.
LingerFollows == sinceAsked < Half => pastLinger = Past(sinceAsked, Linger)

\* g_retry_after says when the last failure was, for half a turn.  While the
\* radio is up, and after a failure that nothing has to wait for, it is over.
RetryFollows ==
    sinceFailure < Half =>
        /\ failures # 0 => pastRetry = Past(sinceFailure, Backoff(failures))
        /\ failures = 0 \/ wifi \in On => pastRetry <= sinceFailure

\* The counter of failures starts again with every association.
UpHasNotFailed == wifi = "Connected" => failures = 0

\* A waiting request was the last to ask for the link, no longer ago than its
\* deadline allows, and the link has not been switched off under it since.
WaitFollows ==
    slot = "waiting" =>
        /\ sinceAsked <= SlotWait
        /\ phase = "clock" => sinceAsked < SlotWait
        /\ pastDeadline = Past(sinceAsked, SlotWait)
        /\ sinceAsked < Linger => wanted

RadioInv ==
    /\ TypeOK
    /\ LingerFollows
    /\ RetryFollows
    /\ UpHasNotFailed
    /\ WaitFollows
    /\ WaitingGetsRadio
    /\ RadioOffWhenIdle

----------------------------------------------------------------------------
(* Arithmetic of the clock *)

LEMMA HalfATurn ==
    /\ Width \in Nat \ {0, 1} /\ Half \in Nat \ {0}
    /\ Half + Half <= Width /\ Width <= Half + Half + 1
  BY TimesAssumption DEF Half

\* A deadline is ahead right after it was set, and each tick brings it closer.
LEMMA AheadIsPast ==
    ASSUME NEW d \in Nat, d < Half
    PROVE  /\ Ahead(d) = IF d = 0 THEN 0 ELSE Width - d
           /\ Ahead(d) = Past(0, d)
           /\ Ahead(d) \in Difference
<1> DEFINE W == Width
<1>1. d = 0 => (W - d) % W = 0
  BY HalfATurn
<1>2. d # 0 => (W - d) % W = W - d
  BY HalfATurn
<1> HIDE DEF W
<1> QED BY <1>1, <1>2, HalfATurn DEF Ahead, Past, Difference, W

LEMMA LaterIsNext ==
    ASSUME NEW p \in Difference
    PROVE  /\ Later(p) \in Difference
           /\ Later(p) = IF p = Width - 1 THEN 0 ELSE p + 1
<1>1. p = Width - 1 => (p + 1) % Width = 0
  BY HalfATurn
<1>2. p # Width - 1 => (p + 1) % Width = p + 1
  BY HalfATurn DEF Difference
<1> QED BY <1>1, <1>2, HalfATurn DEF Later, Difference

\* A difference that follows its age keeps following it.
LEMMA PastGrows ==
    ASSUME NEW a \in Nat, NEW d \in Nat, d < Half, a + 1 < Half
    PROVE  /\ Past(a, d) \in Difference
           /\ Later(Past(a, d)) = Past(a + 1, d)
<1>1. Past(a, d) \in Difference
  BY HalfATurn DEF Past, Difference
<1> QED BY <1>1, LaterIsNext, HalfATurn DEF Past

\* The sign of a difference says whether the delay is over.
LEMMA DueWhenOver ==
    ASSUME NEW a \in Nat, NEW d \in Nat, d < Half, a < Half
    PROVE  Due(Past(a, d)) <=> a >= d
  BY HalfATurn DEF Due, Past

LEMMA BackoffFits ==
    ASSUME NEW f \in Nat
    PROVE  Backoff(f) \in 1 .. BackoffCap
<1>1. Least(f, MaxShift) \in 0 .. MaxShift
  BY TimesAssumption DEF Least
<1>2. BackoffBase * 2 ^ Least(f, MaxShift) \in 1 .. (Width - 1)
  BY <1>1, ShiftsFit
<1> DEFINE raw == BackoffBase * 2 ^ Least(f, MaxShift)
<1>3. raw \in 1 .. (Width - 1)
  BY <1>2
<1> HIDE DEF raw
<1>4. Least(raw, BackoffCap) \in 1 .. BackoffCap
  BY <1>3, HalfATurn, TimesAssumption DEF Least
<1> QED BY <1>4 DEF Backoff, raw

LEMMA OlderIsNext ==
    ASSUME NEW a \in Age
    PROVE  Older(a) \in Age /\ (Older(a) < Half => a + 1 < Half /\ Older(a) = a + 1)
  BY HalfATurn DEF Older, Least, Age

----------------------------------------------------------------------------
(* One lemma per part of the invariant *)

LEMMA InitRadioInv == Init => RadioInv
<1> SUFFICES ASSUME Init PROVE RadioInv
  OBVIOUS
<1>1. TypeOK
  <2>1. 0 \in Difference /\ 0 \in Age /\ Half \in Age /\ 0 \in 0 .. MaxShift
    BY HalfATurn, TimesAssumption DEF Difference, Age
  <2> QED BY <2>1, Zenon DEF Init, WifiInit, TypeOK, WifiTypeOK
<1>2. RetryFollows
  BY HalfATurn DEF Init, WifiInit, RetryFollows
<1> QED
  BY <1>1, <1>2, HalfATurn
  DEF Init, WifiInit, RadioInv, LingerFollows, UpHasNotFailed, WaitFollows,
      WaitingGetsRadio, RadioOffWhenIdle

LEMMA TypesKept ==
    ASSUME TypeOK, Next
    PROVE  TypeOK'
<1> USE DEF TypeOK, WifiTypeOK
<1>0. 0 \in Difference /\ 0 \in Age
  BY HalfATurn DEF Difference, Age
<1>1. /\ Ahead(Linger) \in Difference /\ Ahead(SlotWait) \in Difference
      /\ \A f \in Nat : Ahead(Backoff(f)) \in Difference
  <2>1. ASSUME NEW f \in Nat PROVE Backoff(f) \in Nat /\ Backoff(f) < Half
    BY BackoffFits, TimesAssumption, HalfATurn
  <2> QED BY <2>1, AheadIsPast, TimesAssumption, SlotWaitAssumption
<1>2. CASE RadioTurn
  <2>1. failures \in Nat /\ Least(failures + 1, MaxShift) \in 0 .. MaxShift
    BY TimesAssumption DEF Least
  <2>2. 0 \in 0 .. MaxShift
    BY TimesAssumption
  <2>3. AttemptFails => failures' \in 0 .. MaxShift /\ failures' \in Nat
    BY <2>1 DEF AttemptFails
  <2>4. AttemptFails => pastRetry' \in Difference
    BY <1>1, <2>3 DEF AttemptFails
  <2> QED
    BY <1>0, <1>2, <2>2, <2>3, <2>4, Zenon
    DEF RadioTurn, Turn, WifiUpdate, PowerDown, StartAttempt, Associates, AttemptFails,
        LinkLost, NoChange, wifiVars, On
<1>3. CASE SlotTurn
  BY <1>0, <1>1, <1>3
  DEF SlotTurn, StartRequest, PostRequest, GiveUpOnRadio, OutcomeArrives, SlotIdle, Turn,
      RequestOnline, wifiVars
<1>4. CASE SameTick
  BY <1>4 DEF SameTick, Turn, wifiVars
<1>5. CASE NextTick
  BY <1>0, <1>5, LaterIsNext, OlderIsNext DEF NextTick, Turn, WifiTick
<1> QED BY <1>2, <1>3, <1>4, <1>5 DEF Next

LEMMA LingerKept ==
    ASSUME TypeOK, LingerFollows, Next
    PROVE  LingerFollows'
<1> USE DEF LingerFollows
<1>1. CASE RadioTurn
  BY <1>1
  DEF RadioTurn, WifiUpdate, PowerDown, StartAttempt, Associates, AttemptFails, LinkLost,
      NoChange, wifiVars, Past
<1>2. CASE StartRequest
  BY <1>2, AheadIsPast, TimesAssumption DEF StartRequest, RequestOnline, Past
<1>3. CASE PostRequest \/ GiveUpOnRadio \/ OutcomeArrives \/ SlotIdle \/ SameTick
  BY <1>3 DEF PostRequest, GiveUpOnRadio, OutcomeArrives, SlotIdle, SameTick, wifiVars, Past
<1>4. CASE NextTick
  <2>1. pastLinger' = Later(pastLinger) /\ sinceAsked' = Older(sinceAsked)
    BY <1>4 DEF NextTick, WifiTick
  <2> SUFFICES ASSUME sinceAsked' < Half PROVE pastLinger' = Past(sinceAsked', Linger)
    BY DEF Past
  <2>2. sinceAsked \in Nat /\ sinceAsked + 1 < Half /\ sinceAsked' = sinceAsked + 1
    BY <2>1, OlderIsNext DEF TypeOK, WifiTypeOK, Age
  <2>3. pastLinger = Past(sinceAsked, Linger)
    BY <2>2, HalfATurn
  <2> QED BY <2>1, <2>2, <2>3, PastGrows, TimesAssumption
<1> QED BY <1>1, <1>2, <1>3, <1>4 DEF Next, SlotTurn

LEMMA UpKept ==
    ASSUME UpHasNotFailed, Next
    PROVE  UpHasNotFailed'
<1>1. CASE RadioTurn
  BY <1>1
  DEF UpHasNotFailed, RadioTurn, WifiUpdate, PowerDown, StartAttempt, Associates,
      AttemptFails, LinkLost, NoChange, wifiVars
<1>2. CASE SlotTurn \/ SameTick \/ NextTick
  BY <1>2
  DEF UpHasNotFailed, SlotTurn, StartRequest, PostRequest, GiveUpOnRadio, OutcomeArrives,
      SlotIdle, SameTick, NextTick, RequestOnline, WifiTick, wifiVars
<1> QED BY <1>1, <1>2 DEF Next

\* An attempt is only started when the backoff is over, which is where the
\* second part comes from; it lasts because the radio changes hands through a
\* failure only.
LEMMA RetryKept ==
    ASSUME TypeOK, UpHasNotFailed, RetryFollows, Next
    PROVE  RetryFollows'
<1> USE DEF RetryFollows
<1>0. /\ sinceFailure \in Nat /\ failures \in Nat
      /\ Backoff(failures) \in Nat /\ Backoff(failures) < Half
  BY BackoffFits, TimesAssumption, HalfATurn DEF TypeOK, WifiTypeOK, Age
<1>1. CASE PowerDown
  BY <1>1 DEF PowerDown, Past, On
<1>2. CASE StartAttempt
  <2>1. sinceFailure < Half /\ failures # 0 => sinceFailure >= Backoff(failures)
    BY <1>0, <1>2, DueWhenOver DEF StartAttempt
  <2>2. sinceFailure < Half /\ failures # 0 => pastRetry <= sinceFailure
    BY <1>0, <2>1 DEF Past
  <2> QED BY <1>2, <2>2 DEF StartAttempt, Past
<1>3. CASE Associates
  BY <1>3 DEF Associates, On
<1>4. CASE AttemptFails
  <2>1. failures' \in Nat /\ failures' # 0
    BY <1>0, <1>4, TimesAssumption DEF AttemptFails, Least
  <2>2. Backoff(failures') \in Nat /\ Backoff(failures') < Half
    BY <2>1, BackoffFits, TimesAssumption, HalfATurn
  <2>3. sinceFailure' = 0 /\ pastRetry' = Past(0, Backoff(failures'))
    BY <1>4, <2>2, AheadIsPast DEF AttemptFails
  <2> QED BY <1>4, <2>1, <2>3 DEF AttemptFails, On
<1>5. CASE LinkLost
  BY <1>5 DEF LinkLost, UpHasNotFailed
<1>6. CASE NoChange \/ SlotTurn \/ SameTick
  BY <1>6
  DEF NoChange, SlotTurn, StartRequest, PostRequest, GiveUpOnRadio, OutcomeArrives,
      SlotIdle, SameTick, RequestOnline, wifiVars
<1>7. CASE NextTick
  <2>1. /\ pastRetry' = Later(pastRetry) /\ sinceFailure' = Older(sinceFailure)
        /\ UNCHANGED <<wifi, failures>>
    BY <1>7 DEF NextTick, WifiTick
  <2> SUFFICES ASSUME sinceFailure' < Half
               PROVE  /\ failures # 0 => pastRetry' = Past(sinceFailure', Backoff(failures))
                      /\ failures = 0 \/ wifi \in On => pastRetry' <= sinceFailure'
    BY <2>1
  <2>2. sinceFailure + 1 < Half /\ sinceFailure' = sinceFailure + 1
    BY <2>1, OlderIsNext DEF TypeOK, WifiTypeOK
  <2>3. failures # 0 => pastRetry' = Past(sinceFailure', Backoff(failures))
    BY <1>0, <2>1, <2>2, PastGrows, HalfATurn
  <2>4. pastRetry <= sinceFailure => pastRetry' <= sinceFailure'
    BY <1>0, <2>1, <2>2, LaterIsNext, HalfATurn DEF TypeOK, WifiTypeOK, Difference
  <2> QED BY <1>0, <2>2, <2>3, <2>4, HalfATurn
<1> QED BY <1>1, <1>2, <1>3, <1>4, <1>5, <1>6, <1>7 DEF Next, RadioTurn, WifiUpdate

\* The request is given up, or posted, before the age of g_linger_until could
\* differ from the slot's; and the radio's turn clears g_wanted only when the
\* linger window is over.
LEMMA WaitKept ==
    ASSUME TypeOK, LingerFollows, WaitFollows, Next
    PROVE  WaitFollows'
<1>0. sinceAsked \in Nat /\ SlotWait \in Nat /\ SlotWait < Half /\ Linger \in Nat
  BY SlotWaitAssumption, TimesAssumption, HalfATurn DEF TypeOK, WifiTypeOK, Age
<1>1. CASE RadioTurn
  <2>1. wanted /\ sinceAsked < Linger => wanted'
    <3> SUFFICES ASSUME wanted, sinceAsked < Linger PROVE wanted'
      OBVIOUS
    <3>1. ~Due(pastLinger)
      BY <1>0, DueWhenOver, TimesAssumption, HalfATurn DEF LingerFollows
    <3> QED
      BY <1>1, <3>1
      DEF RadioTurn, WifiUpdate, LingerOver, PowerDown, StartAttempt, Associates,
          AttemptFails, LinkLost, NoChange, wifiVars
  <2>2. phase' = "slot" /\ UNCHANGED <<slot, pastDeadline, sinceAsked>>
    BY <1>1
    DEF RadioTurn, Turn, WifiUpdate, PowerDown, StartAttempt, Associates, AttemptFails,
        LinkLost, NoChange, wifiVars
  <2> QED BY <2>1, <2>2 DEF WaitFollows, Past
<1>2. CASE StartRequest
  BY <1>0, <1>2, AheadIsPast, SlotWaitAssumption, HalfATurn
  DEF StartRequest, RequestOnline, WaitFollows
<1>3. CASE PostRequest \/ GiveUpOnRadio \/ OutcomeArrives
  BY <1>3 DEF PostRequest, GiveUpOnRadio, OutcomeArrives, WaitFollows
<1>4. CASE SlotIdle
  <2>1. UNCHANGED <<slot, pastDeadline, sinceAsked, wanted>>
    BY <1>4 DEF SlotIdle, wifiVars
  <2>2. slot = "waiting" => ~Due(pastDeadline)
    BY <1>4 DEF SlotIdle
  <2>3. slot = "waiting" => sinceAsked < SlotWait
    BY <1>0, <2>2, DueWhenOver, HalfATurn DEF WaitFollows
  <2> QED BY <2>1, <2>3 DEF WaitFollows, Past
<1>5. CASE SameTick
  BY <1>5 DEF SameTick, Turn, WaitFollows, wifiVars, Past
<1>6. CASE NextTick
  <2> SUFFICES ASSUME slot = "waiting"
               PROVE  /\ sinceAsked' <= SlotWait
                      /\ phase' # "clock"
                      /\ pastDeadline' = Past(sinceAsked', SlotWait)
                      /\ sinceAsked' < Linger => wanted'
    BY <1>6 DEF WaitFollows, NextTick
  <2>1. sinceAsked < SlotWait /\ pastDeadline = Past(sinceAsked, SlotWait)
    BY <1>6 DEF WaitFollows, NextTick, Turn
  <2>2. sinceAsked' = sinceAsked + 1
    BY <1>0, <1>6, <2>1, HalfATurn DEF NextTick, WifiTick, Older, Least
  <2>3. pastDeadline' = Later(pastDeadline) /\ wanted' = wanted /\ phase' = "wifi"
    BY <1>6 DEF NextTick, WifiTick, Turn
  <2>4. sinceAsked + 1 < Half => pastDeadline' = Past(sinceAsked', SlotWait)
    BY <1>0, <2>1, <2>2, <2>3, PastGrows
  <2>5. sinceAsked + 1 < Half
    BY <1>0, <2>1, HalfATurn
  <2> QED BY <1>0, <2>1, <2>2, <2>3, <2>4, <2>5 DEF WaitFollows
<1> QED BY <1>1, <1>2, <1>3, <1>4, <1>5, <1>6 DEF Next, SlotTurn

\* With the backoff over and the linger window open, update() leaves the radio
\* on, or it has just failed.
LEMMA RadioTurnServes ==
    ASSUME TypeOK, LingerFollows, RetryFollows, UpHasNotFailed, WaitFollows, RadioTurn
    PROVE  WaitingGetsRadio'
<1> SUFFICES ASSUME slot = "waiting", Waited < Linger,
                    sinceFailure' \in Backoff(failures') .. (Half - 1)
             PROVE  wifi' \in On
  BY DEF WaitingGetsRadio, RadioTurn, Waited
<1>0. /\ sinceAsked \in Nat /\ sinceFailure \in Nat /\ failures \in Nat
      /\ SlotWait \in Nat /\ SlotWait < Half
  BY SlotWaitAssumption DEF TypeOK, WifiTypeOK, Age
<1>1. Waited = sinceAsked
  <2>1. sinceAsked <= SlotWait /\ pastDeadline = Past(sinceAsked, SlotWait)
    BY DEF WaitFollows
  <2>2. CASE sinceAsked < SlotWait
    <3>1. pastDeadline + SlotWait = Width + sinceAsked /\ sinceAsked < Width
      BY <1>0, <2>1, <2>2, HalfATurn DEF Past
    <3>2. (Width + sinceAsked) % Width = sinceAsked
      BY <1>0, <3>1, HalfATurn
    <3> QED BY <3>1, <3>2 DEF Waited
  <2>3. CASE sinceAsked = SlotWait
    <3>1. pastDeadline + SlotWait = sinceAsked /\ sinceAsked < Width
      BY <1>0, <2>1, <2>3, HalfATurn DEF Past
    <3>2. sinceAsked % Width = sinceAsked
      BY <1>0, <3>1, HalfATurn
    <3> QED BY <3>1, <3>2 DEF Waited
  <2> QED BY <1>0, <2>1, <2>2, <2>3
<1>2. ~LingerOver
  <2>1. wanted
    BY <1>1 DEF WaitFollows
  <2>2. ~Due(pastLinger)
    BY <1>0, <1>1, DueWhenOver, TimesAssumption, HalfATurn DEF LingerFollows
  <2> QED BY <2>1, <2>2 DEF LingerOver
<1>3. \A f \in Nat : Backoff(f) \in Nat /\ Backoff(f) >= 1 /\ Backoff(f) < Half
  BY BackoffFits, TimesAssumption, HalfATurn
<1>4. ~AttemptFails
  <2>1. AttemptFails => failures' \in Nat /\ sinceFailure' = 0
    BY <1>0, TimesAssumption DEF AttemptFails, Least
  <2> QED BY <1>3, <2>1
<1>5. ~LinkLost
  BY <1>0, <1>3 DEF LinkLost
<1>6. CASE NoChange
  <2>1. UNCHANGED <<wifi, failures, sinceFailure>>
    BY <1>6 DEF NoChange, wifiVars
  <2>2. Due(pastRetry)
    <3>1. sinceFailure < Half /\ sinceFailure >= Backoff(failures)
      BY <1>0, <1>3, <2>1, HalfATurn
    <3>2. failures # 0 => pastRetry = Past(sinceFailure, Backoff(failures))
      BY <3>1 DEF RetryFollows
    <3>3. failures = 0 => pastRetry <= sinceFailure
      BY <3>1 DEF RetryFollows
    <3>4. failures # 0 => Due(pastRetry)
      BY <1>0, <1>3, <3>1, <3>2, DueWhenOver
    <3>5. failures = 0 => Due(pastRetry)
      BY <1>0, <3>1, <3>3, HalfATurn DEF Due, TypeOK, WifiTypeOK, Difference
    <3> QED BY <3>4, <3>5
  <2> QED BY <1>6, <2>1, <2>2 DEF NoChange, TypeOK, WifiTypeOK, On
<1>7. CASE StartAttempt \/ Associates
  BY <1>7 DEF StartAttempt, Associates, On
<1> QED BY <1>2, <1>4, <1>5, <1>6, <1>7 DEF RadioTurn, WifiUpdate, PowerDown

\* A radio that update() leaves on was asked for within the linger window.
LEMMA RadioTurnSaves ==
    ASSUME TypeOK, LingerFollows, RadioTurn
    PROVE  RadioOffWhenIdle'
<1> SUFFICES ASSUME wifi' \in On, sinceAsked # Half, ~(sinceAsked < Linger)
             PROVE  FALSE
  BY DEF RadioOffWhenIdle, RadioTurn, WifiUpdate, PowerDown, StartAttempt, Associates,
         AttemptFails, LinkLost, NoChange, wifiVars
<1>1. sinceAsked \in Nat /\ sinceAsked < Half /\ Linger \in Nat /\ sinceAsked >= Linger
  BY HalfATurn, TimesAssumption DEF TypeOK, WifiTypeOK, Age
<1>2. Due(pastLinger)
  BY <1>1, DueWhenOver, TimesAssumption, HalfATurn DEF LingerFollows
<1>3. PowerDown
  BY <1>2
  DEF RadioTurn, WifiUpdate, LingerOver, StartAttempt, Associates, AttemptFails, LinkLost,
      NoChange
<1> QED BY <1>3 DEF PowerDown, On

LEMMA NextKeepsRadioInv ==
    ASSUME RadioInv, [Next]_vars
    PROVE  RadioInv'
<1> USE DEF RadioInv
<1>1. CASE UNCHANGED vars
  BY <1>1
  DEF vars, wifiVars, TypeOK, WifiTypeOK, LingerFollows, RetryFollows, UpHasNotFailed,
      WaitFollows, WaitingGetsRadio, RadioOffWhenIdle, Waited, Past
<1>2. CASE Next
  <2>1. TypeOK' /\ LingerFollows' /\ RetryFollows' /\ UpHasNotFailed' /\ WaitFollows'
    BY <1>2, TypesKept, LingerKept, RetryKept, UpKept, WaitKept
  <2>2. CASE RadioTurn
    BY <2>1, <2>2, RadioTurnServes, RadioTurnSaves
  <2>3. CASE SlotTurn \/ SameTick \/ NextTick
    <3>1. phase' # "slot"
      BY <2>3
      DEF SlotTurn, StartRequest, PostRequest, GiveUpOnRadio, OutcomeArrives, SlotIdle,
          SameTick, NextTick, Turn
    <3> QED BY <2>1, <3>1 DEF WaitingGetsRadio, RadioOffWhenIdle
  <2> QED BY <1>2, <2>2, <2>3 DEF Next
<1> QED BY <1>1, <1>2

\* With the invariant, the step that switches the radio on comes after the
\* backoff: below half a turn by the sign, from there on because no backoff
\* is that long.
LEMMA NextPaces ==
    ASSUME RadioInv, Next, wifi \notin On, wifi' \in On
    PROVE  failures = 0 \/ sinceFailure >= Backoff(failures)
<1>0. /\ sinceFailure \in Nat /\ failures \in Nat
      /\ Backoff(failures) \in Nat /\ Backoff(failures) < Half
  BY BackoffFits, TimesAssumption, HalfATurn DEF RadioInv, TypeOK, WifiTypeOK, Age
<1>1. StartAttempt
  <2>1. CASE RadioTurn
    BY <2>1
    DEF RadioTurn, WifiUpdate, PowerDown, Associates, AttemptFails, LinkLost, NoChange,
        wifiVars, On
  <2>2. CASE SlotTurn \/ SameTick \/ NextTick
    BY <2>2
    DEF SlotTurn, StartRequest, PostRequest, GiveUpOnRadio, OutcomeArrives, SlotIdle,
        SameTick, NextTick, RequestOnline, WifiTick, wifiVars
  <2> QED BY <2>1, <2>2 DEF Next
<1>2. CASE sinceFailure < Half /\ failures # 0
  <2>1. pastRetry = Past(sinceFailure, Backoff(failures)) /\ Due(pastRetry)
    BY <1>1, <1>2 DEF RadioInv, RetryFollows, StartAttempt
  <2> QED BY <1>0, <1>2, <2>1, DueWhenOver
<1>3. CASE ~(sinceFailure < Half)
  BY <1>0, <1>3, HalfATurn
<1> QED BY <1>2, <1>3

LEMMA RadioInvariant == Spec => []RadioInv
  BY InitRadioInv, NextKeepsRadioInv, PTL DEF Spec

----------------------------------------------------------------------------
\* Every variable of the radio and the slot keeps its type, for every choice
\* of the times: no difference leaves its 32 bits and g_failures its bound
\* (wifi_manager::update, backend::update).
THEOREM RadioTypes == Spec => []TypeOK
  BY RadioInvariant, PTL DEF RadioInv

\* A request that waits within its linger window has the radio on or coming up
\* after every wifi_manager::update(), unless the backoff of a failure less than
\* half a turn of millis() ago is not over, or the failure is older than that.
THEOREM WaitingIsServed == Spec => []WaitingGetsRadio
  BY RadioInvariant, PTL DEF RadioInv

\* wifi_manager::update() leaves no radio on that nobody has asked for since
\* the linger window, wherever millis() is between zero and its wrap.
THEOREM IdleIsOff == Spec => []RadioOffWhenIdle
  BY RadioInvariant, PTL DEF RadioInv

\* Attempts that keep failing start no sooner than backoff_ms() after the last
\* failure, across requests, giving up, powering down and the wrap of millis().
THEOREM RetriesArePacedAlways == Spec => RetriesArePaced
<1>1. RadioInv /\ [Next]_vars =>
        [wifi \notin On /\ wifi' \in On
          => failures = 0 \/ sinceFailure >= Backoff(failures)]_vars
  BY NextPaces
<1> QED BY <1>1, RadioInvariant, PTL DEF Spec, RetriesArePaced

=============================================================================
