---------------------------- MODULE WifiManager ----------------------------
(***************************************************************************)
(* The radio (wifi_manager.cpp): when it is switched on, when it retries,  *)
(* when it is switched off.                                                *)
(*                                                                         *)
(* millis() is a 32-bit counter that wraps around.  A time stamp t of the  *)
(* code is only ever used through the 32-bit difference now - t, so that   *)
(* difference is what is kept here, modulo Width; all of them grow by one  *)
(* with each tick.  The cast to int32_t makes the upper half negative.     *)
(*                                                                         *)
(* sinceAsked and sinceFailure are history variables: the true time since  *)
(* the last request_online() and since the last failure, up to Half, which *)
(* stands for "so long ago that the difference has changed its sign".      *)
(***************************************************************************)
EXTENDS Naturals

CONSTANTS
    Width,          \* 2^32 milliseconds, in ticks
    Linger,         \* config::wifi_linger_ms
    ConnectTimeout, \* config::wifi_connect_timeout_ms
    BackoffBase,    \* the 2000 ms of backoff_ms()
    BackoffCap,     \* its 60000 ms
    MaxShift        \* its largest shift; further failures change nothing

Half == Width \div 2

ASSUME TimesAssumption ==
    /\ Width \in Nat /\ Linger \in Nat \ {0} /\ ConnectTimeout \in Nat
    /\ BackoffBase \in Nat \ {0} /\ BackoffCap \in Nat \ {0} /\ MaxShift \in Nat \ {0}
    /\ Linger < Half /\ ConnectTimeout < Half /\ BackoffCap < Half

\* 2000u << 5 is far from an overflow.
ASSUME ShiftsFit == \A k \in 0 .. MaxShift : BackoffBase * 2 ^ k \in 1 .. (Width - 1)

VARIABLES
    wifi,           \* g_state
    attemptAge,     \* now - g_attempt_started; 0 unless connecting, where it is read
    pastLinger,     \* now - g_linger_until
    pastRetry,      \* now - g_retry_after
    failures,       \* g_failures, up to MaxShift
    wanted,         \* g_wanted
    sinceAsked,
    sinceFailure

wifiVars == <<wifi, attemptAge, pastLinger, pastRetry, failures, wanted,
              sinceAsked, sinceFailure>>

Difference == 0 .. (Width - 1)
Age == 0 .. Half

WifiTypeOK ==
    /\ wifi \in {"Off", "Connecting", "Connected", "Failed"}
    /\ attemptAge \in Difference
    /\ pastLinger \in Difference
    /\ pastRetry \in Difference
    /\ failures \in 0 .. MaxShift
    /\ wanted \in BOOLEAN
    /\ sinceAsked \in Age
    /\ sinceFailure \in Age

\* begin(), at a moment when millis() is close to zero.
WifiInit ==
    /\ wifi = "Off"
    /\ attemptAge = 0
    /\ pastLinger = 0
    /\ pastRetry = 0
    /\ failures = 0
    /\ wanted = FALSE
    /\ sinceAsked = Half
    /\ sinceFailure = 0

----------------------------------------------------------------------------
\* Mutant: the difference is compared without the cast, so it is never < 0.
DueUnsigned(past) == past >= 0

\* static_cast<int32_t>(now - t) >= 0
Due(past) == past < Half

\* now - t right after t was set to now + delay
Ahead(delay) == (Width - delay) % Width

Least(a, b) == IF a < b THEN a ELSE b

\* backoff_ms()
Backoff(f) == Least(BackoffBase * 2 ^ Least(f, MaxShift), BackoffCap)

On == {"Connecting", "Connected"}

\* request_online(): what a caller adds to its own step.
RequestOnline ==
    /\ wanted' = TRUE
    /\ pastLinger' = Ahead(Linger)
    /\ sinceAsked' = 0
    /\ UNCHANGED <<wifi, attemptAge, pastRetry, failures, sinceFailure>>

----------------------------------------------------------------------------
(* update() *)

LingerOver == ~wanted \/ Due(pastLinger)

\* Mutant: an association under way is not broken off.
PowerDownIfConnected ==
    /\ LingerOver
    /\ IF wifi = "Connected" THEN wifi' = "Off" /\ attemptAge' = 0 /\ wanted' = FALSE
                             ELSE UNCHANGED <<wifi, attemptAge, wanted>>
    /\ UNCHANGED <<pastLinger, pastRetry, failures, sinceAsked, sinceFailure>>

\* Nothing has asked for the link for a while.  A failed attempt is left as it
\* is, and with it g_wanted.
PowerDown ==
    /\ LingerOver
    /\ IF wifi \in On THEN wifi' = "Off" /\ attemptAge' = 0 /\ wanted' = FALSE
                      ELSE UNCHANGED <<wifi, attemptAge, wanted>>
    /\ UNCHANGED <<pastLinger, pastRetry, failures, sinceAsked, sinceFailure>>

StartAttempt ==
    /\ ~LingerOver
    /\ wifi \in {"Off", "Failed"}
    /\ Due(pastRetry)
    /\ wifi' = "Connecting"
    /\ attemptAge' = 0
    /\ UNCHANGED <<pastLinger, pastRetry, failures, wanted, sinceAsked, sinceFailure>>

Associates ==
    /\ ~LingerOver
    /\ wifi = "Connecting"
    /\ wifi' = "Connected"
    /\ attemptAge' = 0
    /\ failures' = 0
    /\ UNCHANGED <<pastLinger, pastRetry, wanted, sinceAsked, sinceFailure>>

\* static_cast<int32_t>(now - g_attempt_started) > the timeout
TimedOut == attemptAge \in (ConnectTimeout + 1) .. (Half - 1)

\* Mutant: the counter is raised after the backoff has been computed from it
\* and the shift starts at zero.
AttemptFailsNoWait ==
    /\ ~LingerOver
    /\ wifi = "Connecting" /\ TimedOut
    /\ wifi' = "Failed"
    /\ attemptAge' = 0
    /\ failures' = Least(failures + 1, MaxShift)
    /\ pastRetry' = Ahead(Backoff(failures))
    /\ sinceFailure' = 0
    /\ UNCHANGED <<pastLinger, wanted, sinceAsked>>

\* Mutant: the counter of failures is not stopped at its end.
AttemptFailsUncapped ==
    /\ ~LingerOver
    /\ wifi = "Connecting" /\ TimedOut
    /\ wifi' = "Failed"
    /\ attemptAge' = 0
    /\ failures' = failures + 1
    /\ pastRetry' = Ahead(Backoff(failures'))
    /\ sinceFailure' = 0
    /\ UNCHANGED <<pastLinger, wanted, sinceAsked>>

AttemptFails ==
    /\ ~LingerOver
    /\ wifi = "Connecting" /\ TimedOut
    /\ wifi' = "Failed"
    /\ attemptAge' = 0
    /\ failures' = Least(failures + 1, MaxShift)
    /\ pastRetry' = Ahead(Backoff(failures'))
    /\ sinceFailure' = 0
    /\ UNCHANGED <<pastLinger, wanted, sinceAsked>>

\* The access point is gone: the next attempt may start at once.
LinkLost ==
    /\ ~LingerOver
    /\ wifi = "Connected"
    /\ wifi' = "Failed"
    /\ pastRetry' = 0
    /\ sinceFailure' = 0
    /\ UNCHANGED <<attemptAge, pastLinger, failures, wanted, sinceAsked>>

\* The attempt goes on, the backoff is not over, or the link is up.
NoChange ==
    /\ ~LingerOver
    /\ \/ wifi \in {"Off", "Failed"} /\ ~Due(pastRetry)
       \/ wifi = "Connecting" /\ ~TimedOut
       \/ wifi = "Connected"
    /\ UNCHANGED wifiVars

WifiUpdate ==
    \/ PowerDown
    \/ StartAttempt
    \/ Associates
    \/ AttemptFails
    \/ LinkLost
    \/ NoChange

----------------------------------------------------------------------------
\* One tick of millis().
Later(past) == (past + 1) % Width
Older(age) == Least(age + 1, Half)

WifiTick ==
    /\ attemptAge' = IF wifi = "Connecting" THEN Later(attemptAge) ELSE 0
    /\ pastLinger' = Later(pastLinger)
    /\ pastRetry' = Later(pastRetry)
    /\ sinceAsked' = Older(sinceAsked)
    /\ sinceFailure' = Older(sinceFailure)
    /\ UNCHANGED <<wifi, failures, wanted>>

=============================================================================
