\* The clock turns over after 40 ticks of about 7 seconds; the order of the
\* times is that of the code: base < timeout < linger < deadline < cap < half.
SPECIFICATION TimedSpec
CONSTANTS
    Width = 40
    Linger = 4
    ConnectTimeout = 2
    BackoffBase = 1
    BackoffCap = 8
    MaxShift = 4
    SlotWait = 5
INVARIANTS
    TypeOK
    WaitingGetsRadio
    RadioOffWhenIdle
PROPERTIES
    RetriesArePaced
    WaitForRadioEnds
