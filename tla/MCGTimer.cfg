\* A tick of 3 counts and 4 us; the interrupt may be more than a tick late, and
\* the system time wraps after 30 counts.
CONSTANTS
  Rate = 3
  Tick = 4
  Word = 40
  MaxLate = 4
  MaxNow = 34
SPECIFICATION Spec
INVARIANTS TypeOK TickPeriod
PROPERTIES TimeTrue TimeForward
CHECK_DEADLOCK TRUE
