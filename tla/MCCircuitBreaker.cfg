\* Three concurrent calls, so that two late ones can meet a probe; two failures
\* open the circuit, and two ticks let a probe through.
CONSTANTS
  Callers = {c1, c2, c3}
  Threshold = 2
  Timeout = 2
  None = None
SPECIFICATION RecoverySpec
INVARIANTS TypeOK SlotIsHeld
PROPERTIES OpenUntilProbed OnlyProbesWhileFailing Recovers
