SPECIFICATION Spec
CONSTANTS
  NsPerSec = 60
  NsPerMs = 3
  IntPeriod = 256
  LongPeriod = 65536
  MaxSample = 2
  MaxElapsed = 540
  ClockStep <- MCClockStep
INVARIANTS
  TypeOK
  AcceptedIsElapsed
  LostOnlyByBorrow
