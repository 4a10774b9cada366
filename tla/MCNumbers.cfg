SPECIFICATION NumbersSpec
CONSTANTS
  Unit = 16
  Exact <- MCExact
  Sizes <- MCOneSize
  Durations <- MCDurations
CHECK_DEADLOCK FALSE
INVARIANTS
  TimeReadsBack
