\* A call that passes through two servers while the clock runs: deadlines past,
\* close and far, and timeouts that callers write themselves.
CONSTANTS
  Ms = 4
  UnitLen <- MCUnitLen
  Half = 64
  Deadlines <- MCDeadlines
  Texts <- MCTexts
  MaxHops = 2
  MaxTime = 14
SPECIFICATION Spec
INVARIANTS TypeOK NotEarly NotLate ExpiredByCallerOnly
\* The call ends and the clock stops at its bound.
CHECK_DEADLOCK FALSE
