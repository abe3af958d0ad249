SPECIFICATION Spec
CONSTANTS
  Hours = 24
  Cycle = 2
  Interval = 1
  Deliver = 1
INVARIANT NoPointLostAllDay
