SPECIFICATION SchedSpec
CONSTANTS
  Hours = 12
  Cycle = 3
  Interval = 1
  Deliver = 1
  FixedHours = {0, 3, 7, 11}
  FixedMin = 3
  Types = {"SAMPLING", "DRAIN", "DELIVERY"}
  Buckets = {1, 2}
INVARIANTS ModesTypeOK NeverTwice NoneEarly NoPointLost
INVARIANTS NoPhantomFlow SampledOnSignal SignalLatched
INVARIANTS SpacedRequestsIntact AutoFillsCycles
PROPERTY BeginsWithNext
