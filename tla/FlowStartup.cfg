SPECIFICATION FairSpec
CONSTANTS
  Hours = 4
  Cycle = 2
  Interval = 1
PROPERTY FlowLeadsToCycles
