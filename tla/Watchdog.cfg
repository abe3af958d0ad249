SPECIFICATION FairSpec
CONSTANTS
  Second = 2
  Dog = 13
INVARIANTS TypeOK BiteNeedsSpin NoFalseAlarm
PROPERTY HangIsCured
