SPECIFICATION Spec
CONSTANTS
  MotorCount = 2
  Shared = {1, 2}
  MaxRpm = 3
  UpdateHz = 2
  MinAccel = 1
  MaxAccel = 4
  AskedRpm = {0, 4}
  AskedAccel = {0, 4, 40000}
INVARIANTS TypeOK OneTurns OwnRate
PROPERTIES StopAnswered Settles
