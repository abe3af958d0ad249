SPECIFICATION OperatorSpec
CONSTANTS
  Bucket = {0}
  HandDevices = {"SAMPLING", "DRAIN_A", "OUTLET_A", "OUTLET_B"}
  N = 3
  Payload = {0, 1}
  LOGIN = 1
  Passwords = {0}
  Commands <- PanelCommands
INVARIANTS
  TypeOK LinkTypeOK NoOrphan BucketNotStuck EstopHoldsSampling AsOnArrival
PROPERTIES ImplementsRig ImplementsFifo
