SPECIFICATION Spec
CONSTANTS
  Bucket = {0}
  HandDevices = {}
PROPERTY EstopStopsEverything
