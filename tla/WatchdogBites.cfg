SPECIFICATION Spec
CONSTANTS
  Second = 2
  Dog = 13
INVARIANT BiteNeedsHang
