SPECIFICATION ConfirmSpec
CONSTANTS
  N = 3
  Payload = {0, 1}
  LOGIN = 1
  Passwords = {0}
  Commands <- ConfirmCommands
INVARIANT ConfirmIsHandled
