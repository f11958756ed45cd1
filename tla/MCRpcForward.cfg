CONSTANTS
  Procs = {"vsf", "web", "rtsp"}
  Forwards <- MCAllForwards
  Resendable = {}
  MaxResend = 0
SPECIFICATION Spec
INVARIANTS
  HandlerFound
CHECK_DEADLOCK FALSE
