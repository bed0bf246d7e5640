CONSTANTS
  Perspectives = {"client"}
  Misbehaviours = {}
  CloseDuringHandshake = TRUE
SPECIFICATION Spec
PROPERTIES CloseEventuallyReturns
CHECK_DEADLOCK FALSE
