CONSTANTS
  Perspectives = {"server"}
  Misbehaviours = {"wrongType", "wrongLevel"}
  CloseDuringHandshake = TRUE
SPECIFICATION Spec
PROPERTIES AlertEventuallyReceived
CHECK_DEADLOCK FALSE
