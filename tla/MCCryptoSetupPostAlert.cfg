CONSTANTS
  Perspectives = {"server"}
  Misbehaviours = {"ticket"}
  CloseDuringHandshake = FALSE
SPECIFICATION Spec
PROPERTIES PostHandshakeErrorReported
CHECK_DEADLOCK FALSE
