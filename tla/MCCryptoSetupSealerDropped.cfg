CONSTANTS
  Perspectives = {"client"}
  Misbehaviours = {}
  CloseDuringHandshake = FALSE
SPECIFICATION Spec
INVARIANTS DroppedSealerReportsKeysDropped
CHECK_DEADLOCK FALSE
