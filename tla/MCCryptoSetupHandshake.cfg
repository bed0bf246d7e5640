CONSTANTS
  Perspectives = {"client", "server"}
  Misbehaviours = {"wrongType", "wrongLevel", "ticket"}
  CloseDuringHandshake = TRUE
SPECIFICATION Spec
INVARIANTS TypeOK WriteRecordNeverBlocks FinishedOnlyAtLevelEnd SealerAtWriteLevel
PROPERTIES HandshakeTerminates OpenerNotYetAvailableIsTemporary
CHECK_DEADLOCK FALSE
