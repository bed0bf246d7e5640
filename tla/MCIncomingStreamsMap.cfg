CONSTANTS
  a1 = a1
  a2 = a2
  a3 = a3
  Acceptors <- MCAcceptors
  MaxNumStreams = 2
  MaxStreamNum = 5
  HonestPeer = FALSE
SPECIFICATION Spec
INVARIANTS
  TypeOK
  UnacceptedStreamsKept
  NoDeferredDeleteLeaked
  StreamLimitRespected
PROPERTIES
  MaxStreamNeverDecreases
  WaitingAcceptorGetsStream
  ImplementsStreamQueue
  CloseReleasesAcceptors
