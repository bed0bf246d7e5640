CONSTANTS
  MaxPacketNumber <- MCMaxPacketNumber
  MaxTime <- MCMaxTime
  LossDelay = 1
  CryptoTimeout = 1
  PTOTimeout = 1
  CongestionWindow = 3
  MaxTrackedSentPackets = 4
  MaxOutstandingSentPackets = 2
  SkipPacketNumbers = TRUE
  HonestPeer = FALSE
  CarriedAcks = {}
SPECIFICATION Spec
INVARIANTS
  TypeOK
  BytesInFlightMatchesHistory
  RetransmissionLinksIntact
  QueuedAtMostOnce
  NoInternalError
  AlarmArmedWhileOutstanding
  SendNoneRecoverable
  QueueHoldsNoDroppedLevel
