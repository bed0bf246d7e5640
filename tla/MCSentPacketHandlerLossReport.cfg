CONSTANTS
  MaxPacketNumber <- MCMaxPacketNumber
  MaxTime <- MCMaxTime
  LossDelay = 1
  CryptoTimeout = 1
  PTOTimeout = 1
  CongestionWindow = 3
  MaxTrackedSentPackets = 3
  MaxOutstandingSentPackets = 2
  SkipPacketNumbers = FALSE
  HonestPeer = TRUE
  CarriedAcks = {0}
SPECIFICATION Spec
INVARIANTS
  LossesReportedToCongestionControl
