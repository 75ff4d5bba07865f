CONSTANTS
  SeqSpace = 12
  InitialRcvSeq = 9
  RcvLatency = 1
  RcvBufferPkts = 4
  LightAckPackets = 2
  AckHistory = 1
  AckMod = 2
  MinAvailBuf = 2
  MaxNakWords = 2
  DriftCorrections = {0}
  MaxPktCount = 2
  MaxTime = 2
  TsMod = 8
  ClockOffset = 6
  DataPackets <- MCDataPackets
  DropReqs <- MCDropReqs
SPECIFICATION RcvSpec
INVARIANTS LossShape HintSound AckOrder
PROPERTIES AckNeverRegresses NoSilentLoss
CHECK_DEADLOCK FALSE
