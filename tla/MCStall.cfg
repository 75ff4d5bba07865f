CONSTANTS
  SeqSpace = 16
  InitialSndSeq = 14
  InitialRcvSeq = 14
  FlowWindow = 2
  SendBufferPkts = 2
  DropThreshold = 1
  AckAckThrottle = 0
  InitialRtt = 1
  InitialRttVar = 0
  MsgMod = 8
  MaxPush = 4
  MaxTime = 1
  TsMod = 6
  ClockOffset = 5
  AckNumbers = {}
  Windows = {}
  RttPairs <- MCRttPairs
  NakReports = {}
  RcvLatency = 1
  RcvBufferPkts = 2
  LightAckPackets = 2
  AckHistory = 1
  AckMod = 2
  MinAvailBuf = 2
  MaxNakWords = 2
  DriftCorrections = {0}
  MaxPktCount = 2
  DataPackets = {}
  DropReqs = {}
  MaxFullAcks = 2
  DecryptFailures = {FALSE}
SPECIFICATION FairLinkSpec
PROPERTY WindowReopens
CHECK_DEADLOCK FALSE
