CONSTANTS
  SeqSpace = 10
  InitialSndSeq = 8
  FlowWindow = 2
  SendBufferPkts = 3
  DropThreshold = 1
  AckAckThrottle = 0
  InitialRtt = 2
  InitialRttVar = 1
  MsgMod = 3
  MaxPush = 3
  MaxTime = 2
  TsMod = 4
  ClockOffset = 3
  AckNumbers = {1, 2}
  RttPairs <- MCRttPairs
  Windows = {1, 2}
  NakReports <- MCNakReports
SPECIFICATION SndSpec
INVARIANTS WindowAtBufferFront LossListInFlight SenderBounded DropRequestsReleased
PROPERTIES BufferedPacketsImmutable TimerMakesProgress
CHECK_DEADLOCK FALSE
