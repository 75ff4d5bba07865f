CONSTANTS
  KeepaliveInterval = 2
  ExpMaxCount = 1
  ExpMinInterval = 2
  ExpPad = 1
  ExpPeriods = {1, 2}
  PeerIdleTimeout = 3
  DataIdleTimeouts = {5}
  HsRetryInterval = 1
  ConnectTimeout = 2
  EarlyDataMax = 1
  SendBufferPkts = 1
  MaxSends = 0
  RecvBufferPkts = 1
  MaxData = 1
  MaxSeq = 2
  MaxQueue = 2
  MaxAge = 7
  CmdQueue = 1
  DataQueue = 1
  MaxLate = 1
SPECIFICATION FairDriverSpec
INVARIANTS ShutdownIsLast PeerIdleIsSilence SilenceIsNoticed NeverSilent
PROPERTIES DeadlinesPass
CHECK_DEADLOCK FALSE
