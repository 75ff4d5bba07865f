CONSTANTS
  KeepaliveInterval = 2
  ExpMaxCount = 1
  ExpMinInterval = 2
  ExpPad = 0
  ExpPeriods = {1}
  PeerIdleTimeout = 3
  DataIdleTimeouts = {}
  HsRetryInterval = 1
  ConnectTimeout = 1
  EarlyDataMax = 2
  SendBufferPkts = 2
  MaxSends = 3
  RecvBufferPkts = 3
  MaxData = 4
  MaxSeq = 4
  MaxQueue = 2
  MaxAge = 0
  CmdQueue = 2
  DataQueue = 2
  MaxLate = 0
SPECIFICATION DriverSpec
INVARIANTS FlowsInOrder
CHECK_DEADLOCK FALSE
