CONSTANTS
  Callers = {c1}
  SocketIds = {s1}
  Passphrases = {}
  KeyLens = {0}
  StreamIds = {"none"}
  Latencies = {1, 7}
  MssValues = {8}
  UnitsPerMs = 2
  MaxMs = 2
  RequestFaults = {"none"}
  ResponseFaults = {"none"}
  Minute = 1
  ConnectTimeout = 1
  AcceptBacklog = 1
  MaxClock = 0
  MaxAccepts = 1
SPECIFICATION HandshakeSpec
INVARIANTS LatencyWithinWire
CHECK_DEADLOCK FALSE
