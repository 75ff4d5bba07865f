CONSTANTS
  Callers = {c1}
  SocketIds = {s1}
  Passphrases = {}
  KeyLens = {0}
  StreamIds = {"none"}
  Latencies = {0}
  MssValues = {8}
  UnitsPerMs = 2
  MaxMs = 2
  RequestFaults = {"none"}
  ResponseFaults = {"none"}
  Minute = 1
  ConnectTimeout = 9
  AcceptBacklog = 1
  MaxClock = 1
  MaxAccepts = 2
SPECIFICATION FairHandshakeSpec
PROPERTIES CallersAnswered
CHECK_DEADLOCK FALSE
