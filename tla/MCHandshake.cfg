CONSTANTS
  Callers = {c1, c2}
  SocketIds = {s1, s2}
  Passphrases = {"p", "q"}
  KeyLens = {0, 24, 32}
  StreamIds = {"none", "", "sid"}
  Latencies = {1, 7}
  MssValues = {7, 8}
  UnitsPerMs = 2
  MaxMs = 2
  RequestFaults = {"none", "invalid", "version", "extension", "oldsrt", "stream", "congestion", "filter", "malformed"}
  ResponseFaults = {"none", "hsv4", "version0", "hsv4conclusion", "invalid", "isn", "extension", "oldsrt", "stream", "unsecured", "noecho", "advert"}
  Minute = 2
  ConnectTimeout = 2
  AcceptBacklog = 1
  MaxClock = 5
  MaxAccepts = 3
SPECIFICATION MCSpec
CONSTRAINT MCFocus
SYMMETRY MCSymmetry
INVARIANTS EndsAgree LatencyHonoured EncryptionEnforced CookieOutlivesCaller DemuxConsistent
CHECK_DEADLOCK FALSE
