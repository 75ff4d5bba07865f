CONSTANTS
  KmRefreshRate = 3
  KmPreannounce = 1
  KmMaxRetry = 1
  CntMod = 5
  MaxKeys = 4
  MaxLosses = 1
  PeerKms <- MCPeerKms
  AdoptedKms <- MCAdoptedKms
SPECIFICATION ExchangeSpec
INVARIANTS ConfirmedIsInstalled StreamStaysReadable
PROPERTY AnnouncementsConfirmed
