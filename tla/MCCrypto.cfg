CONSTANTS
  KmRefreshRate = 3
  KmPreannounce = 1
  KmMaxRetry = 2
  CntMod = 8
  MaxKeys = 3
  PeerKms <- MCPeerKms
  AdoptedKms <- MCAdoptedKms
  I31Max = 2147483647
  DefaultRefreshRate = 16777216
  DefaultPreannounce = 65536
  OwnPass = "own"
  Passphrases = {"own", "other"}
  Salts <- MCSalts
  KeyIds = {"a", "b"}
  Kms <- MCKms
  Seqs = {0, 1, 2, 3}
  CtrSpace = 4
  BitXor <- MCXor
SPECIFICATION MCSpec
INVARIANTS SlotRoles KeyUseBounded OutstandingIsCurrent KeyMaterialUsable
