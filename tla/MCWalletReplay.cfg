\* Replay protection under re-entrancy.
SPECIFICATION FairSpec
CONSTANTS
  c0 = c0
  c1 = c1
  c2 = c2
  rogue = rogue
  NoConfig = NoConfig
  NoBatch = NoBatch
  Configs <- AllConfigs
  SaltConfig <- c0
  Spaces <- ReplaySpaces
  SessionSpace <- ReplaySession
  NonceSize <- Size
  Batches <- ReplayBatches
  Body <- ReplayBody
  Requests <- ReplayRequests
  Signers <- ReplaySigners
  Forever = 9
  MaxDepth = 6
  MaxTime = 0
  TrustedConfigs <- Trusted
  TrustedRequests <- ReplayRequests
  TrustedBatches <- ReplayBatches
INVARIANTS
  NoReplay
  NoncesCountRequests
  NoncesNeverRewind
  AllOrNothing
PROPERTIES
  TransactionEnds
