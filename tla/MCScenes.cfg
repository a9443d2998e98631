\* Who controls the wallet, or requests of the session space.
SPECIFICATION Spec
CONSTRAINT OneScene
CONSTANTS
  c0 = c0
  c1 = c1
  c2 = c2
  rogue = rogue
  NoConfig = NoConfig
  NoBatch = NoBatch
  Configs <- AllConfigs
  SaltConfig <- c0
  Spaces <- SceneSpaces
  SessionSpace <- Session
  NonceSize <- Size
  Batches <- SceneBatches
  Body <- SceneBody
  Requests <- SceneRequests
  Signers <- SceneSigners
  Forever = 9
  MaxDepth = 5
  MaxTime = 2
  TrustedConfigs <- Trusted
  TrustedRequests <- SceneTrusted
  TrustedBatches <- SceneTrustedBatches
INVARIANTS
  NoTakeover
  NeverLocked
  SessionOnce
PROPERTIES
  SessionOrder
  AuthorityIsGranted
  KeepsLog
