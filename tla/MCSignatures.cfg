\* Flat and nested chains over every small history, or every signature of up
\* to five parts, with every witness of known hashes.
SPECIFICATION SideSpec
CONSTANTS
  old = old
  current = current
  rival = rival
  next = next
  NoResult = NoResult
  Configs <- FourConfigs
  Checkpoint <- Checkpoints
  ValidImages <- OnChain
  Payloads <- OnePayload
  Histories <- SmallHistories
  MaxDepth = 2
  alice = alice
  bob = bob
  NoAddress = NoAddress
  Addresses <- Owners
  Weights <- OneWeight
  Thresholds <- OneThreshold
  Members <- Lists
  IdleConfig <- TwoOwners
  IdleHistory <- OldHistory
  MaxLeaves = 5
CHECK_DEADLOCK FALSE
INVARIANTS
  OnlyDelegatesSpeak
  SupersededStaySilent
  NoForgedWeight
  MembersMayBeLeftOut
