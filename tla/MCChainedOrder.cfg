\* The order of checkpoints over all the signatures of a nested chain.
SPECIFICATION Spec
CONSTANTS
  old = old
  current = current
  rival = rival
  next = next
  NoResult = NoResult
  Configs <- FourConfigs
  Checkpoint <- DistinctCheckpoints
  ValidImages <- OnChain
  Payloads <- OnePayload
  Histories <- SmallHistories
  MaxDepth = 2
CHECK_DEADLOCK FALSE
INVARIANT
  CheckpointsDescend
