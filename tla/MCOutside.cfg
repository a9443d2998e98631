\* Every validation, and every bundle of operations of an entrypoint.
SPECIFICATION OutsideSpec
CONSTANTS
  Configs = {"old", "new", "rogue"}
  FirstConfig = "old"
  Ops <- MCOps
  Requests <- MCRequests
  Deed <- MCDeed
  Signer <- MCSigner
  Fee <- MCFee
  Funds = 4
  MaxBundle = 3
CHECK_DEADLOCK FALSE
INVARIANTS
  DeployedSignerDecides
  NoTraceOfDeployment
  NoForgedAnswer
  DoneOnceAccepted
PROPERTIES
  OnlyHeirsAct
  ValidationEnds
