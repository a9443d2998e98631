----------------------------- MODULE Signatures -----------------------------
(***************************************************************************)
(* Recovering who signed: a chain of signatures (ChainedSig), or the parts *)
(* of one signature (SequenceSig).                                         *)
(***************************************************************************)
EXTENDS ChainedSig

CONSTANTS
  Addresses, Weights, Thresholds, Members, NoAddress, MaxLeaves,
  IdleConfig,  \* the configuration, while a chain is recovered
  IdleHistory  \* the signatures that exist, while parts are

VARIABLES
  side,   \* "chain" or "parts": what is recovered
  config, signers, threshold, leaves, phase, workspace, weight, index, nodes,
  honest, level

Parts == INSTANCE SequenceSig

\* The members and the weights are as SequenceSig needs them.
ASSUME PartsAssumption == Parts!MemberAssumption

parts == <<config, signers, threshold, leaves, phase, workspace, weight, index, nodes,
           honest, level>>

\* Of what is not recovered there is one case.
ChainInit ==
  /\ side = "chain" /\ Init
  /\ Parts!Init /\ leaves = 0 /\ signers = {} /\ config = IdleConfig

PartsInit ==
  /\ side = "parts" /\ Parts!Init
  /\ Init /\ signed = IdleHistory

Chain == side = "chain" /\ Next /\ UNCHANGED <<parts, side>>
PartsOf == side = "parts" /\ Parts!Next /\ UNCHANGED <<vars, side>>

SideSpec == (ChainInit \/ PartsInit) /\ [][Chain \/ PartsOf]_<<vars, parts, side>>

-----------------------------------------------------------------------------
\* No choice of parts, leaves and witness forges any weight.
NoForgedWeight == Parts!NoForgedWeight

\* Leaving members out never loses the configuration.
MembersMayBeLeftOut == Parts!MembersMayBeLeftOut
=============================================================================
