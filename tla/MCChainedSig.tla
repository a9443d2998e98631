---------------------------- MODULE MCChainedSig ----------------------------
(* The configuration on chain, a rival with the same checkpoint, an older  *)
(* and a newer one, and every history of one to three signatures.          *)
EXTENDS ChainedSig

CONSTANTS old, current, rival, next

FourConfigs == {old, current, rival, next}
Checkpoints == old :> 1 @@ current :> 2 @@ rival :> 2 @@ next :> 3
\* For the order of checkpoints: two configurations newer than the current.
DistinctCheckpoints == [Checkpoints EXCEPT ![rival] = 3, ![next] = 4]
OnChain == {current}
OnePayload == {"transactions"}
SmallHistories == {{a, b, c} : a, b, c \in Signature}
=============================================================================
