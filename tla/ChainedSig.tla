----------------------------- MODULE ChainedSig -----------------------------
(***************************************************************************)
(* ModuleAuth._signatureValidation: recovering, from one signature, the    *)
(* configuration that speaks for the wallet.  A chained signature is a     *)
(* list of signatures: the first signs the digest, each later one signs    *)
(* that the configuration recovered before it may take over, and the last  *)
(* must be the configuration the wallet has on chain.  Any of them may be  *)
(* chained itself, so chainedRecover calls signatureRecovery, which calls  *)
(* chainedRecover: the calls in progress are the stack.  Whoever submits   *)
(* the signature chooses every step.                                       *)
(*                                                                         *)
(* A definition marked "Mistake" is a broken variant of the one after it.  *)
(***************************************************************************)
EXTENDS Integers, SequencesExt

CONSTANTS
  Configs,      \* image hashes
  Checkpoint,   \* Checkpoint[c]: the checkpoint that c contains
  ValidImages,  \* the image hashes that _isValidImage accepts
  Payloads,     \* digests a caller may ask about
  Histories,    \* what may have been signed: sets of signatures
  NoResult,     \* nothing has been recovered
  MaxDepth      \* bound: chained signatures within one another

\* A digest is a payload's, or _hashSetImageHashStruct of a configuration.
SetImageHash(c) == [set |-> c]

Payload(p) == [data |-> p]
Digest == [data : Payloads] \cup [set : Configs]

\* A subdigest binds a digest to this chain (SequenceBaseSig.subDigest) or
\* to no chain (SequenceNoChainIdSig.subdigest).
Scopes == {"thisChain", "anyChain"}
Subdigest == [scope : Scopes, digest : Digest]

\* Owners of enough weight in configuration `by` signed subdigest `of`.
Signature == [by : Configs, of : Subdigest]
Signed(c, subdigest) == [by |-> c, of |-> subdigest]

\* What signatureRecovery returns; enough stands for weight >= threshold.
Recovered ==
  [enough : BOOLEAN, image : Configs, subdigest : Subdigest, checkpoint : Nat]

\* A call of chainedRecover: its digest and the values it would return now.
Frame == [digest : Digest, last : Recovered \cup {NoResult}]

ASSUME ConfigAssumption ==
  /\ Checkpoint \in [Configs -> Nat]
  /\ ValidImages \subseteq Configs
  /\ Histories \subseteq SUBSET Signature
  /\ NoResult \notin Recovered

VARIABLES
  signed,   \* the signatures that exist
  asked,    \* the digest to validate
  stack,    \* the calls of chainedRecover in progress, innermost last
  result,   \* what signatureRecovery has just returned to its caller
  status,   \* "recovering", then the answer
  read      \* history: checkpoints of the signatures read, in order

vars == <<signed, asked, stack, result, status, read>>

Init ==
  /\ signed \in Histories
  /\ asked \in {Payload(p) : p \in Payloads}
  /\ stack = <<>>
  /\ result = NoResult
  /\ status = "recovering"
  /\ read = <<>>

-----------------------------------------------------------------------------
Top == stack[Len(stack)]
InChain == stack # <<>>
Recovering == status = "recovering" /\ result = NoResult
Returned == status = "recovering" /\ result # NoResult

\* Mistake: every signature of a chain is checked against
\* the message.
NextDigestSame(f) == f.digest

\* The digest the next signature must sign: in a chain, the chain's own
\* first, then the hash of the configuration recovered last.
NextDigest(f) ==
  IF f.last = NoResult THEN f.digest ELSE SetImageHash(f.last.image)

Wanted == IF InChain THEN NextDigest(Top) ELSE asked

\* A LEGACY, DYNAMIC or NO_CHAIN_ID signature.  Any configuration can be
\* written down; only its signatures give it enough weight.
RecoverBase(c, scope, enough) ==
  LET subdigest == [scope |-> scope, digest |-> Wanted] IN
  /\ Recovering
  /\ enough => Signed(c, subdigest) \in signed
  /\ result' = [enough |-> enough, image |-> c, subdigest |-> subdigest,
                checkpoint |-> Checkpoint[c]]
  /\ read' = Append(read, Checkpoint[c])
  /\ UNCHANGED <<signed, asked, stack, status>>

\* A CHAINED signature: chainedRecover is called.
EnterChain ==
  /\ Recovering
  /\ Len(stack) < MaxDepth
  /\ stack' = Append(stack, [digest |-> Wanted, last |-> NoResult])
  /\ UNCHANGED <<signed, asked, result, status, read>>

\* Mistake: equal checkpoints pass.
LinkHoldsAtPar(last, next) ==
  /\ next.enough
  /\ last # NoResult => next.checkpoint <= last.checkpoint

\* What chainedRecover requires of a part, given the parts before it.
LinkHolds(last, next) ==
  /\ next.enough
  /\ last # NoResult => next.checkpoint < last.checkpoint

\* The return values after a part: its own, but for the subdigest.
Linked(last, next) ==
  IF last = NoResult THEN next ELSE [next EXCEPT !.subdigest = last.subdigest]

AcceptLink ==
  /\ Returned
  /\ InChain
  /\ LinkHolds(Top.last, result)
  /\ stack' = [stack EXCEPT ![Len(stack)].last = Linked(@, result)]
  /\ result' = NoResult
  /\ UNCHANGED <<signed, asked, status, read>>

\* LowWeightChainedSignature or WrongChainedCheckpointOrder.
RefuseLink ==
  /\ Returned
  /\ InChain
  /\ ~ LinkHolds(Top.last, result)
  /\ status' = "reverted"
  /\ UNCHANGED <<signed, asked, stack, result, read>>

\* No part is left: chainedRecover returns.
EndChain ==
  /\ Recovering
  /\ InChain
  /\ Top.last # NoResult
  /\ stack' = Front(stack)
  /\ result' = Top.last
  /\ UNCHANGED <<signed, asked, status, read>>

\* An unknown type, a part that overruns the signature, a nested ERC-1271
\* signature that is refused: any read may revert.
Malformed ==
  /\ Recovering
  /\ status' = "reverted"
  /\ UNCHANGED <<signed, asked, stack, result, read>>

\* Back in _signatureValidation.
Validate ==
  /\ Returned
  /\ ~ InChain
  /\ status' = IF result.enough /\ result.image \in ValidImages
               THEN "valid" ELSE "invalid"
  /\ UNCHANGED <<signed, asked, stack, result, read>>

Next ==
  \/ \E c \in Configs, scope \in Scopes, enough \in BOOLEAN : RecoverBase(c, scope, enough)
  \/ EnterChain
  \/ AcceptLink
  \/ RefuseLink
  \/ EndChain
  \/ Malformed
  \/ Validate

Spec == Init /\ [][Next]_vars

-----------------------------------------------------------------------------
(* Properties. *)

Status == {"recovering", "valid", "invalid", "reverted"}

TypeOK ==
  /\ signed \in SUBSET Signature
  /\ asked \in Digest
  /\ stack \in Seq(Frame)
  /\ result \in Recovered \cup {NoResult}
  /\ status \in Status
  /\ read \in Seq(Nat)

\* d signed, for this chain or for any, that c takes over.
Delegates(signatures, d, c) ==
  \E scope \in Scopes :
    Signed(d, [scope |-> scope, digest |-> SetImageHash(c)]) \in signatures

\* A family of configurations that holds whoever its members delegate to.
ClosedUnderDelegation(signatures, S) ==
  \A d \in S, c \in Configs : Delegates(signatures, d, c) => c \in S

\* A signature is valid only if the configuration on chain signed this very
\* digest or delegated, step by step, to one that did (chainedRecover and
\* _signatureValidation, whatever is nested in what).
OnlyDelegatesSpeak ==
  status = "valid" =>
    /\ result.subdigest.digest = asked
    /\ \E c \in ValidImages :
         \A S \in SUBSET Configs :
           c \in S /\ ClosedUnderDelegation(signed, S) =>
             \E d \in S : Signed(d, result.subdigest) \in signed

\* A configuration that the one on chain has superseded stays silent: who
\* signed is on chain itself or has a later checkpoint than what is
\* (WrongChainedCheckpointOrder), even by way of nested chains.
SupersededStaySilent ==
  status = "valid" =>
    \E d \in Configs :
      /\ Signed(d, result.subdigest) \in signed
      /\ d \in ValidImages \/ Checkpoint[d] > result.checkpoint

\* SequenceChainedSig.sol:118: "Checkpoints must be provided in descending
\* order", over all the signatures a valid signature is made of (at least
\* never ascending, while WrongChainedCheckpointOrder refuses equality too).
CheckpointsDescend ==
  status = "valid" =>
    \A i, j \in 1 .. Len(read) : i < j => read[i] >= read[j]
=============================================================================
