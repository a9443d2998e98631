------------------------- MODULE SigValidation6492 -------------------------
(***************************************************************************)
(* UniversalSigValidator (EIP6492.sol): is a signature valid for a signer  *)
(* that may not be deployed yet?  A wrapped signature names a factory call *)
(* that deploys the signer, or changes it.  The call is made inside the    *)
(* validation, and isValidSig should leave no trace of it: it brings the   *)
(* answer back in a revert.                                                *)
(*                                                                         *)
(* Signer and factory are foreign code: the signer's replies, and what the *)
(* factory makes of the signer, are arbitrary.  A definition marked        *)
(* "Mistake" is a broken variant of the one after it.                      *)
(***************************************************************************)
EXTENDS Naturals

\* What a revert carries: nothing, one byte, or more.
OneByte == {"byte 0", "byte 1"}

\* Wrapped: ends in the suffix of ERC-6492.  Broken: shorter than the suffix,
\* or wrapped around something that does not decode.
Forms == {"plain", "wrapped", "broken"}

\* What isValidSignature of the signer does: it returns the magic value or
\* another one, something that is no bytes4, or reverts with an error.
Reverts == {"reverts byte 1", "reverts long"}
Replies == {"magic", "other", "undecodable"} \cup Reverts

\* The part of the chain that matters: the signer, and whether a factory
\* call has left its traces.
Chain == [code : BOOLEAN, reply : Replies, touched : BOOLEAN]

\* What a plain signature makes of itself: a length or a v that is refused, or
\* ecrecover gives the signer, somebody else, or the zero address.
Recoveries == {"malformed", "signer", "another", "nobody"}

Entries ==
  {"isValidSig", "isValidSigNoThrow", "isValidSigWithSideEffects",
   "isValidSigWithSideEffectsNoThrow"}

VARIABLES
  entry,      \* the function that was called
  form,       \* the signature
  recovery,   \* what ecrecover makes of it
  zero,       \* whether the signer is the zero address
  start,      \* the chain when the function was called
  chain,      \* the chain now
  hadCode,    \* contractCodeLen > 0
  redeploy,   \* deployAlreadyDeployed
  phase,      \* what isValidSigImpl does next, then what its caller does
  error,      \* the error that isValidSigImpl reverted with
  outcome,    \* what the function returns, or "reverted"
  thrown,     \* what it reverts with
  accepted    \* history: the signer's last reply was the magic value

vars == <<entry, form, recovery, zero, start, chain, hadCode, redeploy, phase, error,
          outcome, thrown, accepted>>
question == <<entry, form, recovery, zero, start>>
answer == <<outcome, thrown>>

AllowSideEffects ==
  entry \in {"isValidSigWithSideEffects", "isValidSigWithSideEffectsNoThrow"}

Init ==
  /\ entry \in Entries
  /\ form \in Forms
  /\ recovery \in Recoveries
  /\ zero \in BOOLEAN
  /\ start \in [code : BOOLEAN, reply : Replies, touched : {FALSE}]
  /\ zero => recovery # "signer" /\ ~ start.code
  /\ chain = start
  /\ hadCode = FALSE
  /\ redeploy = FALSE
  /\ phase = "begin"
  /\ error = "empty"
  /\ outcome = "none"
  /\ thrown = "empty"
  /\ accepted = FALSE

-----------------------------------------------------------------------------
(* isValidSigImpl. *)

\* The call of isValidSigImpl reverts, with all it did.
Raise(e) ==
  /\ error' = e
  /\ chain' = start
  /\ phase' = "caught"
  /\ UNCHANGED <<question, hadCode, redeploy, answer>>

Return(isValid) ==
  /\ outcome' = IF isValid THEN "true" ELSE "false"
  /\ phase' = "done"
  /\ UNCHANGED <<question, chain, hadCode, redeploy, error, thrown>>

\* Mistakes: the factory is called whatever the signer has to say; the retry
\* is not marked as one.
NeedsFactoryAlways(code) == form = "wrapped"
RetryUnmarked == FALSE

NeedsFactory(code) == form = "wrapped" /\ (~ code \/ redeploy)

RetryMark == TRUE

\* Reading the code of the signer and the signature.
Begin ==
  /\ phase = "begin"
  /\ form # "broken"
  /\ hadCode' = chain.code
  /\ phase' = IF NeedsFactory(chain.code) THEN "factory"
              ELSE IF form = "wrapped" \/ chain.code THEN "ask"
              ELSE "ecrecover"
  /\ UNCHANGED <<question, chain, redeploy, error, answer, accepted>>

BeginBroken ==
  /\ phase = "begin"
  /\ form = "broken"
  /\ UNCHANGED accepted
  /\ \E e \in {"empty", "long"} : Raise(e)

\* The factory may deploy the signer, change it, or do neither.  Nobody deploys
\* a contract at the zero address.
FactoryCall(reply, code) ==
  /\ phase = "factory"
  /\ chain.code => code
  /\ zero => ~ code
  /\ chain' = [code |-> code, reply |-> reply, touched |-> TRUE]
  /\ phase' = "ask"
  /\ UNCHANGED <<question, hadCode, redeploy, error, answer, accepted>>

\* Its error is wrapped in ERC6492DeployFailed.
FactoryFails == phase = "factory" /\ Raise("long") /\ UNCHANGED accepted

\* Mistake: the error of the signer is passed on as it came.
SignerErrorBare(reply) == IF reply = "reverts byte 1" THEN "byte 1" ELSE "long"

\* ERC1271Revert(err).
SignerError(reply) == "long"

MayRetry == ~ redeploy /\ hadCode

\* The experimental second attempt: isValidSigImpl calls itself.
Retry ==
  /\ redeploy' = RetryMark
  /\ phase' = "begin"
  /\ UNCHANGED <<question, chain, hadCode, error, answer>>

\* Mistake: the answer about a signer just deployed is returned.
MustUndoNever == FALSE

\* The answer comes back in a revert that undoes the deployment.
MustUndo == ~ hadCode /\ form = "wrapped" /\ ~ AllowSideEffects

Asking(replies) == phase = "ask" /\ chain.code /\ chain.reply \in replies

SignerAnswers ==
  LET isValid == chain.reply = "magic" IN
  /\ Asking({"magic", "other"})
  /\ accepted' = isValid
  /\ IF ~ isValid /\ MayRetry THEN Retry
     ELSE IF MustUndo THEN Raise(IF isValid THEN "byte 1" ELSE "byte 0")
     ELSE Return(isValid)

SignerReverts ==
  /\ Asking(Reverts)
  /\ accepted' = FALSE
  /\ IF MayRetry THEN Retry ELSE Raise(SignerError(chain.reply))

\* A signer without code, or whose reply is no bytes4, makes the validator
\* itself revert: the catch clause does not see it.
SignerUndecodable ==
  /\ Asking({"undecodable"}) \/ (phase = "ask" /\ ~ chain.code)
  /\ Raise("empty")
  /\ accepted' = FALSE

\* ecrecover(..) == _signer, where ecrecover gives zero for want of a key.
Recovered == recovery = "signer" \/ (zero /\ recovery = "nobody")

EcRecover ==
  /\ phase = "ecrecover"
  /\ UNCHANGED accepted
  /\ IF recovery = "malformed" THEN Raise("long") ELSE Return(Recovered)

-----------------------------------------------------------------------------
(* The caller of isValidSigImpl. *)

Answer(result) ==
  /\ outcome' = result
  /\ phase' = "done"
  /\ UNCHANGED <<question, chain, hadCode, redeploy, error, thrown, accepted>>

Throw(e) ==
  /\ outcome' = "reverted"
  /\ thrown' = e
  /\ phase' = "done"
  /\ UNCHANGED <<question, chain, hadCode, redeploy, error, accepted>>

\* revert(error, len) starts at the word with the length of the error, not
\* at the error: what goes out is both, cut to the size of the error.
Forwarded(e) == IF e = "empty" THEN e ELSE "length and error, cut"

\* A single byte is the answer of a validation that undid itself.
CatchAnswer ==
  /\ phase = "caught"
  /\ error \in OneByte
  /\ entry \in {"isValidSig", "isValidSigNoThrow"}
  /\ Answer(IF error = "byte 1" THEN "true" ELSE "false")

CatchError ==
  /\ phase = "caught"
  /\ \/ entry = "isValidSig" /\ error \notin OneByte /\ Throw(Forwarded(error))
     \/ entry = "isValidSigNoThrow" /\ error \notin OneByte /\ Answer("false")
     \/ entry = "isValidSigWithSideEffects" /\ Throw(error)
     \/ entry = "isValidSigWithSideEffectsNoThrow" /\ Answer("false")

Next ==
  \/ Begin
  \/ BeginBroken
  \/ \E reply \in Replies, code \in BOOLEAN : FactoryCall(reply, code)
  \/ FactoryFails
  \/ SignerAnswers
  \/ SignerReverts
  \/ SignerUndecodable
  \/ EcRecover
  \/ CatchAnswer
  \/ CatchError

Spec == Init /\ [][Next]_vars

\* A call that is running goes on running.
FairSpec == Spec /\ WF_vars(Next)

-----------------------------------------------------------------------------
(* Properties. *)

Done == phase = "done"

\* A signer that is deployed and accepts the signature is taken at its word:
\* no factory call is made on the way (isValidSigImpl asks the deployed
\* version first, and retries only when refused).
DeployedSignerDecides ==
  Done /\ start.code /\ start.reply = "magic" /\ form # "broken" =>
    outcome = "true" /\ chain = start

\* Validating for a signer that is not deployed leaves no trace, whatever
\* its factory call does, unless side effects are allowed (isValidSigImpl's
\* answer by revert, and every failure on the way there).
NoTraceOfDeployment ==
  Done /\ ~ start.code /\ ~ AllowSideEffects => chain = start

\* Only the signer can make a signature valid: no error that signer or
\* factory throw is taken for the byte that means true (ERC1271Revert,
\* ERC6492DeployFailed and the test of the length in isValidSig).  The zero
\* address is the exception: of it a plain signature is valid that recovers to
\* nobody, as the result of ecrecover is not tested for zero.
NoForgedAnswer ==
  Done /\ outcome = "true" =>
    IF zero THEN form = "plain" /\ recovery = "nobody"
    ELSE accepted \/ (recovery = "signer" /\ ~ start.code /\ form = "plain")

\* isValidSigImpl calls itself at most once, so every validation ends.
ValidationEnds == <>Done

\* EIP6492.sol:109: "in order to avoid side effects from the contract getting
\* deployed, the entire call will revert": of a deployed signer too.
NoSideEffects == Done /\ ~ AllowSideEffects => chain = start

\* EIP6492.sol:113: "all other errors are simply forwarded".
ErrorsAreForwarded == Done /\ outcome = "reverted" => thrown = error
=============================================================================
