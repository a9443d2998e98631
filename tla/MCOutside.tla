------------------------------ MODULE MCOutside ------------------------------
(***************************************************************************)
(* The two ways in that are not execute: an EIP-6492 validation of a       *)
(* signature (SigValidation6492) or an ERC-4337 entrypoint (Wallet4337).   *)
(* The entrypoint has two configurations and one that nobody put in        *)
(* charge, operations that pay, hand over, seize the wallet and take the   *)
(* hook away, and requests that pay and set the hooks.                     *)
(***************************************************************************)
EXTENDS Wallet4337

MCDeed ==
  [ pay    |-> [do |-> "pay"],
    hand   |-> [do |-> "rotate", to |-> "new"],
    seize  |-> [do |-> "rotate", to |-> "rogue"],
    unhook |-> [do |-> "removeHook", selector |-> "eip4337SelfExecute"],
    later  |-> [do |-> "pay"],
    tip    |-> [do |-> "pay"],
    hookV  |-> [do |-> "addHook", selector |-> "validateUserOp"],
    hookX  |-> [do |-> "addHook", selector |-> "eip4337SelfExecute"],
    hookY  |-> [do |-> "addHook", selector |-> "eip4337SelfExecute"] ]
MCOps == {"pay", "hand", "seize", "unhook", "later"}
MCRequests == {"tip", "hookV", "hookX", "hookY"}
MCSigner == [x \in DOMAIN MCDeed |->
               CASE x = "seize" -> "rogue" [] x \in {"later", "hookY"} -> "new" [] OTHER -> "old"]
MCFee == [op \in MCOps |-> IF op = "later" THEN 2 ELSE 1]

-----------------------------------------------------------------------------
VARIABLES
  way,    \* "validation" or "entrypoint": what is asked of the wallet
  entry, form, recovery, zero, start, chain, hadCode, redeploy, step, error,
  outcome, thrown, accepted

Sig == INSTANCE SigValidation6492 WITH phase <- step

validator == <<entry, form, recovery, zero, start, chain, hadCode, redeploy, step,
               error, outcome, thrown, accepted>>
outside == <<vars, validator, way>>

\* Of the validation that is not asked for there is one.
Unasked == CHOOSE q \in {<<e, f>> : e \in Sig!Entries, f \in Sig!Forms} : TRUE

OutsideInit ==
  /\ Init /\ Sig!Init
  /\ \/ way = "validation"
     \/ /\ way = "entrypoint" /\ <<entry, form>> = Unasked
        /\ recovery = "malformed" /\ ~zero /\ ~start.code /\ start.reply = "magic"

Validation == way = "validation" /\ Sig!Next /\ UNCHANGED <<vars, way>>
Entrypoint == way = "entrypoint" /\ Next /\ UNCHANGED <<validator, way>>

OutsideSpec ==
  /\ OutsideInit /\ [][Validation \/ Entrypoint]_outside
  /\ WF_outside(Validation)

-----------------------------------------------------------------------------
\* A signer that is deployed and accepts is taken at its word.
DeployedSignerDecides == Sig!DeployedSignerDecides

\* Validating for a signer that is not deployed leaves no trace.
NoTraceOfDeployment == Sig!NoTraceOfDeployment

\* Only the signer can make a signature valid, but for the zero address.
NoForgedAnswer == Sig!NoForgedAnswer

\* Every validation ends.
ValidationEnds == way = "validation" => Sig!ValidationEnds
=============================================================================
