---------------------------- MODULE OutsideProofs ----------------------------
(***************************************************************************)
(* Theorems about the two ways into a wallet that are not execute.  The    *)
(* inductive invariant of the validation (ValidationInv) says at each step *)
(* what has been asked and undone so far; that of the entrypoint           *)
(* (EntrypointInv) adds to its counts that what waits in a bundle has been *)
(* consumed and has not run; HeirsInv says who signed what was consumed.   *)
(***************************************************************************)
EXTENDS MCOutside, FiniteSetTheorems, SequenceTheorems, TLAPS

-----------------------------------------------------------------------------
(* The validation of a signature. *)

ValidationTypes ==
  /\ entry \in Sig!Entries /\ form \in Sig!Forms
  /\ recovery \in Sig!Recoveries /\ zero \in BOOLEAN
  /\ start \in Sig!Chain /\ chain \in Sig!Chain
  /\ hadCode \in BOOLEAN /\ redeploy \in BOOLEAN /\ accepted \in BOOLEAN
  /\ step \in {"begin", "factory", "ask", "ecrecover", "caught", "done"}
  /\ error \in {"empty", "long", "byte 0", "byte 1"}
  /\ outcome \in {"none", "true", "false", "reverted"}

\* A deployed signer that accepts is asked first, and never again.
AskedFirst ==
  start.code /\ start.reply = "magic" /\ form # "broken" =>
    /\ chain = start /\ ~ redeploy
    /\ step \in {"begin", "ask", "done"}
    /\ step = "ask" => hadCode
    /\ step = "done" => outcome = "true"

\* For a signer without code there is one attempt.  It changes the chain for
\* as long as the signer is asked.
OneAttempt ==
  ~ start.code =>
    /\ ~ redeploy /\ ~ hadCode
    /\ step \in {"begin", "factory", "ecrecover", "caught"} => chain = start
    /\ step = "ask" => form = "wrapped"
    /\ step = "done" /\ ~ Sig!AllowSideEffects => chain = start

\* Whom ecrecover takes for the signer of a plain signature.
Recovers == ~ start.code /\ form = "plain" /\ Sig!Recovered

\* The byte that means true is the signer's word, or ecrecover's.
Vouched ==
  /\ form = "plain" => chain = start
  /\ step = "factory" => form = "wrapped"
  /\ step = "ecrecover" => ~ start.code /\ form = "plain"
  /\ step = "caught" /\ error = "byte 1" => accepted
  /\ step = "done" /\ outcome = "true" => accepted \/ Recovers

\* The zero address has no key and no code, and is never asked.
ZeroIsNobody == zero => recovery # "signer" /\ ~ chain.code /\ ~ start.code /\ ~ accepted

ValidationInv == ValidationTypes /\ AskedFirst /\ OneAttempt /\ Vouched /\ ZeroIsNobody

-----------------------------------------------------------------------------
(* The entrypoint. *)

\* The deeds that paid.
Payers == {x \in Ops \cup Requests : runs[x] > 0 /\ Deed[x].do = "pay"}

\* What waits in the bundle is consumed, has not run and is in it once.
BundleOK ==
  /\ \A i \in 1 .. Len(bundle) : bundle[i] \in consumed /\ runs[bundle[i]] = 0
  /\ \A i, j \in 1 .. Len(bundle) : i # j => bundle[i] # bundle[j]

EntrypointInv ==
  /\ TypeOK
  /\ BundleOK
  /\ \A x \in Ops \cup Requests : runs[x] <= IF x \in consumed THEN 1 ELSE 0
  /\ IsFiniteSet(Payers)
  /\ Funds = funds + paid + Cardinality(Payers)

-----------------------------------------------------------------------------
(* The validation keeps its invariant. *)

\* A validation starts with the chain as it is.
LEMMA ValidationStarts == Sig!Init => ValidationInv
<1> SUFFICES ASSUME Sig!Init PROVE ValidationInv
  OBVIOUS
<1>1. /\ start \in Sig!Chain /\ chain = start /\ step = "begin" /\ outcome = "none"
      /\ ~ redeploy /\ ~ hadCode /\ ~ accepted
      /\ zero => recovery # "signer" /\ ~ start.code
  BY DEF Sig!Init, Sig!Chain
<1>2. ValidationTypes
  BY <1>1 DEF Sig!Init, ValidationTypes
<1> QED BY <1>1, <1>2 DEF ValidationInv, AskedFirst, OneAttempt, Vouched, ZeroIsNobody,
                          Recovers, Sig!Recovered

\* A failure of isValidSigImpl undoes what it did to the chain.
LEMMA RaiseKeeps ==
  ASSUME ValidationInv, NEW e \in {"empty", "long", "byte 0", "byte 1"}, Sig!Raise(e),
         ~ (start.code /\ start.reply = "magic" /\ form # "broken"),
         accepted' \in BOOLEAN, e = "byte 1" => accepted', zero => ~ accepted'
  PROVE  ValidationInv'
<1>1. /\ error' = e /\ chain' = start /\ step' = "caught"
      /\ UNCHANGED <<entry, form, recovery, zero, start, hadCode, redeploy, outcome, thrown>>
  BY DEF Sig!Raise, Sig!question, Sig!answer
<1>2. ValidationTypes'
  BY <1>1 DEF ValidationInv, ValidationTypes
<1> QED BY <1>1, <1>2 DEF ValidationInv, AskedFirst, OneAttempt, Vouched, ZeroIsNobody,
                          Recovers, Sig!Recovered

\* Only a wrapped signature of a signer without code leads to the factory.
LEMMA BeginKeeps == ValidationInv /\ Sig!Begin => ValidationInv'
<1> SUFFICES ASSUME ValidationInv, Sig!Begin PROVE ValidationInv'
  OBVIOUS
<1>1. /\ step = "begin" /\ form \in {"plain", "wrapped"} /\ hadCode' = chain.code
      /\ step' = IF form = "wrapped" /\ (~ chain.code \/ redeploy) THEN "factory"
                 ELSE IF form = "wrapped" \/ chain.code THEN "ask"
                 ELSE "ecrecover"
      /\ UNCHANGED <<entry, form, recovery, zero, start, chain, redeploy, error, outcome, thrown,
                     accepted>>
  BY DEF Sig!Begin, Sig!NeedsFactory, Sig!question, Sig!answer, Sig!Forms, ValidationInv,
         ValidationTypes
<1>2. ValidationTypes'
  BY <1>1, ZenonT(60) DEF ValidationInv, ValidationTypes, Sig!Chain
<1>3. AskedFirst'
  BY <1>1 DEF ValidationInv, AskedFirst, ValidationTypes, Sig!Chain
<1>4. OneAttempt' /\ Vouched' /\ ZeroIsNobody'
  BY <1>1 DEF ValidationInv, OneAttempt, Vouched, ValidationTypes, Sig!Chain, ZeroIsNobody,
              Recovers, Sig!Recovered, Sig!AllowSideEffects
<1> QED BY <1>2, <1>3, <1>4 DEF ValidationInv

\* The factory is called for a wrapped signature only.
LEMMA FactoryKeeps ==
  ASSUME NEW reply \in Sig!Replies, NEW code \in BOOLEAN, ValidationInv,
         Sig!FactoryCall(reply, code)
  PROVE  ValidationInv'
<1>1. /\ step = "factory" /\ step' = "ask" /\ (zero => ~ code)
      /\ chain' = [code |-> code, reply |-> reply, touched |-> TRUE]
      /\ UNCHANGED <<entry, form, recovery, zero, start, hadCode, redeploy, error, outcome, thrown,
                     accepted>>
  BY DEF Sig!FactoryCall, Sig!question, Sig!answer
<1>2. form = "wrapped" /\ ~ (start.code /\ start.reply = "magic" /\ form # "broken")
  BY <1>1 DEF ValidationInv, Vouched, AskedFirst
<1>3. ValidationTypes'
  BY <1>1, ZenonT(60) DEF ValidationInv, ValidationTypes, Sig!Chain
<1> QED BY <1>1, <1>2, <1>3
    DEF ValidationInv, AskedFirst, OneAttempt, Vouched, ZeroIsNobody, Recovers,
        Sig!Recovered, Sig!AllowSideEffects

\* A second attempt is for a signer that was deployed and refused.
LEMMA RetryKeeps ==
  ASSUME ValidationInv, Sig!Retry, Sig!MayRetry, step = "ask", accepted' \in BOOLEAN,
         chain.reply # "magic"
  PROVE  ValidationInv'
<1>1. /\ hadCode /\ redeploy' = TRUE /\ step' = "begin"
      /\ UNCHANGED <<entry, form, recovery, zero, start, chain, hadCode, error, outcome, thrown>>
  BY DEF Sig!Retry, Sig!RetryMark, Sig!MayRetry, Sig!question, Sig!answer
<1>2. start.code /\ ~ (start.code /\ start.reply = "magic" /\ form # "broken")
  BY <1>1 DEF ValidationInv, AskedFirst, OneAttempt, ValidationTypes, Sig!Chain
<1>3. ValidationTypes'
  BY <1>1 DEF ValidationInv, ValidationTypes
<1> QED BY <1>1, <1>2, <1>3 DEF ValidationInv, AskedFirst, OneAttempt, Vouched, ZeroIsNobody,
                          Recovers, Sig!Recovered

\* An answer that is given with the chain as the entry may leave it.
LEMMA ReturnKeeps ==
  ASSUME ValidationInv, NEW isValid \in BOOLEAN, Sig!Return(isValid), accepted' \in BOOLEAN,
         start.code /\ start.reply = "magic" /\ form # "broken" => isValid,
         isValid => accepted' \/ Recovers, zero => ~ accepted',
         ~ start.code /\ ~ Sig!AllowSideEffects => chain = start
  PROVE  ValidationInv'
<1>1. /\ outcome' = (IF isValid THEN "true" ELSE "false") /\ step' = "done"
      /\ UNCHANGED <<entry, form, recovery, zero, start, chain, hadCode, redeploy, error, thrown>>
  BY DEF Sig!Return, Sig!question
<1>2. ValidationTypes'
  BY <1>1 DEF ValidationInv, ValidationTypes
<1> QED BY <1>1, <1>2
    DEF ValidationInv, AskedFirst, OneAttempt, Vouched, ZeroIsNobody, Recovers,
        Sig!Recovered, Sig!AllowSideEffects

\* The answer of a signer just deployed comes back in a revert.
LEMMA SignerAnswersKeeps == ValidationInv /\ Sig!SignerAnswers => ValidationInv'
<1> SUFFICES ASSUME ValidationInv, Sig!SignerAnswers PROVE ValidationInv'
  OBVIOUS
<1> DEFINE isValid == chain.reply = "magic"
<1>1. step = "ask" /\ chain.code /\ accepted' = isValid /\ ~ zero
  BY DEF Sig!SignerAnswers, Sig!Asking, ValidationInv, ZeroIsNobody
<1>2. CASE ~ isValid /\ Sig!MayRetry
  <2>1. Sig!Retry
    BY <1>2 DEF Sig!SignerAnswers
  <2> QED BY <1>1, <1>2, <2>1, RetryKeeps
<1>3. CASE ~ (~ isValid /\ Sig!MayRetry) /\ Sig!MustUndo
  <2>1. Sig!Raise(IF isValid THEN "byte 1" ELSE "byte 0")
    BY <1>3 DEF Sig!SignerAnswers
  <2>2. ~ (start.code /\ start.reply = "magic" /\ form # "broken")
    BY <1>1, <1>3 DEF ValidationInv, AskedFirst, Sig!MustUndo
  <2>3. CASE isValid
    <3>1. Sig!Raise("byte 1")
      BY <2>1, <2>3
    <3> QED BY <1>1, <2>2, <2>3, <3>1, RaiseKeeps
  <2>4. CASE ~ isValid
    <3>1. Sig!Raise("byte 0")
      BY <2>1, <2>4
    <3> QED BY <1>1, <2>2, <3>1, RaiseKeeps
  <2> QED BY <2>3, <2>4
<1>4. CASE ~ (~ isValid /\ Sig!MayRetry) /\ ~ Sig!MustUndo
  <2>1. Sig!Return(isValid)
    BY <1>4 DEF Sig!SignerAnswers
  <2>2. start.code /\ start.reply = "magic" /\ form # "broken" => isValid
    BY DEF ValidationInv, AskedFirst
  <2>3. ~ start.code /\ ~ Sig!AllowSideEffects => chain = start
    BY <1>1, <1>4 DEF ValidationInv, OneAttempt, Sig!MustUndo, Sig!AllowSideEffects
  <2> HIDE DEF isValid
  <2>4. isValid \in BOOLEAN
    BY DEF isValid
  <2> QED BY <1>1, <2>1, <2>2, <2>3, <2>4, ReturnKeeps
<1> QED BY <1>2, <1>3, <1>4

\* An error of the signer is wrapped: it is never a single byte.
LEMMA SignerRevertsKeeps == ValidationInv /\ Sig!SignerReverts => ValidationInv'
<1> SUFFICES ASSUME ValidationInv, Sig!SignerReverts PROVE ValidationInv'
  OBVIOUS
<1>1. step = "ask" /\ chain.reply \in Sig!Reverts /\ accepted' = FALSE
  BY DEF Sig!SignerReverts, Sig!Asking
<1>2. chain.reply # "magic"
  BY <1>1 DEF Sig!Reverts
<1>3. CASE Sig!MayRetry
  <2>1. Sig!Retry
    BY <1>3 DEF Sig!SignerReverts
  <2> QED BY <1>1, <1>2, <1>3, <2>1, RetryKeeps
<1>4. CASE ~ Sig!MayRetry
  <2>1. Sig!Raise("long")
    BY <1>4 DEF Sig!SignerReverts, Sig!SignerError
  <2>2. ~ (start.code /\ start.reply = "magic" /\ form # "broken")
    BY <1>1, <1>2 DEF ValidationInv, AskedFirst
  <2> QED BY <1>1, <2>1, <2>2, RaiseKeeps
<1> QED BY <1>3, <1>4

\* A reply that is no bytes4 makes the validator revert with nothing.
LEMMA SignerUndecodableKeeps == ValidationInv /\ Sig!SignerUndecodable => ValidationInv'
<1> SUFFICES ASSUME ValidationInv, Sig!SignerUndecodable PROVE ValidationInv'
  OBVIOUS
<1>1. /\ step = "ask" /\ (chain.reply = "undecodable" \/ ~ chain.code)
      /\ accepted' = FALSE /\ Sig!Raise("empty")
  BY DEF Sig!SignerUndecodable, Sig!Asking
<1>2. ~ (start.code /\ start.reply = "magic" /\ form # "broken")
  BY <1>1 DEF ValidationInv, AskedFirst
<1> QED BY <1>1, <1>2, RaiseKeeps

\* ecrecover is for a plain signature of an address without code.
LEMMA EcRecoverKeeps == ValidationInv /\ Sig!EcRecover => ValidationInv'
<1> SUFFICES ASSUME ValidationInv, Sig!EcRecover PROVE ValidationInv'
  OBVIOUS
<1>1. /\ step = "ecrecover" /\ accepted' = accepted /\ ~ start.code /\ form = "plain"
      /\ accepted \in BOOLEAN /\ chain = start /\ (zero => ~ accepted)
  BY DEF Sig!EcRecover, ValidationInv, Vouched, ZeroIsNobody, ValidationTypes
<1>2. CASE Sig!Return(Sig!Recovered)
  <2>1. Sig!Recovered \in BOOLEAN /\ (Sig!Recovered => Recovers)
    BY <1>1 DEF Sig!Recovered, Recovers, ValidationInv, ValidationTypes
  <2> QED BY <1>1, <1>2, <2>1, ReturnKeeps
<1>3. CASE Sig!Raise("long")
  BY <1>1, <1>3, RaiseKeeps
<1> QED BY <1>2, <1>3 DEF Sig!EcRecover

\* The caller of isValidSigImpl has an error and the chain as it was.
LEMMA CatchKeeps == ValidationInv /\ (Sig!CatchAnswer \/ Sig!CatchError) => ValidationInv'
<1> SUFFICES ASSUME ValidationInv, Sig!CatchAnswer \/ Sig!CatchError PROVE ValidationInv'
  OBVIOUS
<1>1. /\ step = "caught" /\ step' = "done" /\ outcome' \in {"true", "false", "reverted"}
      /\ outcome' = "true" => error = "byte 1"
      /\ UNCHANGED <<entry, form, recovery, zero, start, chain, hadCode, redeploy, error, accepted>>
  BY DEF Sig!CatchAnswer, Sig!CatchError, Sig!Answer, Sig!Throw, Sig!question
<1>2. ValidationTypes'
  BY <1>1 DEF ValidationInv, ValidationTypes
<1> QED BY <1>1, <1>2
    DEF ValidationInv, AskedFirst, OneAttempt, Vouched, ZeroIsNobody, Recovers,
        Sig!Recovered, Sig!AllowSideEffects

\* Every step of a validation keeps the invariant.
LEMMA ValidationStep == ValidationInv /\ Sig!Next => ValidationInv'
<1> SUFFICES ASSUME ValidationInv, Sig!Next PROVE ValidationInv'
  OBVIOUS
<1>1. CASE Sig!BeginBroken \/ Sig!FactoryFails
  <2>1. PICK e \in {"empty", "long"} : Sig!Raise(e) /\ accepted' = accepted
    BY <1>1 DEF Sig!BeginBroken, Sig!FactoryFails
  <2>2. /\ accepted \in BOOLEAN /\ (zero => ~ accepted)
        /\ ~ (start.code /\ start.reply = "magic" /\ form # "broken")
    BY <1>1 DEF ValidationInv, ValidationTypes, AskedFirst, ZeroIsNobody, Sig!BeginBroken,
                Sig!FactoryFails
  <2> QED BY <2>1, <2>2, RaiseKeeps
<1>2. ASSUME NEW reply \in Sig!Replies, NEW code \in BOOLEAN, Sig!FactoryCall(reply, code)
      PROVE  ValidationInv'
  BY <1>2, FactoryKeeps
<1> QED BY <1>1, <1>2, BeginKeeps, SignerAnswersKeeps, SignerRevertsKeeps,
           SignerUndecodableKeeps, EcRecoverKeeps, CatchKeeps DEF Sig!Next

-----------------------------------------------------------------------------
(* The entrypoint keeps its invariant. *)

\* Nothing has been paid at the start.
LEMMA EntrypointStarts == Init => EntrypointInv
<1> SUFFICES ASSUME Init PROVE EntrypointInv
  OBVIOUS
<1>1. /\ \A x \in Ops \cup Requests : runs[x] = 0
      /\ bundle = <<>> /\ Len(bundle) = 0 /\ bundle \in Seq(Ops)
      /\ funds = Funds /\ paid = 0 /\ Funds \in Nat /\ MaxBundle \in Nat \ {0}
  BY Wallet4337Assumption, EmptySeq DEF Init
<1>2. TypeOK
  <2>1. funds \in 0 .. Funds /\ paid \in 0 .. Funds /\ Len(bundle) <= MaxBundle
    BY <1>1
  <2>2. runs \in [Ops \cup Requests -> Nat] /\ config \in Configs
    BY Wallet4337Assumption DEF Init
  <2> QED BY <1>1, <2>1, <2>2 DEF Init, TypeOK
<1>3. Payers = {}
  BY <1>1 DEF Payers
<1>4. IsFiniteSet(Payers) /\ Cardinality(Payers) = 0
  BY <1>3, FS_EmptySet
<1>5. BundleOK
  BY <1>1 DEF BundleOK
<1>6. \A x \in Ops \cup Requests : runs[x] <= IF x \in consumed THEN 1 ELSE 0
  BY <1>1
<1>7. Funds = funds + paid + Cardinality(Payers)
  BY <1>1, <1>4
<1> QED BY <1>2, <1>4, <1>5, <1>6, <1>7 DEF EntrypointInv

\* The funds are bounded by what there was at the start.
LEMMA FundsBounded ==
  ASSUME NEW f \in Nat, NEW p \in Nat, NEW S, IsFiniteSet(S), Funds = f + p + Cardinality(S)
  PROVE  f \in 0 .. Funds /\ p \in 0 .. Funds
<1>1. Cardinality(S) \in Nat
  BY FS_CardinalityType
<1> QED BY <1>1

\* A deed done for the first time is paid for from the balance.
LEMMA DoKeeps ==
  ASSUME EntrypointInv, NEW x \in Ops \cup Requests, Do(x), runs[x] = 0, paid' = paid
  PROVE  /\ config' \in Configs /\ hooks' \subseteq Selectors
         /\ runs' \in [Ops \cup Requests -> Nat]
         /\ \A y \in Ops \cup Requests : runs'[y] = IF y = x THEN 1 ELSE runs[y]
         /\ IsFiniteSet(Payers')
         /\ Funds = funds' + paid' + Cardinality(Payers')
         /\ funds' \in 0 .. Funds /\ paid' \in 0 .. Funds
<1> DEFINE d == Deed[x]
<1>1. /\ d \in Deeds /\ Funds \in Nat
      /\ funds \in Nat /\ paid \in Nat /\ runs \in [Ops \cup Requests -> Nat]
      /\ IsFiniteSet(Payers) /\ Funds = funds + paid + Cardinality(Payers)
      /\ config \in Configs /\ hooks \subseteq Selectors
  BY Wallet4337Assumption DEF EntrypointInv, TypeOK
<1>2. Cardinality(Payers) \in Nat
  BY <1>1, FS_CardinalityType
<1>3. runs' = [runs EXCEPT ![x] = runs[x] + 1]
  BY DEF Do
<1>4. /\ runs' \in [Ops \cup Requests -> Nat]
      /\ \A y \in Ops \cup Requests : runs'[y] = IF y = x THEN 1 ELSE runs[y]
  BY <1>1, <1>3
<1>5. config' \in Configs /\ hooks' \subseteq Selectors
  <2>1. config' = IF d.do = "rotate" THEN d.to ELSE config
    BY DEF Do
  <2>2. hooks' = CASE d.do = "addHook" -> hooks \cup {d.selector}
                   [] d.do = "removeHook" -> hooks \ {d.selector}
                   [] OTHER -> hooks
    BY DEF Do
  <2>3. d.do = "rotate" => d.to \in Configs
    BY <1>1 DEF Deeds
  <2>4. d.do = "addHook" => d.selector \in Selectors
    BY <1>1 DEF Deeds
  <2> HIDE DEF d
  <2>5. config' \in Configs
    BY <1>1, <2>1, <2>3
  <2>6. hooks' \subseteq Selectors
    BY <1>1, <2>2, <2>4
  <2> QED BY <2>5, <2>6
<1>6. /\ IsFiniteSet(Payers') /\ funds' \in Nat
      /\ Funds = funds' + paid' + Cardinality(Payers')
  <2>1. CASE d.do = "pay"
    <3>1. funds' = funds - 1 /\ funds >= 1
      BY <2>1 DEF Do, CanDo
    <3>2. Payers' = Payers \cup {x} /\ x \notin Payers
      BY <1>4, <2>1 DEF Payers
    <3>3. IsFiniteSet(Payers') /\ Cardinality(Payers') = Cardinality(Payers) + 1
      BY <1>1, <3>2, FS_AddElement
    <3> QED BY <1>1, <1>2, <3>1, <3>3
  <2>2. CASE d.do # "pay"
    <3>1. funds' = funds
      BY <2>2 DEF Do
    <3>2. Payers' = Payers
      BY <1>4, <2>2 DEF Payers
    <3> QED BY <1>1, <3>1, <3>2
  <2> QED BY <2>1, <2>2
<1>7. funds' \in 0 .. Funds /\ paid' \in 0 .. Funds
  BY <1>1, <1>6, FundsBounded
<1> QED BY <1>4, <1>5, <1>6, <1>7

\* A request relayed, when its nonce is unused.
LEMMA ExecuteKeeps ==
  ASSUME NEW r \in Requests, EntrypointInv, Execute(r)
  PROVE  EntrypointInv'
<1>1. /\ r \notin consumed /\ Do(r) /\ consumed' = consumed \cup {r}
      /\ UNCHANGED <<deployed, phase, bundle, paid>>
  BY DEF Execute
<1>2. runs[r] = 0
  BY <1>1 DEF EntrypointInv, TypeOK
<1>3. /\ config' \in Configs /\ hooks' \subseteq Selectors
      /\ runs' \in [Ops \cup Requests -> Nat]
      /\ \A y \in Ops \cup Requests : runs'[y] = IF y = r THEN 1 ELSE runs[y]
      /\ IsFiniteSet(Payers')
      /\ Funds = funds' + paid' + Cardinality(Payers')
      /\ funds' \in 0 .. Funds /\ paid' \in 0 .. Funds
  BY <1>1, <1>2, DoKeeps
<1>4. TypeOK'
  BY <1>1, <1>3 DEF EntrypointInv, TypeOK
<1>5. BundleOK'
  <2>1. \A i \in 1 .. Len(bundle) : bundle[i] \in Ops \cup Requests /\ bundle[i] # r
    <3>1. bundle \in Seq(Ops)
      BY DEF EntrypointInv, TypeOK
    <3>2. \A i \in 1 .. Len(bundle) : bundle[i] \in Ops
      BY <3>1, ElementOfSeq
    <3> QED BY <1>1, <3>2 DEF EntrypointInv, BundleOK
  <2> QED BY <1>1, <1>3, <2>1 DEF EntrypointInv, BundleOK
<1>6. \A x \in Ops \cup Requests : runs'[x] <= IF x \in consumed' THEN 1 ELSE 0
  BY <1>1, <1>3 DEF EntrypointInv
<1> QED BY <1>3, <1>4, <1>5, <1>6 DEF EntrypointInv

\* An operation validated has not run.
LEMMA ValidateKeeps ==
  ASSUME NEW op \in Ops, EntrypointInv, Validate(op)
  PROVE  EntrypointInv'
<1> DEFINE new == Append(bundle, op)
<1>1. /\ op \notin consumed /\ Len(bundle) < MaxBundle /\ Pay(Fee[op])
      /\ phase' = "validating" /\ bundle' = new /\ consumed' = consumed \cup {op}
      /\ UNCHANGED <<deployed, config, hooks, runs>>
  BY DEF Validate, ValidateUserOp
<1>2. /\ bundle \in Seq(Ops) /\ runs \in [Ops \cup Requests -> Nat]
      /\ funds \in Nat /\ paid \in Nat /\ Funds \in Nat /\ MaxBundle \in Nat
      /\ Fee[op] \in Nat
  BY Wallet4337Assumption DEF EntrypointInv, TypeOK
<1>3. Payers' = Payers
  BY <1>1 DEF Payers
<1>4. IsFiniteSet(Payers) /\ Cardinality(Payers) \in Nat
  BY FS_CardinalityType DEF EntrypointInv
<1>5. /\ Funds = funds' + paid' + Cardinality(Payers)
      /\ funds' \in Nat /\ paid' \in Nat
  <2>1. Funds = funds + paid + Cardinality(Payers)
    BY DEF EntrypointInv
  <2>2. CASE Fee[op] <= funds
    <3>1. funds' = funds - Fee[op] /\ paid' = paid + Fee[op]
      BY <1>1, <2>2 DEF Pay
    <3>2. funds - Fee[op] \in Nat /\ paid + Fee[op] \in Nat
      BY <1>2, <2>2
    <3>3. (funds - Fee[op]) + (paid + Fee[op]) = funds + paid
      BY <1>2
    <3> QED BY <2>1, <3>1, <3>2, <3>3
  <2>3. CASE ~ (Fee[op] <= funds)
    <3>1. funds' = funds /\ paid' = paid
      BY <1>1, <2>3 DEF Pay
    <3> QED BY <1>2, <2>1, <3>1
  <2> QED BY <2>2, <2>3
<1>6. funds' \in 0 .. Funds /\ paid' \in 0 .. Funds
  BY <1>4, <1>5, FundsBounded
<1>7. /\ new \in Seq(Ops) /\ Len(new) = Len(bundle) + 1 /\ Len(bundle) \in Nat
      /\ \A i \in 1 .. Len(bundle) : new[i] = bundle[i]
      /\ new[Len(bundle) + 1] = op
  BY <1>2, AppendProperties, LenProperties
<1> HIDE DEF new
<1>8. TypeOK'
  BY <1>1, <1>2, <1>6, <1>7, SMTT(60) DEF EntrypointInv, TypeOK
<1>9. BundleOK'
  <2>1. runs[op] = 0
    BY <1>1, <1>2 DEF EntrypointInv
  <2>2. \A i \in 1 .. Len(bundle) : bundle[i] \in consumed /\ runs[bundle[i]] = 0
    BY DEF EntrypointInv, BundleOK
  <2>3. \A i \in 1 .. Len(new) : new[i] \in consumed' /\ runs[new[i]] = 0
    BY <1>1, <1>7, <2>1, <2>2
  <2>4. \A i, j \in 1 .. Len(new) : i # j => new[i] # new[j]
    BY <1>1, <1>7, <2>2 DEF EntrypointInv, BundleOK
  <2> QED BY <1>1, <2>3, <2>4 DEF BundleOK
<1>10. \A x \in Ops \cup Requests : runs'[x] <= IF x \in consumed' THEN 1 ELSE 0
  BY <1>1, <1>2 DEF EntrypointInv
<1> QED BY <1>3, <1>4, <1>5, <1>8, <1>9, <1>10 DEF EntrypointInv

\* The bundle after its first operation.
LEMMA BundleTail ==
  ASSUME EntrypointInv, bundle # <<>>
  PROVE  /\ Head(bundle) \in Ops /\ runs[Head(bundle)] = 0 /\ Head(bundle) \in consumed
         /\ Tail(bundle) \in Seq(Ops) /\ Len(Tail(bundle)) <= MaxBundle
         /\ \A i \in 1 .. Len(Tail(bundle)) :
              /\ Tail(bundle)[i] \in consumed /\ runs[Tail(bundle)[i]] = 0
              /\ Tail(bundle)[i] \in Ops /\ Tail(bundle)[i] # Head(bundle)
         /\ \A i, j \in 1 .. Len(Tail(bundle)) : i # j => Tail(bundle)[i] # Tail(bundle)[j]
<1>1. bundle \in Seq(Ops) /\ Len(bundle) <= MaxBundle /\ MaxBundle \in Nat
  BY Wallet4337Assumption DEF EntrypointInv, TypeOK
<1>2. Len(bundle) \in Nat \ {0} /\ 1 \in 1 .. Len(bundle)
  BY <1>1, EmptySeq
<1>3. /\ Tail(bundle) \in Seq(Ops) /\ Len(Tail(bundle)) = Len(bundle) - 1
      /\ \A i \in 1 .. Len(Tail(bundle)) : Tail(bundle)[i] = bundle[i + 1]
      /\ Head(bundle) \in Ops
  BY <1>1, HeadTailProperties
<1>4. Head(bundle) = bundle[1]
  BY <1>1
<1>5. \A i \in 1 .. Len(Tail(bundle)) : i + 1 \in 1 .. Len(bundle) /\ i + 1 # 1
  BY <1>2, <1>3
<1>6. \A i \in 1 .. Len(Tail(bundle)) : Tail(bundle)[i] \in Ops
  BY <1>3, ElementOfSeq
<1>7. /\ \A i \in 1 .. Len(bundle) : bundle[i] \in consumed /\ runs[bundle[i]] = 0
      /\ \A i, j \in 1 .. Len(bundle) : i # j => bundle[i] # bundle[j]
  BY DEF EntrypointInv, BundleOK
<1>8. Len(Tail(bundle)) <= MaxBundle
  BY <1>1, <1>2, <1>3
<1>9. \A i, j \in 1 .. Len(Tail(bundle)) : i # j => Tail(bundle)[i] # Tail(bundle)[j]
  <2> SUFFICES ASSUME NEW i \in 1 .. Len(Tail(bundle)), NEW j \in 1 .. Len(Tail(bundle)), i # j
               PROVE  Tail(bundle)[i] # Tail(bundle)[j]
    OBVIOUS
  <2>1. i + 1 # j + 1
    OBVIOUS
  <2> QED BY <1>3, <1>5, <1>7, <2>1
<1> QED BY <1>2, <1>3, <1>4, <1>5, <1>6, <1>7, <1>8, <1>9

\* The entrypoint runs the first operation of its bundle.
LEMMA RunNextKeeps == EntrypointInv /\ RunNext => EntrypointInv'
<1> SUFFICES ASSUME EntrypointInv, RunNext PROVE EntrypointInv'
  OBVIOUS
<1> DEFINE x == Head(bundle)
<1>1. /\ bundle # <<>> /\ SelfExecute("entrypoint", x) /\ bundle' = Tail(bundle)
      /\ UNCHANGED <<deployed, phase, consumed, paid>>
  BY DEF RunNext
<1>2. /\ x \in Ops /\ runs[x] = 0 /\ x \in consumed
      /\ Tail(bundle) \in Seq(Ops) /\ Len(Tail(bundle)) <= MaxBundle
      /\ \A i \in 1 .. Len(Tail(bundle)) :
           /\ Tail(bundle)[i] \in consumed /\ runs[Tail(bundle)[i]] = 0
           /\ Tail(bundle)[i] \in Ops /\ Tail(bundle)[i] # x
      /\ \A i, j \in 1 .. Len(Tail(bundle)) : i # j => Tail(bundle)[i] # Tail(bundle)[j]
  BY <1>1, BundleTail
<1> HIDE DEF x
<1>3. CASE Do(x)
  <2>1. /\ config' \in Configs /\ hooks' \subseteq Selectors
        /\ runs' \in [Ops \cup Requests -> Nat]
        /\ \A y \in Ops \cup Requests : runs'[y] = IF y = x THEN 1 ELSE runs[y]
        /\ IsFiniteSet(Payers')
        /\ Funds = funds' + paid' + Cardinality(Payers')
        /\ funds' \in 0 .. Funds /\ paid' \in 0 .. Funds
    BY <1>1, <1>2, <1>3, DoKeeps
  <2>2. TypeOK'
    BY <1>1, <1>2, <2>1 DEF EntrypointInv, TypeOK
  <2>3. BundleOK'
    BY <1>1, <1>2, <2>1, ZenonT(60) DEF BundleOK
  <2>4. \A y \in Ops \cup Requests : runs'[y] <= IF y \in consumed' THEN 1 ELSE 0
    <3> SUFFICES ASSUME NEW y \in Ops \cup Requests
                 PROVE  runs'[y] <= IF y \in consumed' THEN 1 ELSE 0
      OBVIOUS
    <3>1. runs[y] <= IF y \in consumed THEN 1 ELSE 0
      BY DEF EntrypointInv
    <3>2. consumed' = consumed
      BY <1>1
    <3>3. CASE y = x
      BY <1>2, <2>1, <3>2, <3>3
    <3>4. CASE y # x
      BY <2>1, <3>1, <3>2, <3>4
    <3> QED BY <3>3, <3>4
  <2> QED BY <2>1, <2>2, <2>3, <2>4 DEF EntrypointInv
<1>4. CASE UNCHANGED <<config, funds, hooks, runs>>
  <2>1. TypeOK'
    BY <1>1, <1>2, <1>4 DEF EntrypointInv, TypeOK
  <2>2. BundleOK'
    BY <1>1, <1>2, <1>4 DEF BundleOK
  <2>3. Payers' = Payers
    BY <1>4 DEF Payers
  <2> QED BY <1>1, <1>4, <2>1, <2>2, <2>3 DEF EntrypointInv
<1> QED BY <1>1, <1>3, <1>4 DEF SelfExecute, DoOrRevert

\* Every step of the entrypoint keeps the invariant.
LEMMA EntrypointStep == EntrypointInv /\ [Next]_vars => EntrypointInv'
<1> SUFFICES ASSUME EntrypointInv, [Next]_vars PROVE EntrypointInv'
  OBVIOUS
<1>1. ASSUME UNCHANGED <<config, hooks, funds, bundle, consumed, paid, runs>>,
             deployed' \in BOOLEAN, phase' \in {"idle", "validating", "running"}
      PROVE  EntrypointInv'
  <2>1. Payers' = Payers
    BY <1>1 DEF Payers
  <2> QED BY <1>1, <2>1 DEF EntrypointInv, TypeOK, BundleOK
<1>2. deployed \in BOOLEAN /\ phase \in {"idle", "validating", "running"}
  BY DEF EntrypointInv, TypeOK
<1>3. CASE Deploy \/ StartRuns \/ EndRuns \/ UNCHANGED vars
  BY <1>1, <1>2, <1>3 DEF Deploy, StartRuns, EndRuns, wallet, vars
<1>4. ASSUME NEW op \in Ops, Intrude(op) PROVE EntrypointInv'
  BY <1>1, <1>2, <1>4 DEF Intrude, SelfExecute, OnlyEntrypoint
<1>5. ASSUME NEW r \in Requests, Execute(r) PROVE EntrypointInv'
  BY <1>5, ExecuteKeeps
<1>6. ASSUME NEW op \in Ops, Validate(op) PROVE EntrypointInv'
  BY <1>6, ValidateKeeps
<1>7. CASE RunNext
  BY <1>7, RunNextKeeps
<1> QED BY <1>3, <1>4, <1>5, <1>6, <1>7 DEF Next

-----------------------------------------------------------------------------
(* What follows. *)

\* Both ways in keep their invariants.
THEOREM OutsideInvariance == OutsideSpec => [](ValidationInv /\ EntrypointInv)
<1>1. OutsideInit => ValidationInv /\ EntrypointInv
  BY ValidationStarts, EntrypointStarts DEF OutsideInit
<1>2. ASSUME ValidationInv, UNCHANGED validator PROVE ValidationInv'
  <2>1. UNCHANGED <<entry, form, recovery, zero, start, chain, hadCode, redeploy, step, error,
                    outcome, thrown, accepted>>
    BY <1>2 DEF validator
  <2>2. ValidationTypes'
    BY <1>2, <2>1, ZenonT(60) DEF ValidationInv, ValidationTypes
  <2>3. AskedFirst' /\ Vouched' /\ ZeroIsNobody'
    BY <1>2, <2>1
    DEF ValidationInv, AskedFirst, Vouched, ZeroIsNobody, Recovers, Sig!Recovered
  <2>4. OneAttempt'
    BY <1>2, <2>1 DEF ValidationInv, OneAttempt, Sig!AllowSideEffects
  <2> QED BY <2>2, <2>3, <2>4 DEF ValidationInv
<1>3. EntrypointInv /\ UNCHANGED vars => EntrypointInv'
  BY EntrypointStep
<1>4. ValidationInv /\ EntrypointInv /\ [Validation \/ Entrypoint]_outside =>
        (ValidationInv /\ EntrypointInv)'
  BY <1>2, <1>3, ValidationStep, EntrypointStep DEF Validation, Entrypoint, outside
<1> QED BY <1>1, <1>4, PTL DEF OutsideSpec

\* A deployed signer that accepts is not overruled by a factory call.
THEOREM SignerDecides == OutsideSpec => []DeployedSignerDecides
<1>1. ValidationInv => DeployedSignerDecides
  BY DEF ValidationInv, AskedFirst, DeployedSignerDecides, Sig!DeployedSignerDecides, Sig!Done
<1> QED BY <1>1, OutsideInvariance, PTL

\* Whatever the factory does to the chain is undone.
THEOREM DeploymentIsUndone == OutsideSpec => []NoTraceOfDeployment
<1>1. ValidationInv => NoTraceOfDeployment
  BY DEF ValidationInv, OneAttempt, NoTraceOfDeployment, Sig!NoTraceOfDeployment, Sig!Done
<1> QED BY <1>1, OutsideInvariance, PTL

\* Neither signer nor factory forges the byte that means true.
THEOREM AnswersAreVouched == OutsideSpec => []NoForgedAnswer
<1>1. ValidationInv => NoForgedAnswer
  BY DEF ValidationInv, Vouched, ZeroIsNobody, Recovers, Sig!Recovered, NoForgedAnswer,
         Sig!NoForgedAnswer, Sig!Done
<1> QED BY <1>1, OutsideInvariance, PTL

\* Nothing runs twice or unaccepted, and every coin is accounted for.
THEOREM DeedsAreDoneOnce == OutsideSpec => []DoneOnceAccepted
<1>1. EntrypointInv => DoneOnceAccepted
  BY DEF EntrypointInv, Payers, DoneOnceAccepted
<1> QED BY <1>1, OutsideInvariance, PTL

\* What was consumed was signed by a configuration that had been put in charge.
HeirsInv == config \in Heirs /\ \A x \in consumed : Signer[x] \in Heirs

\* Who was put in charge once counts as such for ever.
LEMMA HeirsGrow ==
  ASSUME EntrypointInv, config \in Heirs, NEW x \in Ops \cup Requests, Do(x)
  PROVE  Heirs \subseteq Heirs' /\ config' \in Heirs'
<1>1. runs \in [Ops \cup Requests -> Nat] /\ runs' = [runs EXCEPT ![x] = runs[x] + 1]
  BY DEF EntrypointInv, TypeOK, Do
<1>2. \A y \in Ops \cup Requests : runs[y] > 0 => runs'[y] > 0
  BY <1>1
<1>3. runs'[x] > 0
  BY <1>1
<1>4. Heirs \subseteq Heirs'
  BY <1>2 DEF Heirs
<1>5. CASE Deed[x].do = "rotate"
  <2>1. config' = Deed[x].to
    BY <1>5 DEF Do
  <2> QED BY <1>3, <1>4, <1>5, <2>1 DEF Heirs
<1>6. CASE Deed[x].do # "rotate"
  <2>1. config' = config
    BY <1>6 DEF Do
  <2> QED BY <1>4, <2>1
<1> QED BY <1>4, <1>5, <1>6

\* Every step of the entrypoint keeps it, and acts for an heir.
LEMMA HeirsStep ==
  ASSUME EntrypointInv, HeirsInv, [Next]_vars
  PROVE  /\ HeirsInv'
         /\ \A x \in Ops \cup Requests : runs'[x] # runs[x] =>
              Signer[x] \in Heirs /\ (Signer[x] # config => x \in Range(bundle))
<1>1. ASSUME NEW x \in Ops \cup Requests, Do(x), Signer[x] \in Heirs,
             Signer[x] # config => x \in Range(bundle), consumed' \in {consumed, consumed \cup {x}}
      PROVE  /\ HeirsInv'
             /\ \A y \in Ops \cup Requests : runs'[y] # runs[y] =>
                  Signer[y] \in Heirs /\ (Signer[y] # config => y \in Range(bundle))
  <2>1. Heirs \subseteq Heirs' /\ config' \in Heirs'
    BY <1>1, HeirsGrow DEF HeirsInv
  <2>2. \A y \in Ops \cup Requests : runs'[y] # runs[y] => y = x
    BY <1>1 DEF Do, EntrypointInv, TypeOK
  <2> QED BY <1>1, <2>1, <2>2 DEF HeirsInv
<1>2. ASSUME runs' = runs, config' = config, \A x \in consumed' : Signer[x] \in Heirs
      PROVE  /\ HeirsInv'
             /\ \A y \in Ops \cup Requests : runs'[y] # runs[y] =>
                  Signer[y] \in Heirs /\ (Signer[y] # config => y \in Range(bundle))
  BY <1>2 DEF HeirsInv, Heirs
<1>3. ASSUME NEW r \in Requests, Execute(r)
      PROVE  Do(r) /\ Signer[r] = config /\ config \in Heirs /\ consumed' = consumed \cup {r}
  BY <1>3 DEF Execute, HeirsInv
<1>4. ASSUME NEW op \in Ops, Validate(op)
      PROVE  runs' = runs /\ config' = config /\ \A x \in consumed' : Signer[x] \in Heirs
  BY <1>4 DEF Validate, ValidateUserOp, HeirsInv
<1>5. CASE RunNext
  <2>1. /\ bundle # <<>> /\ bundle \in Seq(Ops) /\ Head(bundle) \in Ops
        /\ Head(bundle) \in consumed
    BY <1>5, BundleTail DEF RunNext, EntrypointInv, TypeOK
  <2>2. Head(bundle) \in Range(bundle)
    <3>1. Len(bundle) \in Nat \ {0} /\ DOMAIN bundle = 1 .. Len(bundle)
      BY <2>1, EmptySeq
    <3>2. 1 \in DOMAIN bundle /\ Head(bundle) = bundle[1]
      BY <2>1, <3>1
    <3> QED BY <3>2 DEF Range
  <2>3. Signer[Head(bundle)] \in Heirs /\ consumed' = consumed
    BY <1>5, <2>1 DEF HeirsInv, RunNext
  <2>4. CASE Do(Head(bundle))
    BY <1>1, <2>1, <2>2, <2>3, <2>4
  <2>5. CASE UNCHANGED <<config, funds, hooks, runs>>
    BY <1>2, <2>3, <2>5 DEF HeirsInv
  <2> QED BY <1>5, <2>4, <2>5 DEF RunNext, SelfExecute, DoOrRevert
<1>6. ASSUME NEW op \in Ops, Intrude(op)
      PROVE  UNCHANGED <<runs, config, consumed>>
  BY <1>6 DEF Intrude, SelfExecute, OnlyEntrypoint
<1>7. ASSUME Deploy \/ StartRuns \/ EndRuns \/ UNCHANGED vars
      PROVE  UNCHANGED <<runs, config, consumed>>
  BY <1>7 DEF Deploy, StartRuns, EndRuns, wallet, vars
<1>8. ASSUME UNCHANGED <<runs, config, consumed>>
      PROVE  runs' = runs /\ config' = config /\ \A x \in consumed' : Signer[x] \in Heirs
  BY <1>8 DEF HeirsInv
<1>9. CASE \E r \in Requests : Execute(r)
  BY <1>1, <1>3, <1>9
<1>10. CASE \E op \in Ops : Validate(op)
  BY <1>2, <1>4, <1>10
<1>11. CASE \E op \in Ops : Intrude(op)
  BY <1>2, <1>6, <1>8, <1>11
<1>12. CASE Deploy \/ StartRuns \/ EndRuns \/ UNCHANGED vars
  BY <1>2, <1>7, <1>8, <1>12
<1> QED BY <1>5, <1>9, <1>10, <1>11, <1>12 DEF Next

\* The wallet acts for those that rotations put in charge, one after the other.
THEOREM HeirsAlone == OutsideSpec => OnlyHeirsAct
<1>1. OutsideInit => HeirsInv
  BY DEF OutsideInit, Init, HeirsInv, Heirs
<1>2. [Validation \/ Entrypoint]_outside => [Next]_vars
  BY DEF Validation, Entrypoint, outside
<1>3. EntrypointInv /\ HeirsInv /\ [Validation \/ Entrypoint]_outside => HeirsInv'
  BY <1>2, HeirsStep
<1>4. EntrypointInv /\ HeirsInv /\ [Validation \/ Entrypoint]_outside =>
        [\A x \in Ops \cup Requests : runs'[x] # runs[x] =>
           /\ Signer[x] \in Heirs
           /\ Signer[x] # config => x \in Range(bundle)]_vars
  BY <1>2, HeirsStep
<1> QED BY <1>1, <1>3, <1>4, OutsideInvariance, PTL DEF OutsideSpec, OnlyHeirsAct
==============================================================================
