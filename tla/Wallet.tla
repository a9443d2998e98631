------------------------------- MODULE Wallet -------------------------------
(***************************************************************************)
(* One wallet running bundles of transactions.  A blockchain transaction   *)
(* gives control to foreign code, which may submit requests to the wallet  *)
(* (execute); a bundle's transactions may give control to foreign code     *)
(* again, which may submit further requests: the call stack is part of the *)
(* state.  A call that reverts puts back the storage as it was when the    *)
(* call was made, whatever the calls beneath it did.                       *)
(*                                                                         *)
(* As in WalletState, a definition marked "Mistake" is a broken variant of *)
(* the one that follows it.                                                *)
(***************************************************************************)
EXTENDS WalletState

CONSTANTS
  NoBatch,           \* the batch of a frame that runs foreign code
  MaxDepth,          \* bound: frames on the call stack
  MaxTime,           \* bound: block times explored
  TrustedConfigs,    \* a family of configurations, requests and batches
  TrustedRequests,   \* closed under everything its members sign
  TrustedBatches     \* (see TrustAssumption)

VARIABLES
  store,     \* the wallet's storage
  ledger,    \* history, reverted with the storage: what has run so far
  stack,     \* the call stack, innermost call last
  returned,  \* the outcome of the call a bundle has just made
  now        \* block.timestamp

vars == <<store, ledger, stack, returned, now>>

(***************************************************************************)
(* The ledger counts how often each request was accepted, how often each   *)
(* batch was started and how often each of its transactions succeeded.     *)
(***************************************************************************)
Ledger ==
  [ accepted : [Requests -> Nat],
    started  : [Batches -> Nat],
    executed : [Batches -> Seq(Nat)] ]

EmptyLedger ==
  [ accepted |-> [r \in Requests |-> 0],
    started  |-> [b \in Batches |-> 0],
    executed |-> [b \in Batches |-> [i \in 1 .. Len(Body[b]) |-> 0]] ]

\* A call in progress: what runs, how far, and what its revert restores.
Frame ==
  [ code        : {"wallet", "foreign"},
    batch       : Batches \cup {NoBatch},
    pc          : Nat \ {0},
    saved       : Store,
    savedLedger : Ledger ]

ASSUME BoundAssumption ==
  /\ NoBatch \notin Batches
  /\ MaxDepth \in Nat
  /\ MaxTime \in Nat

(***************************************************************************)
(* Everything the trusted configurations sign or approve is trusted, and   *)
(* trusted batches put only trusted configurations and requests in charge. *)
(***************************************************************************)
TxIsTrusted(tx) ==
  /\ tx.op = "selfExecute" => tx.batch \in TrustedBatches
  /\ tx.op \in {"updateImageHash", "setExtraImageHash"} =>
       tx.image \in TrustedConfigs \cup {NoConfig}
  /\ tx.op = "setStaticDigest" => tx.request \in TrustedRequests
  /\ tx.op = "addStaticDigests" => tx.requests \subseteq TrustedRequests

ASSUME TrustAssumption ==
  /\ SaltConfig \in TrustedConfigs
  /\ \A r \in Requests :
       Signers[r] \cap TrustedConfigs # {} => r \in TrustedRequests
  /\ \A r \in TrustedRequests \cap Requests : r.batch \in TrustedBatches
  /\ \A b \in TrustedBatches \cap Batches :
       \A i \in 1 .. Len(Body[b]) : TxIsTrusted(Body[b][i])

Init ==
  /\ store = FreshStore
  /\ ledger = EmptyLedger
  /\ stack = <<>>
  /\ returned = "none"
  /\ now \in 0 .. MaxTime

-----------------------------------------------------------------------------
(* Calls. *)

Top == stack[Len(stack)]
Running(code) == stack # <<>> /\ Top.code = code

\* A call to code, which a revert undoes back to the present storage.
NewFrame(code, batch) ==
  [ code |-> code, batch |-> batch, pc |-> 1,
    saved |-> store, savedLedger |-> ledger ]

Push(frame) ==
  /\ Len(stack) < MaxDepth
  /\ stack' = Append(stack, frame)

\* The innermost call ends; only a bundle looks at the outcome.
Pop(outcome) ==
  /\ stack' = Front(stack)
  /\ returned' = IF Len(stack) > 1 /\ stack[Len(stack) - 1].code = "wallet"
                 THEN outcome ELSE "none"

RevertFrame ==
  /\ store' = Top.saved
  /\ ledger' = Top.savedLedger
  /\ Pop("failed")
  /\ UNCHANGED now

\* The bundle running: the transaction it is at, and moving past it.
AtTransaction ==
  /\ Running("wallet")
  /\ returned = "none"
  /\ Top.pc <= Len(Body[Top.batch])

Current == Body[Top.batch][Top.pc]

NextTransaction ==
  /\ stack' = [stack EXCEPT ![Len(stack)].pc = @ + 1]
  /\ returned' = "none"

\* Mistake: the modifier left out.
OnlySelfOrAnyone(caller) == TRUE

\* ModuleSelfAuth.onlySelf.
OnlySelf(caller) == caller = "wallet"

-----------------------------------------------------------------------------
(* Foreign code. *)

\* A new blockchain transaction starts in foreign code (an account that
\* calls the wallet itself is foreign code that makes one call).
Begin ==
  /\ stack = <<>>
  /\ Push(NewFrame("foreign", NoBatch))
  /\ UNCHANGED <<store, ledger, returned, now>>

\* Foreign code submits a request: ModuleCalls.execute up to its _execute.
\* A request refused leaves everything as it was.
Execute(r) ==
  /\ Running("foreign")
  /\ NonceMatches(store, r)
  /\ SignatureValidation(store, now, r)
  /\ Push(NewFrame("wallet", r.batch))
  /\ store' = UseNonce(store, r)
  /\ ledger' = [ledger EXCEPT !.accepted[r] = @ + 1, !.started[r.batch] = @ + 1]
  /\ UNCHANGED <<returned, now>>

\* Foreign code calls one of the wallet's own functions directly.
CallDirectly(tx) ==
  /\ Running("foreign")
  /\ tx.op \in LocalOps \ HelperOps
  /\ store' = IF OnlySelf("foreign") /\ Succeeds(tx, store, now)
              THEN Result(tx, store) ELSE store
  /\ UNCHANGED <<ledger, stack, returned, now>>

ForeignReturn ==
  /\ Running("foreign")
  /\ Pop("ok")
  /\ UNCHANGED <<store, ledger, now>>

-----------------------------------------------------------------------------
(* ModuleCalls._execute. *)

\* The transaction calls the wallet itself or a helper, and is over.
CallLocal ==
  /\ AtTransaction
  /\ Current.op \in LocalOps
  /\ OnlySelf("wallet")
  /\ IF Succeeds(Current, store, now)
     THEN store' = Result(Current, store) /\ returned' = "ok"
     ELSE UNCHANGED store /\ returned' = "failed"
  /\ UNCHANGED <<ledger, stack, now>>

\* The call runs out of the gas that its gasLimit allows it, or of depth.
CallOutOfGas ==
  /\ AtTransaction
  /\ returned' = "failed"
  /\ UNCHANGED <<store, ledger, stack, now>>

\* ModuleCalls.selfExecute, called by the wallet.
CallSelfExecute ==
  /\ AtTransaction
  /\ Current.op = "selfExecute"
  /\ OnlySelf("wallet")
  /\ Push(NewFrame("wallet", Current.batch))
  /\ ledger' = [ledger EXCEPT !.started[Current.batch] = @ + 1]
  /\ UNCHANGED <<store, returned, now>>

\* A call to a foreign contract, or the constructor of a new contract.
CallForeign ==
  /\ AtTransaction
  /\ Current.op \in {"call", "createContract"}
  /\ Push(NewFrame("foreign", NoBatch))
  /\ UNCHANGED <<store, ledger, returned, now>>

\* TxExecuted: the call succeeded.
TxExecuted ==
  /\ Running("wallet")
  /\ returned = "ok"
  /\ NextTransaction
  /\ ledger' = [ledger EXCEPT !.executed[Top.batch][Top.pc] = @ + 1]
  /\ UNCHANGED <<store, now>>

\* Mistakes: the bundle goes on without a transaction it required, or tries
\* the same transaction again.
TxFailedIgnored ==
  /\ Running("wallet")
  /\ returned = "failed"
  /\ NextTransaction
  /\ UNCHANGED <<store, ledger, now>>
TxFailedRetried ==
  /\ Running("wallet")
  /\ returned = "failed"
  /\ ~ Current.required
  /\ returned' = "none"
  /\ UNCHANGED <<store, ledger, stack, now>>

\* _revertBytes: the call failed, and the bundle goes on without it.
TxFailed ==
  /\ Running("wallet")
  /\ returned = "failed"
  /\ ~ Current.required
  /\ NextTransaction
  /\ UNCHANGED <<store, ledger, now>>

\* _revertBytes: the call failed, and the bundle fails with it.
RevertOnError ==
  /\ Running("wallet")
  /\ returned = "failed"
  /\ Current.required
  /\ RevertFrame

EndBundle ==
  /\ Running("wallet")
  /\ returned = "none"
  /\ Top.pc > Len(Body[Top.batch])
  /\ Pop("ok")
  /\ UNCHANGED <<store, ledger, now>>

\* Foreign code reverts, or any call runs out of gas (NotEnoughGas too).
Fail ==
  /\ stack # <<>>
  /\ RevertFrame

\* A later block.
Tick ==
  /\ stack = <<>>
  /\ now < MaxTime
  /\ now' = now + 1
  /\ UNCHANGED <<store, ledger, stack, returned>>

Next ==
  \/ Begin
  \/ \E r \in Requests : Execute(r)
  \/ \E b \in Batches : \E i \in 1 .. Len(Body[b]) : CallDirectly(Body[b][i])
  \/ ForeignReturn
  \/ CallLocal
  \/ CallOutOfGas
  \/ CallSelfExecute
  \/ CallForeign
  \/ TxExecuted
  \/ TxFailed
  \/ RevertOnError
  \/ EndBundle
  \/ Fail
  \/ Tick

Spec == Init /\ [][Next]_vars

(***************************************************************************)
(* Gas meters every call: the wallet's own code is never suspended, and    *)
(* foreign code at any depth cannot go on making calls for ever.           *)
(***************************************************************************)
WalletStep ==
  \/ CallLocal \/ CallOutOfGas \/ CallSelfExecute \/ CallForeign
  \/ TxExecuted \/ TxFailed \/ RevertOnError \/ EndBundle

ForeignReturnAt(depth) == Len(stack) = depth /\ ForeignReturn

Fairness ==
  /\ WF_vars(WalletStep)
  /\ \A depth \in 1 .. MaxDepth : SF_vars(ForeignReturnAt(depth))

FairSpec == Spec /\ Fairness

-----------------------------------------------------------------------------
(* Properties. *)

\* Every variable keeps its type.
TypeOK ==
  /\ store \in Store
  /\ ledger \in Ledger
  /\ stack \in Seq(Frame)
  /\ Len(stack) <= MaxDepth
  /\ \A i \in 1 .. Len(stack) :
       stack[i].code = "wallet" <=> stack[i].batch \in Batches
  /\ returned \in {"none", "ok", "failed"}
  /\ now \in Nat

\* Outside the session space, a nonce is spent on one request, once: among
\* the requests accepted and not reverted, those still running included, no
\* request occurs twice and no two share a nonce.  (_validateNonce writes the
\* nonce before the bundle runs, and bundles can re-enter execute.)
NoReplay ==
  \A r \in Requests : SpaceOf(r.nonce) # SessionSpace =>
    /\ ledger.accepted[r] <= 1
    /\ \A q \in Requests :
         q # r /\ q.nonce = r.nonce =>
           ledger.accepted[r] = 0 \/ ledger.accepted[q] = 0

\* The nonces of the requests of a space that were accepted.
SpentNonces(l, space) ==
  {NonceOf(r.nonce) :
     r \in {q \in Requests : SpaceOf(q.nonce) = space /\ l.accepted[q] > 0}}

\* Outside the session space, the nonces spent are exactly those below the
\* counter (and each on one request, once: NoReplay), so the counter is the
\* number of requests its space has accepted: reverts, nested bundles and
\* failed optional transactions neither skip nor lose a nonce.
NoncesCountRequests ==
  \A space \in Spaces \ {SessionSpace} :
    SpentNonces(ledger, space) = 0 .. store.nonce[space] - 1

\* No counter of store s is ahead of store t's, but for the session space's.
NoncesBehind(s, t) ==
  /\ s.gapNonce <= t.gapNonce
  /\ \A space \in Spaces \ {SessionSpace} : s.nonce[space] <= t.nonce[space]

\* Within a blockchain transaction no call finds a counter ahead of its own
\* caller's: outside the session space the nonces, and the gap nonce, only
\* grow from each call on the stack to the calls it makes.  A revert thus
\* never leaves a nonce that a call still running has used up.
NoncesNeverRewind ==
  \A i \in 1 .. Len(stack) :
    /\ NoncesBehind(stack[i].saved, store)
    /\ \A j \in i .. Len(stack) : NoncesBehind(stack[i].saved, stack[j].saved)

\* When a blockchain transaction is over, each bundle that was started and
\* not reverted has run all its revertOnError transactions exactly once, and
\* the others at most once.
AllOrNothing ==
  stack = <<>> =>
    \A b \in Batches : \A i \in 1 .. Len(Body[b]) :
      IF Body[b][i].required
      THEN ledger.executed[b][i] = ledger.started[b]
      ELSE ledger.executed[b][i] <= ledger.started[b]

\* Control passes only by signature: if everything the trusted configurations
\* sign puts only trusted ones in charge, then no other configuration is ever
\* accepted and no request they did not sign or approve ever runs, whatever
\* foreign code does and wherever calls revert.
NoTakeover ==
  /\ \A c \in Configs : IsValidImage(store, now, c) => c \in TrustedConfigs
  /\ \A r \in Requests : ledger.accepted[r] > 0 => r \in TrustedRequests

\* A configuration gains authority only while a bundle is in progress, or by
\* a revert to the state in which the blockchain transaction began: neither
\* time nor a direct call makes a configuration valid.
AuthorityIsGranted ==
  [][ \A c \in Configs :
        IsValidImage(store, now, c)' =>
          \/ IsValidImage(store, now, c)
          \/ \E i \in 1 .. Len(stack) : stack[i].code = "wallet"
          \/ stack # <<>> /\ IsValidImage(stack[1].saved, now, c) ]_vars

\* A batch that makes the wallet upgradable also sets its image hash, with
\* revertOnError: what the wallet's owners must see to, for the code does not.
UpgradesAreCompleted ==
  \A b \in Batches : \A i \in 1 .. Len(Body[b]) :
    /\ Body[b][i].op = "updateImplementation"
    /\ Body[b][i].target = "MainModuleUpgradable"
    => \E j \in 1 .. Len(Body[b]) : Body[b][j].op = "updateImageHash" /\ Body[b][j].required

\* Between transactions the wallet is not locked out: one configuration is
\* its main one.  (The requests of the model that change the implementation
\* also set the image hash: UpgradesAreCompleted.)
NeverLocked ==
  stack = <<>> => \E c \in Configs : IsMainImage(store, c)

\* The gap nonce of a batch that starts with requireSessionNonce, required.
IsSessionBatch(b) ==
  /\ Body[b] # <<>>
  /\ Body[b][1].op = "requireSessionNonce"
  /\ Body[b][1].required

\* A request of the session space that starts with requireSessionNonce runs
\* at most once, although requireSessionNonce sets its own nonce back to 0.
SessionOnce ==
  stack = <<>> =>
    \A r \in Requests :
      SpaceOf(r.nonce) = SessionSpace /\ IsSessionBatch(r.batch) =>
        ledger.accepted[r] <= 1

\* "the order is guaranteed but transactions can be skipped"
\* (SessionUtils.sol:18): once a session batch has passed its check, no batch
\* of an equal or lower gap nonce passes its own.
SessionOrder ==
  [][ \A a, b \in Batches :
        /\ IsSessionBatch(a) /\ IsSessionBatch(b)
        /\ Body[a][1].gapNonce <= Body[b][1].gapNonce
        /\ ledger.executed[b][1] > 0
        => ledger'.executed[a][1] <= ledger.executed[a][1] ]_vars

\* The storage and the ledger that a blockchain transaction in progress can
\* still be undone to: what the world outside it sees.
PublicStore == IF stack = <<>> THEN store ELSE stack[1].saved
PublicLedger == IF stack = <<>> THEN ledger ELSE stack[1].savedLedger

Log == INSTANCE RequestLog WITH
  Lanes    <- Spaces \ {SessionSpace},
  next     <- [space \in Spaces \ {SessionSpace} |-> PublicStore.nonce[space]],
  accepted <- PublicLedger.accepted,
  started  <- PublicLedger.started,
  executed <- PublicLedger.executed,
  gap      <- PublicStore.gapNonce,
  control  <- <<PublicStore.imageHash, PublicStore.implementation, PublicStore.extra,
                PublicStore.static, PublicStore.nonce[SessionSpace]>>

\* Seen between blockchain transactions, the wallet is a log of requests:
\* however execute is re-entered, whatever reverts at whatever depth, each
\* blockchain transaction leaves everything as it was or adds requests that
\* ran as a whole, in the order of their nonces.
KeepsLog == Log!Spec

\* The loop over a bundle's transactions, the bundles nested in it and the
\* calls it makes come to an end: every blockchain transaction finishes.
TransactionEnds == []<>(stack = <<>>)

=============================================================================
