---------------------------- MODULE WalletState ----------------------------
(***************************************************************************)
(* The storage of one Sequence wallet and what each of its functions does  *)
(* to it.  A wallet is a proxy whose code is MainModule, or                *)
(* MainModuleUpgradable once it has been upgraded; both read and write the *)
(* storage modelled here.  The module has no variables: Wallet.tla runs    *)
(* bundles of transactions over this storage.                              *)
(*                                                                         *)
(* A definition marked "Mistake" is a variant of the one that follows it   *)
(* with a plausible bug, kept to show that the properties would notice.    *)
(*                                                                         *)
(* Signatures are abstracted to the configurations (image hashes) that     *)
(* SequenceBaseSig recovers with weight >= threshold: Signers[r] is the    *)
(* set of configurations whose owners signed request r.                    *)
(***************************************************************************)
EXTENDS Integers, SequencesExt

CONSTANTS
  Spaces,        \* the nonce spaces in use, a set of naturals
  SessionSpace,  \* SessionUtils.SESSION_SPACE
  NonceSize,     \* 2^96: one more than the largest nonce a call can carry
  Configs,       \* image hashes
  SaltConfig,    \* the image hash the wallet's address was derived from
  NoConfig,      \* bytes32(0)
  Batches,       \* names of Transaction[] arrays
  Body,          \* Body[b]: the transactions of array b
  Requests,      \* (nonce, Transaction[]) pairs someone may submit
  Signers,       \* Signers[r]: configurations that signed r
  Forever        \* type(uint256).max, later than any block

MainModules == {"MainModule", "MainModuleUpgradable"}

\* The target of an updateImplementation that isContract refuses.
NotContract == "externally owned"

Request == [nonce : Nat, batch : Batches]

\* SubModuleNonce.decodeNonce: the high bits of a nonce are its space.
SpaceOf(rawNonce) == rawNonce \div NonceSize
NonceOf(rawNonce) == rawNonce % NonceSize

\* One entry of a Transaction[] array: what it calls, and revertOnError.
Tx ==
       [op : {"call", "createContract"}, required : BOOLEAN]
  \cup [op : {"selfExecute"}, batch : Batches, required : BOOLEAN]
  \cup [op : {"updateImageHash"}, image : Configs \cup {NoConfig}, required : BOOLEAN]
  \cup [op : {"updateImplementation"}, target : MainModules \cup {NotContract},
        required : BOOLEAN]
  \cup [op : {"setExtraImageHash"}, image : Configs, expiration : Nat, required : BOOLEAN]
  \cup [op : {"clearExtraImageHashes"}, images : SUBSET Configs, required : BOOLEAN]
  \cup [op : {"setStaticDigest"}, request : Requests, expiration : Nat, required : BOOLEAN]
  \cup [op : {"addStaticDigests"}, requests : SUBSET Requests, required : BOOLEAN]
  \cup [op : {"requireSessionNonce"}, gapNonce : Nat, required : BOOLEAN]
  \cup [op : {"requireNonExpired"}, expiration : Nat, required : BOOLEAN]
  \cup [op : {"requireMinNonce"}, nonce : {n \in Nat : SpaceOf(n) \in Spaces},
        required : BOOLEAN]

ASSUME NonceAssumption ==
  /\ NonceSize \in Nat \ {0}
  /\ Spaces \subseteq Nat
  /\ SessionSpace \in Spaces

ASSUME ConfigAssumption == SaltConfig \in Configs /\ NoConfig \notin Configs

ASSUME RequestAssumption ==
  /\ Body \in [Batches -> Seq(Tx)]
  /\ Requests \subseteq Request
  /\ \A r \in Requests : SpaceOf(r.nonce) \in Spaces
  /\ Signers \in [Requests -> SUBSET Configs]
  /\ Forever \in Nat

(***************************************************************************)
(* Storage.  A nonce counter may hold NonceSize itself, which no call can  *)
(* provide: the space is then used up.  An unset word is zero.             *)
(***************************************************************************)
Store ==
  [ nonce          : [Spaces -> 0 .. NonceSize],
    gapNonce       : Nat,
    imageHash      : Configs \cup {NoConfig},
    implementation : MainModules,
    extra          : [Configs -> Nat],
    static         : [Requests -> Nat] ]

\* A wallet just deployed by Factory: only the implementation is written.
FreshStore ==
  [ nonce          |-> [s \in Spaces |-> 0],
    gapNonce       |-> 0,
    imageHash      |-> NoConfig,
    implementation |-> "MainModule",
    extra          |-> [c \in Configs |-> 0],
    static         |-> [r \in Requests |-> 0] ]

-----------------------------------------------------------------------------
(* Authorisation. *)

\* ModuleAuthFixed (the configuration the address commits to) or
\* ModuleAuthUpgradable (the stored one), whichever code the proxy runs.
IsMainImage(s, c) ==
  \/ s.implementation = "MainModule" /\ c = SaltConfig
  \/ s.implementation = "MainModuleUpgradable" /\ c # NoConfig /\ c = s.imageHash

\* Mistake: the expiration read as the time a configuration starts to count.
IsValidImageAfter(s, t, c) ==
  \/ IsMainImage(s, c)
  \/ s.extra[c] # 0 /\ s.extra[c] <= t

\* ModuleExtraAuth._isValidImage at block time t.
IsValidImage(s, t, c) ==
  \/ IsMainImage(s, c)
  \/ s.extra[c] # 0 /\ s.extra[c] > t

\* ModuleStaticAuth's test of a digest approved in advance.
IsStaticDigest(s, t, r) == s.static[r] > t

\* _signatureValidation of (nonce, transactions) at block time t.
SignatureValidation(s, t, r) ==
  \/ IsStaticDigest(s, t, r)
  \/ \E c \in Signers[r] : IsValidImage(s, t, c)

\* Mistakes: a nonce ahead of the counter passes, or one behind it, or the
\* counter stays where it was.
NonceMatchesAhead(s, r) == s.nonce[SpaceOf(r.nonce)] <= NonceOf(r.nonce)
NonceMatchesBehind(s, r) == s.nonce[SpaceOf(r.nonce)] >= NonceOf(r.nonce)
UseNonceTwice(s, r) == [s EXCEPT !.nonce[SpaceOf(r.nonce)] = NonceOf(r.nonce)]

\* ModuleNonce._validateNonce: its test, and the write that follows.
NonceMatches(s, r) == s.nonce[SpaceOf(r.nonce)] = NonceOf(r.nonce)
UseNonce(s, r) == [s EXCEPT !.nonce[SpaceOf(r.nonce)] = NonceOf(r.nonce) + 1]

-----------------------------------------------------------------------------
(* The functions a transaction of a bundle can call on its own wallet, and *)
(* the helper contracts it can call or delegatecall.                       *)

\* ModuleAuthFixed also upgrades the wallet; under ModuleAuthUpgradable it
\* is upgraded already.
UpdateImageHash(s, image) ==
  [s EXCEPT !.imageHash = image, !.implementation = "MainModuleUpgradable"]

UpdateImplementation(s, target) == [s EXCEPT !.implementation = target]

SetExtraImageHash(s, image, expiration) == [s EXCEPT !.extra[image] = expiration]

ClearExtraImageHashes(s, images) ==
  [s EXCEPT !.extra = [c \in Configs |-> IF c \in images THEN 0 ELSE s.extra[c]]]

SetStaticDigests(s, requests, expiration) ==
  [s EXCEPT !.static =
    [r \in Requests |-> IF r \in requests THEN expiration ELSE s.static[r]]]

\* Mistake: the gap nonce is checked and not stored.
UseSessionNonceUnstored(s, gapNonce) == [s EXCEPT !.nonce[SessionSpace] = 0]

\* SessionUtils.requireSessionNonce, delegatecalled: the gap nonce is
\* stored and the regular nonce of the session space starts over.
UseSessionNonce(s, gapNonce) ==
  [s EXCEPT !.gapNonce = gapNonce, !.nonce[SessionSpace] = 0]

\* The transactions that run no code outside the wallet and its helpers.
LocalOps ==
  {"updateImageHash", "updateImplementation", "setExtraImageHash",
   "clearExtraImageHashes", "setStaticDigest", "addStaticDigests",
   "requireSessionNonce", "requireNonExpired", "requireMinNonce"}

\* Those that are functions of helper contracts, not of the wallet.
HelperOps == {"requireSessionNonce", "requireNonExpired", "requireMinNonce"}

\* Mistakes: 0 passes for an image hash, the last gap nonce for a new one.
NeverZero(image) == FALSE
RequireGapNonceAgain(s, gapNonce) == gapNonce >= s.gapNonce

\* LibAddress.isContract, the image hash that is refused, _requireGapNonce.
IsContract(target) == target # NotContract
ImageHashIsZero(image) == image = NoConfig
RequireGapNonce(s, gapNonce) == gapNonce > s.gapNonce

\* What the requires and error returns of the called function let through.
Succeeds(tx, s, t) ==
  /\ tx.op = "updateImageHash" => ~ ImageHashIsZero(tx.image)
  /\ tx.op = "updateImplementation" => IsContract(tx.target)
  /\ tx.op = "requireSessionNonce" =>
       RequireGapNonce(s, tx.gapNonce) /\ s.implementation = "MainModuleUpgradable"
  /\ tx.op = "requireNonExpired" => t <= tx.expiration
  /\ tx.op = "requireMinNonce" => s.nonce[SpaceOf(tx.nonce)] >= NonceOf(tx.nonce)

Result(tx, s) ==
  CASE tx.op = "updateImageHash"       -> UpdateImageHash(s, tx.image)
    [] tx.op = "updateImplementation"  -> UpdateImplementation(s, tx.target)
    [] tx.op = "setExtraImageHash"     -> SetExtraImageHash(s, tx.image, tx.expiration)
    [] tx.op = "clearExtraImageHashes" -> ClearExtraImageHashes(s, tx.images)
    [] tx.op = "setStaticDigest"       -> SetStaticDigests(s, {tx.request}, tx.expiration)
    [] tx.op = "addStaticDigests"      -> SetStaticDigests(s, tx.requests, Forever)
    [] tx.op = "requireSessionNonce"   -> UseSessionNonce(s, tx.gapNonce)
    [] OTHER                           -> s
=============================================================================
