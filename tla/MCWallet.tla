------------------------------ MODULE MCWallet ------------------------------
(***************************************************************************)
(* Small instances of Wallet.  Each scenario fixes the bundles that exist, *)
(* who signed which request, and the family of configurations trusted.     *)
(***************************************************************************)
EXTENDS Wallet

CONSTANTS c0, c1, c2, rogue

AllConfigs == {c0, c1, c2, rogue}

Op(op, required) == [op |-> op, required |-> required]
Nested(batch, required) ==
  [op |-> "selfExecute", batch |-> batch, required |-> required]
SetImage(c, required) ==
  [op |-> "updateImageHash", image |-> c, required |-> required]
SetImplementation(m, required) ==
  [op |-> "updateImplementation", target |-> m, required |-> required]
SetExtra(c, t) ==
  [op |-> "setExtraImageHash", image |-> c, expiration |-> t, required |-> TRUE]
SetStatic(r, t) ==
  [op |-> "setStaticDigest", request |-> r, expiration |-> t, required |-> TRUE]
AddStatic(S) == [op |-> "addStaticDigests", requests |-> S, required |-> TRUE]
SessionNonce(n, required) ==
  [op |-> "requireSessionNonce", gapNonce |-> n, required |-> required]
NonExpired(t) ==
  [op |-> "requireNonExpired", expiration |-> t, required |-> TRUE]
MinNonce(n) == [op |-> "requireMinNonce", nonce |-> n, required |-> TRUE]

\* Nonces: two per space (bound), so that a space is used up after two.
Size == 2
Raw(space, nonce) == space * Size + nonce
Ask(space, nonce, batch) == [nonce |-> Raw(space, nonce), batch |-> batch]

-----------------------------------------------------------------------------
(* Replay: two spaces, requests that compete for a nonce, calls that let   *)
(* foreign code re-enter, optional calls and a nested bundle.              *)

ReplaySpaces == {0, 1, 2}
ReplaySession == 2
ReplayBody ==
  [ empty |-> <<>>,
    calls |-> <<Op("call", FALSE), Op("call", TRUE)>>,
    outer |-> <<Nested("inner", FALSE), MinNonce(Raw(1, 1))>>,
    inner |-> <<Op("createContract", TRUE)>> ]
ReplayRequests ==
  { Ask(0, 0, "calls"), Ask(0, 0, "empty"), Ask(0, 1, "calls"),
    Ask(1, 0, "outer"), Ask(1, 1, "calls") }

-----------------------------------------------------------------------------
(* Governance: the configuration is rotated, the wallet downgraded to the  *)
(* code that trusts its first configuration again, another configuration   *)
(* trusted for a while, a request approved in advance, and a rogue         *)
(* configuration has signed requests that would put it in charge.          *)

GovernBody ==
  [ rotate   |-> <<SetImage(c1, TRUE), Op("call", FALSE)>>,
    migrate  |-> <<SetImplementation("MainModuleUpgradable", TRUE), Op("call", FALSE),
                   SetImage(c2, TRUE)>>,
    back     |-> <<SetImplementation("MainModule", TRUE),
                   SetImplementation(NotContract, FALSE)>>,
    extra    |-> <<SetExtra(c2, 2), SetStatic(Ask(2, 0, "clear"), 1), Op("call", FALSE)>>,
    clear    |-> <<[op |-> "clearExtraImageHashes", images |-> {c2}, required |-> TRUE]>>,
    approve  |-> <<AddStatic({Ask(2, 0, "clear")}), SetImage(NoConfig, FALSE)>>,
    takeover |-> <<SetImage(rogue, TRUE), SetExtra(rogue, 2),
                   SetStatic(Ask(1, 0, "takeover"), 2)>> ]
GovernRequests ==
  { Ask(0, 0, "rotate"), Ask(0, 1, "back"), Ask(0, 0, "migrate"),
    Ask(1, 0, "extra"), Ask(1, 1, "approve"), Ask(2, 0, "clear"),
    Ask(1, 0, "takeover") }
GovernSigners ==
  [ r \in GovernRequests |->
      CASE r.batch \in {"rotate", "migrate", "extra"} -> {c0}
        [] r.batch = "back"     -> {c1, c2}
        [] r.batch = "approve"  -> {c1, c2}
        [] r.batch = "clear"    -> {}
        [] r.batch = "takeover" -> {rogue} ]

-----------------------------------------------------------------------------
(* Sessions: requests of the session space, with a gap nonce that is       *)
(* required, one that is optional, and one request without.                *)

Session == 3
SessionBody ==
  [ upgrade |-> <<SetImage(c1, TRUE)>>,
    first   |-> <<SessionNonce(1, TRUE), Op("call", TRUE)>>,
    second  |-> <<SessionNonce(2, TRUE), NonExpired(0)>>,
    third   |-> <<SessionNonce(3, FALSE), Op("call", FALSE)>> ]
SessionRequests ==
  { Ask(0, 0, "upgrade"), Ask(Session, 0, "first"), Ask(Session, 0, "second"),
    Ask(Session, 0, "third"), Ask(Session, 1, "first") }

-----------------------------------------------------------------------------
ReplaySigners == [r \in ReplayRequests |-> {c0}]

\* What the trusted configurations sign and approve.
Trusted == {c0, c1, c2}
ReplayBatches == DOMAIN ReplayBody
=============================================================================
