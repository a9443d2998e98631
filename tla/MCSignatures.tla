---------------------------- MODULE MCSignatures ----------------------------
(***************************************************************************)
(* Chains of signatures of four configurations, and the signatures of      *)
(* configurations of two to five members, with members listed twice.       *)
(***************************************************************************)
EXTENDS MCChainedSig, Signatures

CONSTANTS alice, bob

ALICE == [address |-> alice, weight |-> 1]
BOB == [address |-> bob, weight |-> 1]

Owners == {alice, bob}
OneWeight == {1}
OneThreshold == {2}
Lists == {<<ALICE, BOB>>, <<ALICE, BOB, ALICE>>, <<ALICE, BOB, BOB, ALICE, BOB>>}

TwoOwners == [threshold |-> 2, members |-> <<ALICE, BOB>>]
OldHistory == {Signed(old, [scope |-> "thisChain", digest |-> Payload("transactions")])}
=============================================================================
