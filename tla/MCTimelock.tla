----------------------------- MODULE MCTimelock -----------------------------
(* A small timelock: one payment, and one change that removes the notice   *)
(* and raises maxDelay until eta + maxDelay overflows for an eta above 2.  *)
EXTENDS Timelock

CONSTANTS alice, bob

TwoAccounts == {alice, bob}
\* Nothing tells one account from the other.
AccountSymmetry == Permutations(TwoAccounts)
TwoCalls ==
  [ pay    |-> [op |-> "external"],
    change |-> [op |-> "setDelays", min |-> 0, max |-> 5] ]
TwoTxs == DOMAIN TwoCalls
=============================================================================
