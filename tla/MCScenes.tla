------------------------------ MODULE MCScenes ------------------------------
(***************************************************************************)
(* Governance or sessions: a wallet that is asked for the requests of one  *)
(* of two scenes of MCWallet; the others never get in.                     *)
(***************************************************************************)
EXTENDS MCWallet

SceneBody == GovernBody @@ SessionBody
SceneBatches == DOMAIN SceneBody
SceneRequests == GovernRequests \cup SessionRequests
SceneSigners ==
  [r \in SceneRequests |-> IF r \in SessionRequests THEN {c0, c1} ELSE GovernSigners[r]]
SceneTrusted == {r \in SceneRequests : r.batch # "takeover"}
SceneTrustedBatches == SceneBatches \ {"takeover"}
SceneSpaces == 0 .. Session

\* What NeverLocked asks of the requests.
ASSUME UpgradesAreCompleted

\* What ran so far is of one scene.
OneScene ==
  \E requests \in {GovernRequests, SessionRequests} :
    \A r \in Requests \ requests : ledger.accepted[r] = 0
=============================================================================
