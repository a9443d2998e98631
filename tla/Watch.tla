-------------------------------- MODULE Watch --------------------------------
(***************************************************************************)
(* The watching actions of core (watchBlockNumber, watchBlocks,            *)
(* watchContractEvent, watchPendingTransactions), which are one algorithm: *)
(* a call starts a watcher of viem on the client of a chain and, unless it *)
(* was given a chain or told not to, moves to a new watcher whenever the   *)
(* chain of the Config changes.  The function it returns ends it.          *)
(***************************************************************************)
CONSTANTS
    Chains,     \* the chains of the Config
    Watches,    \* calls of a watching action
    Syncing     \* those with syncConnectedChain and without a chainId

ASSUME WatchAssumption == Syncing \subseteq Watches

VARIABLES
    chainId,    \* of the Config
    phase,      \* of each call: "idle", "on", "off"
    running,    \* the watchers that poll or subscribe: <<call, which, chain>>
    unwatch,    \* which watcher of the call `unwatch` ends
    unlisten    \* which one `unlisten` ends

vars == <<chainId, phase, running, unwatch, unlisten>>

\* The first watcher of a call, a later one, or none.
Which == {"first", "later", "none"}

\* The running watchers of a call.
Of(w) == {r \in running : r[1] = w}

\* Mistake: the watcher before is not ended
Keep(w) == {r \in running : r[1] # w \/ r[2] \in Which}

\* unwatch(), if there is one.
Drop(w) == {r \in running : r[1] # w \/ r[2] # unwatch[w]}

\* Mistake: the new watcher is on the chain of before
OnChain(ch) == chainId

\* getClient({ chainId }): the client of that chain.
Client(ch) == ch

-----------------------------------------------------------------------------
Init ==
    /\ chainId \in Chains
    /\ phase = [w \in Watches |-> "idle"]
    /\ running = {}
    /\ unwatch = [w \in Watches |-> "none"]
    /\ unlisten = [w \in Watches |-> "none"]

\* The call: a first watcher, on the chain given or on that of the Config.
Watch(w) ==
    /\ phase[w] = "idle"
    /\ phase' = [phase EXCEPT ![w] = "on"]
    /\ \E ch \in Chains :
         /\ w \in Syncing => ch = chainId
         /\ running' = running \cup {<<w, "first", Client(ch)>>}
    /\ unwatch' = [unwatch EXCEPT ![w] = "first"]
    /\ unlisten' = [unlisten EXCEPT ![w] = "first"]
    /\ UNCHANGED chainId

\* The calls that follow the chain of the Config.
Following == {w \in Syncing : phase[w] = "on"}

\* The chain of the Config changes: every subscriber moves to a new watcher.
ChainChange(ch) ==
    /\ ch # chainId
    /\ chainId' = ch
    /\ running' = {r \in running : r[1] \in Following => r \in Drop(r[1])}
                    \cup {<<w, "later", Client(ch)>> : w \in Following}
    /\ unwatch' = [w \in Watches |-> IF w \in Following THEN "later" ELSE unwatch[w]]
    /\ UNCHANGED <<phase, unlisten>>

\* The function the call returned: unlisten() and unsubscribe().
Unwatch(w) ==
    /\ phase[w] = "on"
    /\ phase' = [phase EXCEPT ![w] = "off"]
    /\ running' = {r \in running : r[1] # w \/ r[2] # unlisten[w]}
    /\ UNCHANGED <<chainId, unwatch, unlisten>>

Next ==
    \/ \E w \in Watches : Watch(w) \/ Unwatch(w)
    \/ \E ch \in Chains : ChainChange(ch)

Spec == Init /\ [][Next]_vars

-----------------------------------------------------------------------------
\* The types of the variables.
TypeOK ==
    /\ chainId \in Chains
    /\ phase \in [Watches -> {"idle", "on", "off"}]
    /\ running \subseteq Watches \X Which \X Chains
    /\ {unwatch, unlisten} \subseteq [Watches -> Which]

\* A call never has two watchers at work, however often the chain changes: each
\* block would be reported twice (listener, `if (unwatch) unwatch()`).
OneWatcher == \A w \in Watches : \A r, q \in Of(w) : r = q

\* A call that follows the chain watches the chain the Config is on.
FollowsChain == \A w \in Following : \E r \in Of(w) : r[3] = chainId

\* A call on a chain of its own is silent once it is stopped, and its watcher
\* is not disturbed by the chain of the Config before.
FixedStops ==
    \A w \in Watches \ Syncing : phase[w] = "on" <=> Of(w) # {}

=============================================================================
