------------------------------ MODULE Connector ------------------------------
(***************************************************************************)
(* What the connectors share: one connector's place in the store of a      *)
(* Config, the listeners on its emitter, and the calls and handlers that   *)
(* are in flight between two answers of the wallet.                        *)
(***************************************************************************)
EXTENDS Naturals

CONSTANTS
    Chains,
    None,
    Slots       \* bound: calls and handlers in flight

\* What the constants are (checked where they get their values).
ConnectorAssumption ==
    /\ None \notin Chains
    /\ None \notin [chain : Chains \cup {None}, acc : BOOLEAN]

VARIABLES
    connection, \* the store's connection of this connector, or None
    status,     \* ... and the status of the store
    on,         \* Config handlers on the emitter
    temps,      \* listeners of switchChain on `change`: <<call, chain>>
    job         \* the calls and handlers in flight

store == <<connection, status, on>>
connector == <<store, temps, job>>

\* A call or a handler: where it is, the chain it is about, whether it was given
\* an account, and the chain it read before it switched (inside connect).
Job(at, ch) == [at |-> at, chain |-> ch, acc |-> FALSE, was |-> None]
IdleJob == Job("idle", None)
InFlight(s) == job[s].at # "idle"
Calm == \A s \in Slots : ~InFlight(s)

\* Storing a connection follows in the same turn of the event loop.
Turn == \A s \in Slots : job[s].at # "connect.store"
At(s, place) == Turn /\ job[s].at = place

Start(s, at, ch) == Turn /\ ~InFlight(s) /\ job' = [job EXCEPT ![s] = Job(at, ch)]
Go(s, at) == job' = [job EXCEPT ![s].at = at]

\* A call goes on with what it was told of accounts and of the chain.
Take(s, at, acc, was) ==
    job' = [job EXCEPT ![s] = [at |-> at, chain |-> job[s].chain, acc |-> acc, was |-> was]]

End(s) == job' = [job EXCEPT ![s] = IdleJob]

\* switchChain returns, to the page or to the connect it is part of.
Return(j) == IF j.was # None THEN [j EXCEPT !.at = "connect.store"] ELSE IdleJob
Returns(s) == job' = [job EXCEPT ![s] = Return(job[s])]

\* ... though it failed: a connect goes on with the chain it read before.
ReturnsUnswitched(s) ==
    job' = [job EXCEPT ![s] = Return([job[s] EXCEPT !.chain = job[s].was])]

\* The listener of a switch that failed: nobody takes it off the emitter.
Forgotten(s) == {IF x[1] = s THEN <<None, x[2]>> ELSE x : x \in temps}

-----------------------------------------------------------------------------
(***************************************************************************)
(* What an event of the connector does                                     *)
(***************************************************************************)

\* emit('change', { chainId }): the waiting switchChain calls and the Config.
EmitChange(ch, jobs) ==
    /\ temps' = {x \in temps : x[2] # ch}
    /\ connection' = IF "change" \in on /\ connection # None
                     THEN [connection EXCEPT !.chain = ch] ELSE connection
    /\ job' = [s \in Slots |-> IF jobs[s].at = "switch.event" /\ jobs[s].chain = ch
                               THEN Return(jobs[s]) ELSE jobs[s]]
    /\ UNCHANGED <<status, on>>

\* emit('disconnect'): the handler of the Config, when it is registered.
EmitDisconnect ==
    IF "disconnect" \in on
    THEN /\ connection' = None /\ status' = "disconnected"
         /\ on' = IF connection # None THEN {"connect"} ELSE on
    ELSE UNCHANGED store

\* The handler for `connect` of the Config: ignored while connecting.
Adopt(ch, acc, more) ==
    IF "connect" \in on /\ status # "connecting"
    THEN /\ connection' = [chain |-> ch, acc |-> acc]
         /\ status' = "connected"
         /\ on' = on \cup {"disconnect"} \cup more
    ELSE UNCHANGED store

\* emit('connect', ..): `change` is only hung on an emitter nobody listens to
\* `change` on.
EmitConnect(ch, acc) == Adopt(ch, acc, IF temps = {} THEN {"change"} ELSE {})

-----------------------------------------------------------------------------
(***************************************************************************)
(* The actions connect and disconnect, on this connector                   *)
(***************************************************************************)

\* Mistake: the connection a call may find is not looked at
FailedBlind == "disconnected"

\* connect failed: a connection there is stays.
Failed == IF connection # None THEN "connected" ELSE "disconnected"

\* connect and reconnect store what the connector returned.
Stored(ch, acc) ==
    /\ connection' = [chain |-> ch, acc |-> acc]
    /\ status' = "connected"
    /\ on' = {"change", "disconnect"}

\* disconnect removes the connection.
Removed ==
    /\ connection' = None
    /\ status' = "disconnected"
    /\ on' = (on \ {"change", "disconnect"}) \cup {"connect"}

\* The start of the page: nothing is connected.
Opened(jobs) ==
    /\ connection' = None
    /\ on' = {"connect"}
    /\ temps' = {}
    /\ job' = jobs
    /\ status' = IF \E s \in Slots : jobs[s] # IdleJob THEN "connecting" ELSE "disconnected"

ConnectorInit ==
    /\ connection = None /\ status = "disconnected" /\ on = {"connect"}
    /\ temps = {} /\ job = [s \in Slots |-> IdleJob]

\* The types of what the connectors share.
ConnectorTypes(places) ==
    /\ connection \in [chain : Chains, acc : BOOLEAN] \cup {None}
    /\ status \in {"connecting", "connected", "disconnected"}
    /\ on \subseteq {"connect", "change", "disconnect"}
    /\ temps \subseteq (Slots \cup {None}) \X Chains
    /\ job \in [Slots -> [at : places, chain : Chains \cup {None}, acc : BOOLEAN,
                        was : Chains \cup {None}]]

\* Once nothing is in flight the status is "connected" with a connection, and
\* without one "disconnected": no call leaves it at "connecting".
StatusIsConnection ==
    Calm => status = IF connection # None THEN "connected" ELSE "disconnected"

\* A switch of the chain, by the page or inside connect.
Switching(s) == job[s].at \in {"switch.wallet", "switch.confirm", "switch.event", "switch.add"}

\* Every switchChain returns, whatever events the wallet leaves out.
SwitchesEnd == \A s \in Slots : Switching(s) ~> ~Switching(s)
=============================================================================
