------------------------------- MODULE Porto -------------------------------
(***************************************************************************)
(* One Porto connector (connectors/src/porto.ts) between its wallet and    *)
(* the store of a Config.  It trusts the events of its wallet more than    *)
(* the injected connector does: a switch is over when the wallet answers,  *)
(* and accountsChanged never ends a connection.                            *)
(*                                                                         *)
(* The wallet is seen as the page sees it: its answers and its events      *)
(* arrive in order, and it announces the changes it makes.                 *)
(***************************************************************************)
EXTENDS Connector

CONSTANTS
    DefaultChain,   \* config.chains[0]
    Patient,        \* TRUE: the wallet changes only while nothing is in flight
    Empties,        \* TRUE: the wallet may take all accounts back
    Breaks          \* TRUE: a request of the page may fail

\* What the constants are (checked where they get their values).
PortoAssumption ==
    /\ DefaultChain \in Chains
    /\ {Patient, Empties, Breaks} \subseteq BOOLEAN

VARIABLES
    granted, chain,     \* the wallet: accounts are shared with the page; chain
    listening           \* the closures registered on the provider

wallet == <<granted, chain>>
vars == <<wallet, listening, connector>>

WhenDisconnected == (listening \ {"chainChanged", "disconnect"}) \cup {"connect"}

WhenConnected == (listening \ {"connect"}) \cup {"accountsChanged", "chainChanged", "disconnect"}

-----------------------------------------------------------------------------
\* connect(): wallet_connect, with the chains of the Config.
Connect(s) ==
    /\ connection = None
    /\ Start(s, "connect.prompt", None)
    /\ status' = "connecting"
    /\ UNCHANGED <<wallet, listening, connection, on, temps>>

Fail(s) ==
    /\ End(s)
    /\ status' = Failed
    /\ UNCHANGED <<wallet, listening, connection, on, temps>>

ConnectReject(s) == At(s, "connect.prompt") /\ Fail(s)

\* What the connector returns is stored in the same turn.
Connected(s, ch, acc) ==
    /\ End(s)
    /\ listening' = WhenConnected
    /\ Stored(ch, acc)
    /\ UNCHANGED temps

\* The wallet chooses the chain of its answer.
ConnectAccept(s) ==
    /\ At(s, "connect.prompt")
    /\ granted' = TRUE /\ chain' \in Chains
    /\ Connected(s, chain', TRUE)

\* A page load: setup() listens for `connect`, reconnect asks isAuthorized.
Load ==
    /\ Turn
    /\ listening' = {"connect"}
    /\ \E s \in Slots :
         Opened([x \in Slots |-> IF x = s THEN Job("reconnect.accounts", None) ELSE IdleJob])
    /\ UNCHANGED wallet

Authorized(s) ==
    /\ At(s, "reconnect.accounts")
    /\ IF granted THEN Go(s, "reconnect.connect") /\ UNCHANGED <<connection, status>>
       ELSE /\ End(s)
            /\ IF status = "connecting" THEN connection' = None /\ status' = "disconnected"
               ELSE UNCHANGED <<connection, status>>
    /\ UNCHANGED <<wallet, listening, on, temps>>

\* connect({ isReconnecting }) has the first chain of the Config for a default,
\* and makes the wallet switch to it.
Reconnected(s) ==
    /\ At(s, "reconnect.connect")
    /\ IF chain = DefaultChain THEN Connected(s, chain, granted) /\ UNCHANGED wallet
       ELSE /\ job' = [job EXCEPT ![s] = [at |-> "switch.wallet", chain |-> DefaultChain,
                                          acc |-> granted, was |-> chain]]
            /\ UNCHANGED <<wallet, listening, store, temps>>

ConnectStore(s) ==
    /\ job[s].at = "connect.store"
    /\ Connected(s, job[s].chain, job[s].acc)
    /\ UNCHANGED wallet

-----------------------------------------------------------------------------
Disconnect(s) ==
    /\ connection # None
    /\ Start(s, "disconnect.wallet", None)
    /\ listening' = WhenDisconnected
    /\ UNCHANGED <<wallet, store, temps>>

DisconnectDone(s) ==
    /\ At(s, "disconnect.wallet")
    /\ End(s)
    /\ granted' = FALSE
    /\ Removed
    /\ UNCHANGED <<chain, listening, temps>>

\* wallet_disconnect fails: the connection stays, its closures are gone.
DisconnectFail(s) ==
    /\ Breaks /\ At(s, "disconnect.wallet")
    /\ End(s)
    /\ UNCHANGED <<wallet, listening, store, temps>>

SwitchChain(s, ch) ==
    /\ connection # None
    /\ Start(s, "switch.wallet", ch)
    /\ UNCHANGED <<wallet, listening, store, temps>>

\* The wallet switches; the page hears of it if it listens.
SwitchDone(s) ==
    /\ At(s, "switch.wallet")
    /\ chain' = job[s].chain
    /\ LET jobs == [job EXCEPT ![s] = Return(job[s])]
       IN  IF "chainChanged" \in listening THEN EmitChange(chain', jobs)
           ELSE job' = jobs /\ UNCHANGED <<store, temps>>
    /\ UNCHANGED <<granted, listening>>

\* It does not: a reconnect goes on with the chain it read, or fails with the user.
SwitchFail(s) ==
    /\ Breaks /\ At(s, "switch.wallet")
    /\ \/ /\ ReturnsUnswitched(s)
          /\ UNCHANGED <<wallet, listening, store, temps>>
       \/ job[s].was # None /\ Fail(s)

-----------------------------------------------------------------------------
WalletActs == Turn /\ (Patient => Calm)

\* chainChanged
WalletChain(ch) ==
    /\ WalletActs /\ ch # chain
    /\ chain' = ch
    /\ IF "chainChanged" \in listening THEN EmitChange(ch, job)
       ELSE UNCHANGED <<store, temps, job>>
    /\ UNCHANGED <<granted, listening>>

\* accountsChanged, with accounts or without.
WalletAccounts(acc) ==
    /\ WalletActs
    /\ acc \/ Empties
    /\ granted' = acc
    /\ connection' = IF "accountsChanged" \in listening /\ "change" \in on /\ connection # None
                     THEN [connection EXCEPT !.acc = acc] ELSE connection
    /\ UNCHANGED <<chain, listening, status, on, temps, job>>

\* The wallet connects by itself: onConnect asks for the accounts.
WalletConnects(s) ==
    /\ WalletActs /\ "connect" \in listening
    /\ granted' = TRUE
    /\ Start(s, "onConnect", chain)
    /\ UNCHANGED <<chain, listening, store, temps>>

OnConnect(s) ==
    /\ At(s, "onConnect")
    /\ End(s)
    /\ IF granted THEN EmitConnect(job[s].chain, granted) /\ listening' = WhenConnected
       ELSE UNCHANGED <<store, listening>>
    /\ UNCHANGED <<wallet, temps>>

\* The wallet ends the connection.
WalletDisconnects ==
    /\ WalletActs /\ "disconnect" \in listening
    /\ granted' = FALSE
    /\ EmitDisconnect
    /\ listening' = WhenDisconnected
    /\ UNCHANGED <<chain, temps, job>>

-----------------------------------------------------------------------------
Init ==
    /\ granted = FALSE /\ chain \in Chains
    /\ listening = {"connect"}
    /\ ConnectorInit

Answer(s) ==
    \/ ConnectReject(s) \/ ConnectAccept(s)
    \/ Authorized(s) \/ Reconnected(s)
    \/ DisconnectDone(s) \/ DisconnectFail(s)
    \/ SwitchDone(s) \/ SwitchFail(s)
    \/ OnConnect(s)

Call(s) == Connect(s) \/ Disconnect(s) \/ \E ch \in Chains : SwitchChain(s, ch)

Wallet ==
    \/ \E ch \in Chains : WalletChain(ch)
    \/ \E acc \in BOOLEAN : WalletAccounts(acc)
    \/ \E s \in Slots : WalletConnects(s)
    \/ WalletDisconnects

Next ==
    \/ \E s \in Slots : ConnectStore(s) \/ Answer(s) \/ Call(s)
    \/ Wallet
    \/ Load

Spec == Init /\ [][Next]_vars

-----------------------------------------------------------------------------
JobPlaces == {"idle", "connect.prompt", "connect.store", "reconnect.accounts",
              "reconnect.connect", "disconnect.wallet", "switch.wallet", "onConnect"}

\* The types of the variables and the places a call may be at.
TypeOK ==
    /\ granted \in BOOLEAN
    /\ chain \in Chains
    /\ listening \subseteq {"connect", "accountsChanged", "chainChanged", "disconnect"}
    /\ ConnectorTypes(JobPlaces)

\* The connection of the store is the wallet's, accounts and chain.
TracksWallet ==
    Calm /\ connection # None => connection.acc = granted /\ connection.chain = chain

=============================================================================
