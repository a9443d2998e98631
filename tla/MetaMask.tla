------------------------------ MODULE MetaMask ------------------------------
(***************************************************************************)
(* The MetaMask SDK connector (connectors/src/metaMask.ts) between its     *)
(* wallet and the store of a Config.  Unlike the injected connector it     *)
(* announces a switch itself once the wallet is on the chain, registers    *)
(* its closures after the switch, and prompts in a reconnect that finds no *)
(* accounts.                                                               *)
(*                                                                         *)
(* The wallet is seen as the page sees it: its answers and its events      *)
(* arrive in order.                                                        *)
(***************************************************************************)
EXTENDS Connector

CONSTANTS
    Extension,      \* sdk.isExtensionActive(): the browser extension, or the mobile app
    Patient,        \* TRUE: the wallet changes only while nothing is in flight
    Breaks          \* TRUE: sdk.terminate() may fail

\* What the constants are (checked where they get their values).
MetaMaskAssumption == {Extension, Patient, Breaks} \subseteq BOOLEAN

VARIABLES
    granted, chain,     \* the wallet: accounts are shared with the page; chain
    listening           \* the closures registered on the provider

vars == <<granted, chain, listening, connector>>

WhenDisconnected == (listening \ {"chainChanged", "disconnect"}) \cup {"connect"}
WhenConnected == (listening \ {"connect"}) \cup {"accountsChanged", "chainChanged", "disconnect"}

\* The end of onDisconnect.
OnDisconnect == EmitDisconnect /\ listening' = WhenDisconnected

-----------------------------------------------------------------------------
\* connect({ chainId }), with a chain or without.
Connect(s, want) ==
    /\ connection = None
    /\ Start(s, "connect.prompt", want)
    /\ status' = "connecting"
    /\ UNCHANGED <<granted, chain, listening, connection, on, temps>>

Fail(s) ==
    /\ End(s)
    /\ status' = Failed
    /\ UNCHANGED <<granted, chain, listening, connection, on, temps>>

ConnectReject(s) == At(s, "connect.prompt") /\ Fail(s)

\* The closures are registered, what the connector returns is stored.
Connected(s, ch, acc) ==
    /\ End(s)
    /\ listening' = WhenConnected
    /\ Stored(ch, acc)
    /\ UNCHANGED <<chain, temps>>

\* The accounts are there.  The provider knows its chain; when another one was
\* asked for, the wallet is to switch first.
WithAccounts(s) ==
    IF job[s].chain \in {None, chain} THEN Connected(s, chain, TRUE)
    ELSE /\ Take(s, "switch.wallet", TRUE, chain)
         /\ UNCHANGED <<chain, listening, store, temps>>

ConnectAccept(s) ==
    /\ At(s, "connect.prompt")
    /\ granted' = TRUE
    /\ WithAccounts(s)

ConnectStore(s) ==
    /\ job[s].at = "connect.store"
    /\ Connected(s, job[s].chain, job[s].acc)
    /\ UNCHANGED granted

\* A page load: setup() and reconnect on mount.
Load ==
    /\ Turn
    /\ listening' = {"connect", "accountsChanged"}
    /\ \E s \in Slots :
         Opened([x \in Slots |-> IF x = s THEN Job("reconnect.accounts", None) ELSE IdleJob])
    /\ UNCHANGED <<granted, chain>>

\* isAuthorized.
Authorized(s) ==
    /\ At(s, "reconnect.accounts")
    /\ IF granted THEN Go(s, "reconnect.connect") /\ UNCHANGED <<connection, status>>
       ELSE /\ End(s)
            /\ IF status = "connecting" THEN connection' = None /\ status' = "disconnected"
               ELSE UNCHANGED <<connection, status>>
    /\ UNCHANGED <<granted, chain, listening, on, temps>>

\* connect({ isReconnecting }): without accounts the user is asked for them.
Reconnected(s) ==
    /\ At(s, "reconnect.connect")
    /\ IF granted THEN Connected(s, chain, granted)
       ELSE Go(s, "connect.prompt") /\ UNCHANGED <<chain, listening, store, temps>>
    /\ UNCHANGED granted

-----------------------------------------------------------------------------
Disconnect(s) ==
    /\ connection # None
    /\ Start(s, "disconnect.wallet", None)
    /\ listening' = WhenDisconnected
    /\ UNCHANGED <<granted, chain, store, temps>>

\* sdk.terminate().  An empty accountsChanged of it ends the connection a moment
\* earlier; the action removes what is left.
DisconnectDone(s) ==
    /\ At(s, "disconnect.wallet")
    /\ End(s)
    /\ granted' = FALSE
    /\ Removed
    /\ UNCHANGED <<chain, listening, temps>>

\* It fails: the connection stays, its closures are gone.
DisconnectFail(s) ==
    /\ Breaks /\ At(s, "disconnect.wallet")
    /\ End(s)
    /\ UNCHANGED <<granted, chain, listening, store, temps>>

-----------------------------------------------------------------------------
SwitchChain(s, ch) ==
    /\ connection # None
    /\ Start(s, "switch.wallet", ch)
    /\ UNCHANGED <<granted, chain, listening, store, temps>>

\* The user rejects the switch, or adding the chain; a connect fails with it.
SwitchReject(s) ==
    /\ At(s, "switch.wallet")
    /\ IF job[s].was # None THEN Fail(s)
       ELSE End(s) /\ UNCHANGED <<granted, chain, listening, store, temps>>

\* The wallet answers and has switched, with chainChanged or without it, or it
\* has only added the chain.
SwitchAnswer(s) ==
    /\ At(s, "switch.wallet")
    /\ \/ /\ chain' = job[s].chain /\ "chainChanged" \in listening
          /\ EmitChange(chain', [job EXCEPT ![s].at = "switch.confirm"])
       \/ /\ chain' \in {job[s].chain, chain}
          /\ Go(s, "switch.confirm")
          /\ UNCHANGED <<store, temps>>
    /\ UNCHANGED <<granted, listening>>

\* eth_chainId says the chain asked for: the connector announces it itself.
SwitchConfirm(s) ==
    /\ At(s, "switch.confirm") /\ chain = job[s].chain
    /\ EmitChange(chain, [job EXCEPT ![s] = Return(job[s])])
    /\ UNCHANGED <<granted, chain, listening>>

\* The wallet cannot switch, or does not say so in twenty tries: a connect goes
\* on with the chain it read before.
SwitchFail(s) ==
    /\ \/ At(s, "switch.wallet")
       \/ At(s, "switch.confirm") /\ chain # job[s].chain
    /\ ReturnsUnswitched(s)
    /\ UNCHANGED <<granted, chain, listening, store, temps>>

-----------------------------------------------------------------------------
WalletActs == Turn /\ (Patient => Calm)

\* chainChanged
WalletChain(ch) ==
    /\ WalletActs /\ ch # chain
    /\ chain' = ch
    /\ IF "chainChanged" \in listening THEN EmitChange(ch, job)
       ELSE UNCHANGED <<store, temps, job>>
    /\ UNCHANGED <<granted, listening>>

\* accountsChanged without accounts: not believed of the mobile app.
WalletLock ==
    /\ WalletActs /\ granted
    /\ granted' = FALSE
    /\ IF Extension /\ "accountsChanged" \in listening THEN OnDisconnect
       ELSE UNCHANGED <<store, listening>>
    /\ UNCHANGED <<chain, temps, job>>

\* accountsChanged with accounts: a connect when nobody is connected.
WalletAccounts(s) ==
    /\ WalletActs /\ "accountsChanged" \in listening
    /\ granted' = TRUE
    /\ IF "connect" \in on
       THEN Start(s, "onConnect", chain) /\ UNCHANGED connection
       ELSE /\ connection' = IF "change" \in on /\ connection # None
                             THEN [connection EXCEPT !.acc = TRUE] ELSE connection
            /\ UNCHANGED job
    /\ UNCHANGED <<chain, listening, status, on, temps>>

\* The wallet connects by itself: onConnect asks for the accounts.
WalletConnects(s) ==
    /\ WalletActs /\ "connect" \in listening
    /\ granted' = TRUE
    /\ Start(s, "onConnect", chain)
    /\ UNCHANGED <<chain, listening, store, temps>>

OnConnect(s) ==
    /\ At(s, "onConnect")
    /\ End(s)
    /\ IF granted THEN EmitConnect(job[s].chain, granted) /\ listening' = WhenConnected
       ELSE UNCHANGED <<store, listening>>
    /\ UNCHANGED <<granted, chain, temps>>

\* The provider loses the wallet.
WalletDisconnects ==
    /\ WalletActs /\ "disconnect" \in listening
    /\ granted' = FALSE
    /\ OnDisconnect
    /\ UNCHANGED <<chain, temps, job>>

\* ... or is about to reconnect to it (1013), which the accounts tell.
WalletBlinks(s) ==
    /\ WalletActs /\ "disconnect" \in listening
    /\ Start(s, "onDisconnect", None)
    /\ UNCHANGED <<granted, chain, listening, store, temps>>

OnDisconnect1013(s) ==
    /\ At(s, "onDisconnect")
    /\ End(s)
    /\ IF granted THEN UNCHANGED <<store, listening>> ELSE OnDisconnect
    /\ UNCHANGED <<granted, chain, temps>>

-----------------------------------------------------------------------------
Init ==
    /\ granted = FALSE /\ chain \in Chains
    /\ listening = {"connect", "accountsChanged"}
    /\ ConnectorInit

Answer(s) ==
    \/ ConnectReject(s) \/ ConnectAccept(s)
    \/ Authorized(s) \/ Reconnected(s)
    \/ DisconnectDone(s) \/ DisconnectFail(s)
    \/ SwitchReject(s) \/ SwitchAnswer(s) \/ SwitchConfirm(s) \/ SwitchFail(s)
    \/ OnConnect(s) \/ OnDisconnect1013(s)

Call(s) ==
    \/ \E want \in Chains \cup {None} : Connect(s, want)
    \/ Disconnect(s)
    \/ \E ch \in Chains : SwitchChain(s, ch)

Wallet ==
    \/ \E ch \in Chains : WalletChain(ch)
    \/ WalletLock
    \/ \E s \in Slots : WalletAccounts(s) \/ WalletConnects(s) \/ WalletBlinks(s)
    \/ WalletDisconnects

Next ==
    \/ \E s \in Slots : ConnectStore(s) \/ Answer(s) \/ Call(s)
    \/ Wallet
    \/ Load

Spec == Init /\ [][Next]_vars

\* The wallet answers every request, and a connect stores what it was given.
FairSpec ==
    /\ Spec
    /\ \A s \in Slots : WF_vars(ConnectStore(s)) /\ WF_vars(Answer(s))

-----------------------------------------------------------------------------
JobPlaces == {"idle", "connect.prompt", "connect.store", "reconnect.accounts",
              "reconnect.connect", "disconnect.wallet", "switch.wallet", "switch.confirm",
              "onConnect", "onDisconnect"}

\* The types of the variables and the places a call may be at.
TypeOK ==
    /\ granted \in BOOLEAN
    /\ chain \in Chains
    /\ listening \subseteq {"connect", "accountsChanged", "chainChanged", "disconnect"}
    /\ ConnectorTypes(JobPlaces)

\* The connection of the store is the wallet's: its chain, and its accounts but
\* for the mobile app, whose empty account list is not believed.
TracksWallet ==
    Calm /\ connection # None =>
        connection.chain = chain /\ (Extension => connection.acc = granted)

\* A connection always has an account, even one restored from a wallet that was
\* locked while it was restored.
ConnectionHasAccount == connection # None => connection.acc
=============================================================================
