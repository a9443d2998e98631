------------------------------ MODULE Injected ------------------------------
(***************************************************************************)
(* One injected connector (core/src/connectors/injected.ts) between the    *)
(* wallet in the browser and the store of a Config: the provider events it *)
(* listens to, the flags it keeps in storage to simulate a disconnect, and *)
(* its asynchronous connect, disconnect, switchChain and event handlers,   *)
(* composed with what connect, reconnect, disconnect and the Config events *)
(* do with this connector.                                                 *)
(*                                                                         *)
(* The wallet is seen as the page sees it: its answers and its events      *)
(* arrive in order.  Storage is synchronous, so an action is the code from *)
(* one answer or event of the wallet to the next.                          *)
(***************************************************************************)
EXTENDS Connector

CONSTANTS
    Target,         \* parameters.target is set, as for EIP-6963 wallets
    ShimDisconnect, \* parameters.shimDisconnect
    Patient,        \* TRUE: the wallet changes only while nothing is in flight
    Rejects,        \* TRUE: the user may reject a chain switch
    Greets          \* TRUE: the provider may emit `connect` at any time

\* What the constants are (checked where they get their values).
InjectedAssumption ==
    {Target, ShimDisconnect, Patient, Rejects, Greets} \subseteq BOOLEAN

VARIABLES
    granted, chain,     \* the wallet: accounts are shared with the page; chain
    listening,          \* the closures registered on the provider
    disconnected,       \* storage item `${id}.disconnected`
    connectedFlag,      \* storage item `injected.connected`
    left                \* (history) the user's last word was to disconnect

wallet  == <<granted, chain>>
flags   == <<disconnected, connectedFlag>>
vars == <<wallet, listening, flags, connector, left>>

WhenDisconnected == (listening \ {"chainChanged", "disconnect"}) \cup {"connect"}
WhenConnected == (listening \ {"connect"}) \cup {"accountsChanged", "chainChanged", "disconnect"}

\* onDisconnect
OnDisconnect ==
    /\ EmitDisconnect
    /\ listening' = WhenDisconnected

-----------------------------------------------------------------------------
(***************************************************************************)
(* connect and reconnect                                                   *)
(***************************************************************************)

\* connect({ chainId }): a prompt of the wallet.
Connect(s, ch) ==
    /\ connection = None
    /\ Start(s, "connect.prompt", ch)
    /\ status' = "connecting"
    /\ UNCHANGED <<wallet, listening, flags, connection, on, temps, left>>

\* The action gives up.
Fail(s) ==
    /\ End(s)
    /\ status' = Failed
    /\ UNCHANGED <<wallet, listening, flags, connection, on, left>>

ConnectReject(s) == At(s, "connect.prompt") /\ Fail(s) /\ UNCHANGED temps

\* The accounts are there: the closures are registered, the chain is asked for.
ConnectAccept(s) ==
    /\ At(s, "connect.prompt")
    /\ granted' = TRUE
    /\ Take(s, "connect.chain", TRUE, job[s].was)
    /\ listening' = WhenConnected
    /\ left' = FALSE
    /\ UNCHANGED <<chain, flags, store, temps>>

\* The flags are set, and the action stores the connection.
Connected(s, ch) ==
    /\ End(s)
    /\ disconnected' = (disconnected /\ ~ShimDisconnect)
    /\ connectedFlag' = (connectedFlag \/ ~Target)
    /\ Stored(ch, job[s].acc)
    /\ UNCHANGED <<wallet, listening, temps, left>>

\* Mistake: the chain asked for is stored, switched to or not
ConnectChainTrusting(s) ==
    /\ At(s, "connect.chain")
    /\ Connected(s, IF job[s].chain = None THEN chain ELSE job[s].chain)

\* The chain came: when another one was asked for, the wallet is to switch first.
ConnectChain(s) ==
    /\ At(s, "connect.chain")
    /\ IF job[s].chain \in {None, chain} THEN Connected(s, chain)
       ELSE /\ Take(s, "switch.wallet", job[s].acc, chain)
            /\ temps' = temps \cup {<<s, job[s].chain>>}
            /\ UNCHANGED <<wallet, listening, flags, store, left>>

\* ... and it did, or it could not.
ConnectStore(s) == job[s].at = "connect.store" /\ Connected(s, job[s].chain)

\* Mistake: the shim is not looked at
MayReconnectAlways == ~Target => connectedFlag

\* isAuthorized before it asks the wallet.
MayReconnect ==
    /\ ShimDisconnect => ~disconnected
    /\ ~Target => connectedFlag

\* A page load: createConfig and setup(), then reconnect on mount.
Load ==
    /\ Turn
    /\ listening' = IF Target THEN {"connect", "accountsChanged"} ELSE {}
    /\ \E s \in Slots :
         Opened([x \in Slots |-> IF x = s /\ MayReconnect THEN Job("reconnect.accounts", None)
                                 ELSE IdleJob])
    /\ UNCHANGED <<wallet, flags, left>>

\* isAuthorized: eth_accounts.
Authorized(s) ==
    /\ At(s, "reconnect.accounts")
    /\ IF granted THEN Go(s, "reconnect.connect") /\ UNCHANGED <<connection, status>>
       ELSE /\ End(s)
            /\ IF status = "connecting" THEN connection' = None /\ status' = "disconnected"
               ELSE UNCHANGED <<connection, status>>
    /\ UNCHANGED <<wallet, listening, flags, on, temps, left>>

\* connect({ isReconnecting }): eth_accounts again, whatever it returns.
Reconnected(s) ==
    /\ At(s, "reconnect.connect")
    /\ Take(s, "connect.chain", granted, job[s].was)
    /\ listening' = WhenConnected
    /\ UNCHANGED <<wallet, flags, store, temps, left>>

-----------------------------------------------------------------------------
(***************************************************************************)
(* disconnect                                                              *)
(***************************************************************************)

Disconnect(s) ==
    /\ connection # None
    /\ Start(s, "disconnect.revoke", None)
    /\ listening' = WhenDisconnected
    /\ UNCHANGED <<wallet, flags, store, temps, left>>

\* wallet_revokePermissions answered, failed or timed out.  A wallet that
\* revokes also emits an empty accountsChanged, which ends the connection a
\* moment earlier; the flag is written and the action removes what is left.
DisconnectDone(s) ==
    /\ At(s, "disconnect.revoke")
    /\ End(s)
    /\ granted' \in {granted, FALSE}
    /\ disconnected' = (disconnected \/ ShimDisconnect)
    /\ connectedFlag' = (connectedFlag /\ Target)
    /\ Removed
    /\ left' = TRUE
    /\ UNCHANGED <<chain, listening, temps>>

-----------------------------------------------------------------------------
(***************************************************************************)
(* switchChain                                                             *)
(***************************************************************************)

\* The call waits for the answer and for a `change` event with the chain.
SwitchChain(s, ch) ==
    /\ connection # None
    /\ Start(s, "switch.wallet", ch)
    /\ temps' = temps \cup {<<s, ch>>}
    /\ UNCHANGED <<wallet, listening, flags, store, left>>

\* The user rejects the switch, or adding the chain; a connect fails with it.
SwitchReject(s) ==
    /\ Rejects /\ At(s, "switch.wallet")
    /\ temps' = Forgotten(s)
    /\ IF job[s].was # None THEN Fail(s)
       ELSE End(s) /\ UNCHANGED <<wallet, listening, flags, store, left>>

\* The wallet cannot switch: a connect goes on with the chain it read before.
SwitchFail(s) ==
    /\ Rejects /\ At(s, "switch.wallet")
    /\ temps' = Forgotten(s)
    /\ ReturnsUnswitched(s)
    /\ UNCHANGED <<wallet, listening, flags, store, left>>

\* The wallet switches and emits chainChanged.
SwitchLoud(s) ==
    /\ At(s, "switch.wallet") /\ "chainChanged" \in listening
    /\ chain' = job[s].chain
    /\ EmitChange(chain', [job EXCEPT ![s].at = "switch.confirm"])
    /\ UNCHANGED <<granted, listening, flags, left>>

\* The wallet switches, but the event does not come.
SwitchSilent(s) ==
    /\ At(s, "switch.wallet")
    /\ chain' = job[s].chain
    /\ Go(s, "switch.confirm")
    /\ UNCHANGED <<granted, listening, flags, store, temps, left>>

\* Nothing to announce: the call waits for the event, which may have come.
AwaitEvent(s) ==
    /\ job' = [job EXCEPT ![s] = IF <<s, job[s].chain>> \in temps
                                 THEN [job[s] EXCEPT !.at = "switch.event"] ELSE Return(job[s])]
    /\ UNCHANGED <<store, temps>>

\* Mistake: the answer is trusted, the chain is not announced
SwitchConfirmTrusting(s) ==
    /\ At(s, "switch.confirm")
    /\ AwaitEvent(s)
    /\ UNCHANGED <<wallet, listening, flags, left>>

\* The request answered: the chain is read, and announced if it is the one.
SwitchConfirm(s) ==
    /\ At(s, "switch.confirm")
    /\ IF chain = job[s].chain THEN EmitChange(chain, [job EXCEPT ![s].at = "switch.event"])
       ELSE AwaitEvent(s)
    /\ UNCHANGED <<wallet, listening, flags, left>>

-----------------------------------------------------------------------------
(***************************************************************************)
(* Events of the provider                                                  *)
(***************************************************************************)

\* The user acts in the wallet, or the provider speaks by itself.
WalletActs == Turn /\ (Patient => Calm)

\* chainChanged
WalletChain(ch) ==
    /\ WalletActs /\ ch # chain
    /\ chain' = ch
    /\ IF "chainChanged" \in listening THEN EmitChange(ch, job)
       ELSE UNCHANGED <<store, temps, job>>
    /\ UNCHANGED <<granted, listening, flags, left>>

\* accountsChanged without accounts
WalletLock ==
    /\ WalletActs /\ granted
    /\ granted' = FALSE
    /\ IF "accountsChanged" \in listening THEN OnDisconnect ELSE UNCHANGED <<store, listening>>
    /\ UNCHANGED <<chain, flags, temps, job, left>>

\* accountsChanged with accounts: the user connects or picks another account
\* in the wallet.  It is a connect while the emitter listens for `connect`.
WalletAccounts(s) ==
    /\ WalletActs
    /\ granted' = TRUE
    /\ left' = FALSE
    /\ IF "accountsChanged" \in listening /\ "connect" \in on
       THEN Start(s, "accounts.chain", None) /\ UNCHANGED connection
       ELSE /\ UNCHANGED job
            /\ connection' = IF "accountsChanged" \in listening /\ "change" \in on /\ connection # None
                             THEN [connection EXCEPT !.acc = TRUE] ELSE connection
    /\ UNCHANGED <<chain, listening, flags, status, on, temps>>

\* ... eth_chainId: onConnect is called with it, and the shim removed.
AccountsChain(s) ==
    /\ At(s, "accounts.chain")
    /\ job' = [job EXCEPT ![s] = Job("onConnect", chain)]
    /\ disconnected' = (disconnected /\ ~ShimDisconnect)
    /\ UNCHANGED <<wallet, listening, connectedFlag, store, temps, left>>

\* onConnect: eth_accounts, then `connect` with the chain it was called with.
OnConnect(s) ==
    /\ At(s, "onConnect")
    /\ End(s)
    /\ IF granted THEN EmitConnect(job[s].chain, granted) /\ listening' = WhenConnected
       ELSE UNCHANGED <<store, listening>>
    /\ UNCHANGED <<wallet, flags, temps, left>>

\* The EIP-1193 `connect` event: the provider reached its chain.
ProviderConnect(s) ==
    /\ Greets /\ WalletActs /\ "connect" \in listening
    /\ Start(s, "onConnect", chain)
    /\ UNCHANGED <<wallet, listening, flags, store, temps, left>>

\* The EIP-1193 `disconnect` event; code 1013 asks for the accounts first.
ProviderDisconnect ==
    /\ WalletActs /\ "disconnect" \in listening
    /\ OnDisconnect
    /\ UNCHANGED <<wallet, flags, temps, job, left>>

ProviderDisconnect1013(s) ==
    /\ WalletActs /\ "disconnect" \in listening
    /\ Start(s, "onDisconnect", None)
    /\ UNCHANGED <<wallet, listening, flags, store, temps, left>>

OnDisconnect1013(s) ==
    /\ At(s, "onDisconnect")
    /\ End(s)
    /\ IF granted THEN UNCHANGED <<store, listening>> ELSE OnDisconnect
    /\ UNCHANGED <<wallet, flags, temps, left>>

-----------------------------------------------------------------------------
Init ==
    /\ granted \in BOOLEAN /\ chain \in Chains
    /\ listening = IF Target THEN {"connect", "accountsChanged"} ELSE {}
    /\ disconnected = FALSE /\ connectedFlag = FALSE
    /\ ConnectorInit
    /\ left = FALSE

\* The wallet answers what it was asked.
Answer(s) ==
    \/ ConnectReject(s) \/ ConnectAccept(s) \/ ConnectChain(s)
    \/ Authorized(s) \/ Reconnected(s)
    \/ DisconnectDone(s)
    \/ SwitchReject(s) \/ SwitchFail(s) \/ SwitchLoud(s) \/ SwitchSilent(s) \/ SwitchConfirm(s)
    \/ AccountsChain(s) \/ OnConnect(s) \/ OnDisconnect1013(s)

Call(s) ==
    \/ \E ch \in Chains \cup {None} : Connect(s, ch)
    \/ Disconnect(s)
    \/ \E ch \in Chains : SwitchChain(s, ch)

Wallet ==
    \/ \E ch \in Chains : WalletChain(ch)
    \/ WalletLock
    \/ \E s \in Slots : WalletAccounts(s) \/ ProviderConnect(s) \/ ProviderDisconnect1013(s)
    \/ ProviderDisconnect

Next ==
    \/ \E s \in Slots : ConnectStore(s) \/ Answer(s) \/ Call(s)
    \/ Wallet
    \/ Load

\* Every request of the page is answered.
Fairness == \A s \in Slots : WF_vars(Answer(s)) /\ WF_vars(ConnectStore(s))

Spec == Init /\ [][Next]_vars /\ Fairness

-----------------------------------------------------------------------------
JobPlaces == {"idle", "connect.prompt", "connect.chain", "connect.store", "reconnect.accounts",
              "reconnect.connect", "disconnect.revoke", "switch.wallet", "switch.confirm",
              "switch.event", "accounts.chain", "onConnect", "onDisconnect"}

\* The types of the variables.
TypeOK ==
    /\ {granted, disconnected, connectedFlag, left} \subseteq BOOLEAN
    /\ chain \in Chains
    /\ listening \subseteq {"connect", "accountsChanged", "chainChanged", "disconnect"}
    /\ ConnectorTypes(JobPlaces)

\* The connection of the store is the one the wallet has: its accounts are
\* shared with the page and its chain is the wallet's.
TracksWallet ==
    Calm /\ connection # None => granted /\ connection.chain = chain

\* A connection always has an account.
ConnectionHasAccount == connection # None => connection.acc

\* After disconnect() nothing connects until the user does, in the page or in
\* the wallet: not a reload, which finds the shim, nor an event of the provider.
StaysDisconnected == left /\ Calm => connection = None
=============================================================================
