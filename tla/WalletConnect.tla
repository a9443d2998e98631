---------------------------- MODULE WalletConnect ----------------------------
(***************************************************************************)
(* The WalletConnect connector (connectors/src/walletConnect.ts): a        *)
(* session that was agreed with a wallet for a set of chains and outlives  *)
(* the page, the chains the page once asked for, kept in storage to notice *)
(* that a later version of the page is configured with new ones, and the   *)
(* closures on the provider.                                               *)
(*                                                                         *)
(* The provider (EthereumProvider) is external: it keeps the session and   *)
(* the chain over page loads, and tells of what the wallet does.  Storage  *)
(* is synchronous.                                                         *)
(***************************************************************************)
EXTENDS Connector

CONSTANTS
    Configurations, \* sets of chains the page may be published with
    Asks,           \* TRUE: connect may be called with a chainId
    RelayFails,     \* TRUE: ending a session may fail
    Patient         \* TRUE: the wallet acts only while nothing is in flight

\* What the constants are (checked where they get their values).
WalletConnectAssumption ==
    /\ Configurations \subseteq SUBSET Chains /\ {} \notin Configurations
    /\ {Asks, RelayFails, Patient} \subseteq BOOLEAN

VARIABLES
    session,    \* the chains of the session, {} when there is none
    chain,      \* provider.chainId
    configured, \* config.chains of the page
    requested,  \* storage item `${id}.requestedChains`
    listening,  \* the closures on the provider
    left        \* (history) the last word was a disconnect of the page

provider == <<session, chain>>
vars == <<provider, configured, requested, listening, left, connector>>

-----------------------------------------------------------------------------
\* isChainsStale: a configured chain was never asked for, unless the session is
\* of chains that are all foreign to the page.
IsChainsStale ==
    /\ ~(session # {} /\ session \cap configured = {})
    /\ ~(configured \subseteq requested)

\* The closures on the provider once connect returns.
WhenConnected == (listening \ {"connect"})
                    \cup {"accountsChanged", "chainChanged", "disconnect", "session_delete"}

\* onDisconnect, for the events disconnect and session_delete.
OnDisconnect ==
    /\ EmitDisconnect
    /\ listening' = {"connect"}
    /\ requested' = {}

-----------------------------------------------------------------------------
(***************************************************************************)
(* connect and reconnect                                                   *)
(***************************************************************************)

\* The connector returns and the action stores the connection.
Connected(s, ch) ==
    /\ End(s)
    /\ Stored(ch, TRUE)
    /\ listening' = WhenConnected

\* Accounts are enabled; with another chain asked for, the wallet is to switch
\* to it, before the closures are registered.
Proceed(s, ch) ==
    IF job[s].chain \in {None, ch}
    THEN Connected(s, ch) /\ UNCHANGED temps
    ELSE /\ Take(s, "switch.wallet", job[s].acc, ch)
         /\ temps' = temps \cup {<<s, job[s].chain>>}
         /\ UNCHANGED <<store, listening>>

\* connect({ chainId }), as far as the look at the session.
Connect(s, ch) ==
    /\ connection = None /\ (ch = None \/ (Asks /\ ch \in configured))
    /\ Start(s, "connect.begin", ch)
    /\ status' = "connecting"
    /\ left' = FALSE
    /\ UNCHANGED <<provider, configured, requested, listening, connection, on, temps>>

\* A stale session is to be ended first, without one the user is asked.
Begin(s) ==
    /\ At(s, "connect.begin")
    /\ CASE session # {} /\ IsChainsStale ->
              Go(s, "connect.end") /\ UNCHANGED <<store, temps, listening>>
         [] session = {} ->
              Go(s, "connect.pair") /\ UNCHANGED <<store, temps, listening>>
         [] OTHER -> Proceed(s, chain)
    /\ UNCHANGED <<provider, configured, requested, left>>

\* provider.disconnect() on a stale session.
EndStale(s) ==
    /\ At(s, "connect.end")
    /\ session' = {}
    /\ Go(s, "connect.pair")
    /\ UNCHANGED <<chain, configured, requested, listening, left, store, temps>>

\* The user declines, or ending the session failed.
Decline(s) ==
    /\ At(s, "connect.pair") \/ (RelayFails /\ At(s, "connect.end"))
    /\ End(s)
    /\ status' = Failed
    /\ UNCHANGED <<provider, configured, requested, listening, left, connection, on, temps>>

\* The user approves some of the chains.
Pair(s) ==
    /\ At(s, "connect.pair")
    /\ session' \in SUBSET configured \ {{}}
    /\ chain' \in session'
    /\ requested' = configured
    /\ Proceed(s, chain')
    /\ UNCHANGED <<configured, left>>

\* A switch inside connect returned.
ConnectStore(s) ==
    /\ job[s].at = "connect.store"
    /\ Connected(s, job[s].chain)
    /\ UNCHANGED <<provider, configured, requested, left, temps>>

\* A page load, maybe of a new version: setup(), then reconnect on mount.
Load(conf) ==
    /\ Turn
    /\ configured' = conf
    /\ listening' = {"connect", "session_delete"}
    /\ \E s \in Slots :
         Opened([x \in Slots |-> IF x = s THEN Job("reconnect", None) ELSE IdleJob])
    /\ UNCHANGED <<provider, requested, left>>

\* isAuthorized, and connect when it is: a stale session is ended.
Reconnect(s) ==
    /\ At(s, "reconnect")
    /\ IF session # {} /\ ~IsChainsStale
       THEN /\ Connected(s, chain)
            /\ UNCHANGED provider
       ELSE /\ session' = {}
            /\ End(s)
            /\ status' = Failed
            /\ UNCHANGED <<chain, listening, connection, on>>
    /\ UNCHANGED <<configured, requested, left, temps>>

-----------------------------------------------------------------------------
(***************************************************************************)
(* disconnect and switchChain                                              *)
(***************************************************************************)

Disconnect(s) ==
    /\ connection # None
    /\ Start(s, "disconnect", None)
    /\ UNCHANGED <<provider, configured, requested, listening, left, store, temps>>

\* The closures go and the chains are forgotten, however it went.
Unbound ==
    /\ listening' = (listening \cup {"connect"})
                       \ {"chainChanged", "disconnect", "accountsChanged", "session_delete"}
    /\ requested' = {}

\* provider.disconnect() ended the session.
DisconnectDone(s) ==
    /\ At(s, "disconnect")
    /\ session' = {}
    /\ End(s) /\ Unbound /\ Removed
    /\ left' = TRUE
    /\ UNCHANGED <<chain, configured, temps>>

\* The relay failed: the error leaves the connection in the store.
DisconnectFail(s) ==
    /\ RelayFails /\ At(s, "disconnect")
    /\ End(s) /\ Unbound
    /\ UNCHANGED <<provider, configured, left, store, temps>>

SwitchChain(s, ch) ==
    /\ connection # None /\ ch \in configured
    /\ Start(s, "switch.wallet", ch)
    /\ temps' = temps \cup {<<s, ch>>}
    /\ UNCHANGED <<provider, configured, requested, listening, left, store>>

\* The wallet is on the chain and says so; the call goes on when the event
\* reached it, and waits for one when it did not.  The chain is written down as
\* one that was asked for.
Switched(s) ==
    /\ At(s, "switch.wallet") /\ job[s].chain \in session
    /\ chain' = job[s].chain
    /\ requested' = requested \cup {chain'}
    /\ IF "chainChanged" \in listening THEN EmitChange(chain', [job EXCEPT ![s].at = "switch.event"])
       ELSE /\ Go(s, "switch.event")
            /\ UNCHANGED <<store, temps>>
    /\ UNCHANGED <<session, configured, listening, left>>

\* The user rejects; the action connect fails with it.  switchChain also fails
\* like this when the wallet knows of no adding.
SwitchReject(s) ==
    /\ \/ At(s, "switch.wallet") \/ At(s, "switch.add")
    /\ temps' = Forgotten(s)
    /\ End(s)
    /\ status' = IF job[s].was # None THEN Failed ELSE status
    /\ UNCHANGED <<provider, configured, requested, listening, left, connection, on>>

\* The chain is not in the session: the wallet is asked to add it.
SwitchUnknown(s) ==
    /\ At(s, "switch.wallet") /\ job[s].chain \notin session
    /\ Go(s, "switch.add")
    /\ temps' = Forgotten(s)
    /\ UNCHANGED <<provider, configured, requested, listening, left, store>>

\* The wallet knows of no adding: connect goes on with the chain it read before.
SwitchUnadded(s) ==
    /\ At(s, "switch.add") /\ job[s].was # None
    /\ ReturnsUnswitched(s)
    /\ UNCHANGED <<provider, configured, requested, listening, left, store, temps>>

\* It is added; that it is also switched to is left to an event of the wallet.
Added(s) ==
    /\ At(s, "switch.add")
    /\ session' = session \cup {job[s].chain}
    /\ requested' = requested \cup {job[s].chain}
    /\ Returns(s)
    /\ UNCHANGED <<chain, configured, listening, left, store, temps>>

-----------------------------------------------------------------------------
(***************************************************************************)
(* Events of the provider                                                  *)
(***************************************************************************)

WalletActs == Turn /\ session # {} /\ (Patient => Calm)

\* chainChanged
WalletChain(ch) ==
    /\ WalletActs /\ ch \in session /\ ch # chain
    /\ chain' = ch
    /\ IF "chainChanged" \in listening THEN EmitChange(ch, job)
       ELSE UNCHANGED connector
    /\ UNCHANGED <<session, configured, requested, listening, left>>

\* session_delete and disconnect: the wallet ends the session.
WalletEnds ==
    /\ WalletActs
    /\ session' = {}
    /\ IF listening \cap {"session_delete", "disconnect"} # {}
       THEN OnDisconnect
       ELSE UNCHANGED <<listening, requested, store>>
    /\ UNCHANGED <<chain, configured, left, temps, job>>

-----------------------------------------------------------------------------
Init ==
    /\ session = {} /\ chain \in Chains
    /\ configured \in Configurations
    /\ requested = {}
    /\ listening = {"connect", "session_delete"}
    /\ left = FALSE
    /\ ConnectorInit

\* What the wallet, its user or the relay answers.
Answer(s) ==
    \/ Begin(s) \/ EndStale(s) \/ Decline(s) \/ Pair(s) \/ Reconnect(s)
    \/ DisconnectDone(s) \/ DisconnectFail(s)
    \/ Switched(s) \/ SwitchReject(s) \/ SwitchUnknown(s)
    \/ SwitchUnadded(s) \/ Added(s)

Call(s) ==
    \/ \E ch \in Chains \cup {None} : Connect(s, ch)
    \/ Disconnect(s)
    \/ \E ch \in Chains : SwitchChain(s, ch)

Next ==
    \/ \E s \in Slots : ConnectStore(s) \/ Answer(s) \/ Call(s)
    \/ \E ch \in Chains : WalletChain(ch)
    \/ WalletEnds
    \/ \E conf \in Configurations : Load(conf)

\* Every request is answered.
Fairness == \A s \in Slots : WF_vars(Answer(s)) /\ WF_vars(ConnectStore(s))

Spec == Init /\ [][Next]_vars /\ Fairness

-----------------------------------------------------------------------------
JobPlaces == {"idle", "connect.begin", "connect.end", "connect.pair", "connect.store",
              "reconnect", "disconnect", "switch.wallet", "switch.event", "switch.add"}

\* The types of the variables.
TypeOK ==
    /\ session \subseteq Chains /\ requested \subseteq Chains
    /\ chain \in Chains /\ configured \in Configurations /\ left \in BOOLEAN
    /\ listening \subseteq {"connect", "session_delete", "disconnect",
                            "accountsChanged", "chainChanged"}
    /\ ConnectorTypes(JobPlaces)

\* A connection of the store has a session, on the chain the provider is on.
TracksSession == Calm /\ connection # None => session # {} /\ connection.chain = chain

\* The page never connects over a session whose chains are older than the page,
\* but for one of chains that are all foreign to it (isChainsStale).
ChainsWereAsked ==
    connection = None /\ connection' # None =>
        configured \subseteq requested' \/ session' \cap configured = {}

\* After a disconnect of the page there is neither a connection nor a session
\* that a page load would find.
LeavesNoSession == Calm /\ left => connection = None /\ session = {}

\* A call of the page ends, with a result or with an error.
CallsEnd == \A s \in Slots : InFlight(s) ~> ~InFlight(s)
=============================================================================
