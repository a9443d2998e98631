---------------------------- MODULE SdkConnector ----------------------------
(***************************************************************************)
(* One connector of a wallet SDK between its wallet and the store of a     *)
(* Config: connectors/src/coinbaseWallet.ts, gemini.ts, which ask for      *)
(* accounts with eth_requestAccounts, and baseAccount.ts, which asks with  *)
(* wallet_connect and takes the chain from its answer (BaseAccount TRUE).  *)
(* The three closures are on the provider together or not at all.          *)
(*                                                                         *)
(* The wallet is seen as the page sees it: its answers and its events      *)
(* arrive in order, and it announces the changes it makes.                 *)
(***************************************************************************)
EXTENDS Connector

CONSTANTS
    BaseAccount,    \* TRUE: baseAccount.ts
    Patient,        \* TRUE: the wallet changes only while nothing is in flight
    AddsOnly        \* TRUE: the wallet may add a chain it does not know, and stay

\* What the constants are (checked where they get their values).
SdkAssumption == {BaseAccount, Patient, AddsOnly} \subseteq BOOLEAN

VARIABLES
    granted, chain,     \* the wallet: accounts are shared with the page; chain
    bound               \* the closures are registered on the provider

wallet == <<granted, chain>>
vars == <<wallet, bound, connector>>

-----------------------------------------------------------------------------
\* connect({ chainId }), with a chain or without.
Connect(s, want) ==
    /\ connection = None
    /\ Start(s, "connect.prompt", want)
    /\ status' = "connecting"
    /\ UNCHANGED <<wallet, bound, connection, on, temps>>

Fail(s) ==
    /\ End(s)
    /\ status' = Failed
    /\ UNCHANGED <<wallet, bound, connection, on, temps>>

ConnectReject(s) == At(s, "connect.prompt") /\ Fail(s)

\* The accounts are shared.  The others register the closures at once; Base
\* Account has the wallet's chain, and asks for the accounts again.
ConnectAccept(s) ==
    /\ At(s, "connect.prompt")
    /\ granted' = TRUE
    /\ bound' = (bound \/ ~BaseAccount)
    /\ IF BaseAccount THEN Take(s, "connect.accounts", TRUE, chain)
       ELSE Take(s, "connect.chain", TRUE, None)
    /\ UNCHANGED <<chain, store, temps>>

\* What the connector returns is stored in the same turn.
Connected(s, ch, acc) ==
    /\ End(s)
    /\ Stored(ch, acc)
    /\ UNCHANGED <<wallet, temps>>

\* The rest of connect: another chain than the wallet's may have been asked for.
WithChain(s, current, acc) ==
    IF job[s].chain \in {None, current} THEN Connected(s, current, acc)
    ELSE /\ Take(s, "switch.wallet", acc, current)
         /\ UNCHANGED <<wallet, store, temps>>

\* Base Account: eth_accounts after wallet_connect, or in a reconnect.
ConnectAccounts(s) ==
    /\ At(s, "connect.accounts")
    /\ IF job[s].was # None THEN WithChain(s, job[s].was, granted) /\ bound' = TRUE
       ELSE /\ Take(s, "connect.chain", granted, None)
            /\ UNCHANGED <<wallet, bound, store, temps>>

\* eth_chainId.
ConnectChain(s) ==
    /\ At(s, "connect.chain")
    /\ WithChain(s, chain, job[s].acc)
    /\ bound' = (bound \/ BaseAccount)

ConnectStore(s) ==
    /\ job[s].at = "connect.store"
    /\ Connected(s, job[s].chain, job[s].acc)
    /\ UNCHANGED bound

\* A page load, and reconnect on mount.
Load ==
    /\ Turn
    /\ bound' = FALSE
    /\ \E s \in Slots :
         Opened([x \in Slots |-> IF x = s THEN Job("reconnect.accounts", None) ELSE IdleJob])
    /\ UNCHANGED wallet

\* isAuthorized; the connectors ask for the accounts again, all but Base Account
\* in a way that may prompt the user.
Authorized(s) ==
    /\ At(s, "reconnect.accounts")
    /\ IF granted
       THEN /\ Go(s, IF BaseAccount THEN "connect.accounts" ELSE "reconnect.request")
            /\ UNCHANGED <<connection, status>>
       ELSE /\ End(s)
            /\ IF status = "connecting" THEN connection' = None /\ status' = "disconnected"
               ELSE UNCHANGED <<connection, status>>
    /\ UNCHANGED <<wallet, bound, on, temps>>

\* eth_requestAccounts of a wallet that shares its accounts already.
Requested(s) ==
    /\ At(s, "reconnect.request")
    /\ IF granted
       THEN bound' = TRUE /\ Take(s, "connect.chain", TRUE, job[s].was)
       ELSE Go(s, "connect.prompt") /\ UNCHANGED bound
    /\ UNCHANGED <<wallet, store, temps>>

-----------------------------------------------------------------------------
\* onDisconnect
OnDisconnect == EmitDisconnect /\ bound' = FALSE

\* disconnect(): the closures go first, so the wallet's events are not heard; the
\* wallet is told, and not waited for (gemini waits for an answer at once).
Disconnect ==
    /\ Turn /\ connection # None
    /\ bound' = FALSE
    /\ granted' = FALSE
    /\ Removed
    /\ UNCHANGED <<chain, temps, job>>

SwitchChain(s, ch) ==
    /\ connection # None
    /\ Start(s, "switch.wallet", ch)
    /\ UNCHANGED <<wallet, bound, store, temps>>

\* wallet_switchEthereumChain, or wallet_addEthereumChain after it, answers.
SwitchDone(s) ==
    /\ At(s, "switch.wallet")
    /\ chain' = job[s].chain
    /\ LET jobs == [job EXCEPT ![s] = Return(job[s])]
       IN  IF bound THEN EmitChange(chain', jobs) ELSE job' = jobs /\ UNCHANGED <<store, temps>>
    /\ UNCHANGED <<granted, bound>>

\* coinbaseWallet, baseAccount: the chain is added, the wallet stays where it is; the
\* call returns all the same.
SwitchAdded(s) ==
    /\ AddsOnly /\ At(s, "switch.wallet")
    /\ Returns(s)
    /\ UNCHANGED <<wallet, bound, store, temps>>

\* The user rejects the switch; a connect fails with it.
SwitchReject(s) ==
    /\ At(s, "switch.wallet")
    /\ IF job[s].was # None THEN Fail(s) ELSE End(s) /\ UNCHANGED <<wallet, bound, store, temps>>

\* The wallet cannot switch: a connect goes on with the chain it read before.
SwitchFail(s) ==
    /\ At(s, "switch.wallet")
    /\ ReturnsUnswitched(s)
    /\ UNCHANGED <<wallet, bound, store, temps>>

-----------------------------------------------------------------------------
WalletActs == Turn /\ (Patient => Calm)

\* chainChanged
WalletChain(ch) ==
    /\ WalletActs /\ ch # chain
    /\ chain' = ch
    /\ IF bound THEN EmitChange(ch, job) ELSE UNCHANGED <<store, temps, job>>
    /\ UNCHANGED <<granted, bound>>

\* accountsChanged without accounts, and the wallet's disconnect.
WalletLeaves ==
    /\ WalletActs /\ granted
    /\ granted' = FALSE
    /\ IF bound THEN OnDisconnect ELSE UNCHANGED <<store, bound>>
    /\ UNCHANGED <<chain, temps, job>>

\* The user shares the accounts in the wallet: nobody listens for it.
WalletShares ==
    /\ WalletActs /\ ~granted
    /\ granted' = TRUE
    /\ connection' = IF bound /\ "change" \in on /\ connection # None
                     THEN [connection EXCEPT !.acc = TRUE] ELSE connection
    /\ UNCHANGED <<chain, bound, status, on, temps, job>>

-----------------------------------------------------------------------------
Init ==
    /\ granted = FALSE /\ chain \in Chains
    /\ bound = FALSE
    /\ ConnectorInit

Answer(s) ==
    \/ ConnectReject(s) \/ ConnectAccept(s)
    \/ ConnectAccounts(s) \/ ConnectChain(s)
    \/ Authorized(s) \/ Requested(s)
    \/ SwitchDone(s) \/ SwitchAdded(s) \/ SwitchReject(s) \/ SwitchFail(s)

Call(s) ==
    \/ \E want \in Chains \cup {None} : Connect(s, want)
    \/ \E ch \in Chains : SwitchChain(s, ch)

Wallet == (\E ch \in Chains : WalletChain(ch)) \/ WalletLeaves \/ WalletShares

Next ==
    \/ \E s \in Slots : ConnectStore(s) \/ Answer(s) \/ Call(s)
    \/ Disconnect
    \/ Wallet
    \/ Load

Spec == Init /\ [][Next]_vars

-----------------------------------------------------------------------------
JobPlaces == {"idle", "connect.prompt", "connect.accounts", "connect.chain", "connect.store",
              "reconnect.accounts", "reconnect.request", "switch.wallet"}

\* The types of the variables and the places a call may be at.
TypeOK ==
    /\ {granted, bound} \subseteq BOOLEAN
    /\ chain \in Chains
    /\ ConnectorTypes(JobPlaces)

\* The connection of the store is the wallet's, accounts and chain, and a
\* wallet that ends it is heard.
TracksWallet ==
    Calm /\ connection # None =>
        connection.acc = granted /\ connection.chain = chain /\ bound

=============================================================================
