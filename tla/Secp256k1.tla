------------------------------ MODULE Secp256k1 ------------------------------
(***************************************************************************)
(* The connector dangerous_secp256k1 (core/src/tempo/Connectors.ts): keys  *)
(* kept in the storage of the browser, an account kept in the page, and    *)
(* the connection of the Config, over page loads and for several tabs that *)
(* share the storage.                                                      *)
(***************************************************************************)
CONSTANTS
    Accounts,   \* addresses; those that may be generated and that of options
    None,
    Tabs,
    Given,      \* options.account, or None
    SignUps,    \* TRUE: connect may be called with the capability sign-up
    ReconnectOnMount \* reconnectOnMount of the provider of the Config

ASSUME Secp256k1Assumption ==
    /\ None \notin Accounts
    /\ Given \in Accounts \cup {None}
    /\ {SignUps, ReconnectOnMount} \subseteq BOOLEAN

VARIABLES
    keys,       \* storage items `secp256k1.${address}.privateKey`
    active,     \* storage item secp256k1.activeAddress
    lastActive, \* storage item secp256k1.lastActiveAddress
    account,    \* of each tab: the account of the connector, which signs
    connection  \* of each tab: the address of the connection of the Config

storage == <<keys, active, lastActive>>
vars == <<storage, account, connection>>

-----------------------------------------------------------------------------
\* setup(): the account that is active, from its key or from the options.
AtSetup ==
    CASE active \in keys -> active
      [] active \notin keys /\ active # None /\ active = Given -> Given
      [] OTHER -> None

\* connect() without sign-up: the last account, that of the options, or the one
\* the tab has.
Chosen(acc) ==
    CASE lastActive \in keys -> lastActive
      [] lastActive \notin keys /\ Given # None -> Given
      [] OTHER -> acc

\* connect() and its return to the action.
SignIn(t, acc) ==
    LET a == Chosen(acc) IN
    /\ a # None
    /\ account' = [account EXCEPT ![t] = a]
    /\ connection' = [connection EXCEPT ![t] = a]
    /\ active' = a
    /\ lastActive' = IF lastActive \notin keys /\ Given # None THEN a ELSE lastActive
    /\ UNCHANGED keys

-----------------------------------------------------------------------------
Init ==
    /\ keys = {} /\ active = None /\ lastActive = None
    /\ account = [t \in Tabs |-> None]
    /\ connection = [t \in Tabs |-> None]

\* connect without capabilities.  It fails when there is no account.
Connect(t) == connection[t] = None /\ SignIn(t, account[t])

\* connect with sign-up: a key is generated and written down.
SignUp(t) ==
    /\ SignUps /\ connection[t] = None
    /\ \E a \in Accounts \ (keys \cup {Given}) :
         /\ keys' = keys \cup {a}
         /\ active' = a /\ lastActive' = a
         /\ connection' = [connection EXCEPT ![t] = a]
    /\ UNCHANGED account

\* Mistake: the account is left in the connector
DisconnectKeeps(t) ==
    /\ connection[t] # None
    /\ active' = None
    /\ connection' = [connection EXCEPT ![t] = None]
    /\ UNCHANGED <<keys, lastActive, account>>

\* disconnect, of the connector and the action.
Disconnect(t) ==
    /\ connection[t] # None
    /\ active' = None
    /\ account' = [account EXCEPT ![t] = None]
    /\ connection' = [connection EXCEPT ![t] = None]
    /\ UNCHANGED <<keys, lastActive>>

\* The tab is loaded: setup(), and reconnect when there is an account.
Load(t) ==
    IF AtSetup # None /\ ReconnectOnMount
    THEN SignIn(t, AtSetup)
    ELSE /\ account' = [account EXCEPT ![t] = AtSetup]
         /\ connection' = [connection EXCEPT ![t] = None]
         /\ UNCHANGED storage

Next == \E t \in Tabs : Connect(t) \/ SignUp(t) \/ Disconnect(t) \/ Load(t)

Spec == Init /\ [][Next]_vars

-----------------------------------------------------------------------------
\* The types of the variables.
TypeOK ==
    /\ keys \subseteq Accounts
    /\ {active, lastActive} \subseteq Accounts \cup {None}
    /\ account \in [Tabs -> Accounts \cup {None}]
    /\ connection \in [Tabs -> Accounts \cup {None}]

\* A tab never signs for another account than the one it is connected as.
NeverSignsForAnother ==
    \A t \in Tabs : {connection[t], account[t]} \subseteq Accounts => account[t] = connection[t]

\* The active account is the last one, and can be signed for after a page load:
\* by a key in storage or by the options.
ActiveIsUsable == active # None => active = lastActive /\ active \in keys \cup {Given}

\* When every tab has left, a page load connects none of them.
NothingIsLeft ==
    (\A t \in Tabs : connection[t] = None /\ account[t] = None) => active = None
=============================================================================
