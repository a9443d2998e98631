------------------------------- MODULE Pages -------------------------------
(***************************************************************************)
(* Pages of an application: what the Config holds (Config), what the       *)
(* application hears of it (ConnectionEffect), which wallets it lists      *)
(* (Discovery) and what watches its chain (Watch).  The properties say of  *)
(* which pages they hold.                                                  *)
(***************************************************************************)
EXTENDS Watch, Integers, FiniteSets

CONSTANTS
    None,
    Pages,      \* connectors, chains, configured, default, tasks, calls, async, ssr, cookie,
                \* reconnects, early, rerender, lives, and listens: with a connection effect
    Offers      \* wallets, ids, rdns, claimed, ssr, async, mounts, setups
                \* (each a function from pages to such records)

VARIABLES
    page,   \* of which page, of Pages (its Config) or Offers (its wallets), or "watches"
    life, connections, current, status, heap, on, isReconnecting, task, disk,
    recent, hydration, unread, mounted, seen, told,
    announced, listed, made, atOnce, mounts, mounting

Config(p) ==
    INSTANCE ConnectionEffect WITH
        Connectors <- Pages[p].connectors, Chains <- Pages[p].chains,
        Configured <- Pages[p].configured, DefaultChain <- Pages[p].default,
        Tasks <- Pages[p].tasks, Calls <- Pages[p].calls, AsyncStorage <- Pages[p].async,
        Ssr <- Pages[p].ssr, InitialState <- Pages[p].cookie,
        ReconnectOnMount <- Pages[p].reconnects, EarlyReload <- Pages[p].early,
        Rerender <- Pages[p].rerender, MaxLife <- Pages[p].lives

Wallets(o) ==
    INSTANCE Discovery WITH
        Wallets <- Offers[o].wallets, Ids <- Offers[o].ids, Rdns <- Offers[o].rdns,
        Claimed <- Offers[o].claimed, Ssr <- Offers[o].ssr, AsyncStorage <- Offers[o].async,
        MaxMounts <- Offers[o].mounts, MaxSetups <- Offers[o].setups

\* The settings of a Config, as Config needs them (None, null in the code, is no uid
\* either), and of its wallets.  A page is of one kind.
ASSUME PagesAssumption ==
    /\ \A p \in DOMAIN Pages : LET its == Pages[p] IN
         /\ its.configured \subseteq its.chains /\ its.default \in its.configured
         /\ None \notin its.connectors \cup its.chains \cup (its.connectors \X Nat)
         /\ "page" \notin its.tasks /\ IsFiniteSet(its.tasks)
         /\ its.lives \in Nat \ {0}
         /\ {its.async, its.ssr, its.cookie, its.reconnects, its.early, its.rerender,
             its.listens} \subseteq BOOLEAN
    /\ \A o \in DOMAIN Offers : Wallets(o)!DiscoveryAssumption
    /\ DOMAIN Pages \cap DOMAIN Offers = {} /\ "watches" \notin DOMAIN Pages \cup DOMAIN Offers

configVars == <<life, connections, current, status, heap, on, isReconnecting, task, disk,
                recent, unread, mounted, seen, told>>
discoveryVars == <<announced, listed, made, atOnce, mounts, mounting>>
allVars == <<vars, configVars, hydration, discoveryVars, page>>

PageStep(p) ==
    /\ page = p
    /\ IF Pages[p].listens THEN Config(p)!EffectNext ELSE Config(p)!Next /\ UNCHANGED told
    /\ UNCHANGED <<phase, running, unwatch, unlisten, discoveryVars, page>>

WalletsStep(o) == page = o /\ Wallets(o)!Next /\ UNCHANGED <<vars, configVars, page>>

WatchesStep == page = "watches" /\ Next /\ UNCHANGED <<configVars, hydration, discoveryVars, page>>

PagesNext ==
    \/ \E p \in DOMAIN Pages : PageStep(p)
    \/ \E o \in DOMAIN Offers : WalletsStep(o)
    \/ WatchesStep

-----------------------------------------------------------------------------
NoWallets ==
    /\ announced = {} /\ listed = <<>> /\ made = <<>> /\ atOnce = {}
    /\ mounts = 0 /\ mounting = FALSE

NoConfig ==
    /\ life = 1 /\ connections = 0 /\ current = None /\ status = "disconnected"
    /\ heap = <<>> /\ on = <<>> /\ isReconnecting = FALSE /\ task = <<>> /\ disk = None
    /\ recent = None /\ unread = None /\ mounted = "no" /\ seen = None /\ told = FALSE

PageInit ==
    /\ page \in DOMAIN Pages
    /\ \A p \in DOMAIN Pages : page = p => Config(p)!EffectInit
    /\ phase = [w \in Watches |-> "idle"] /\ running = {}
    /\ unwatch = [w \in Watches |-> "none"] /\ unlisten = unwatch
    /\ NoWallets

WalletsInit ==
    /\ page \in DOMAIN Offers
    /\ \A o \in DOMAIN Offers : page = o => Wallets(o)!Init
    /\ NoConfig
    /\ Init

WatchesInit == page = "watches" /\ Init /\ NoConfig /\ hydration = "done" /\ NoWallets

PagesSpec == (PageInit \/ WalletsInit \/ WatchesInit) /\ [][PagesNext]_allVars

-----------------------------------------------------------------------------
\* The pages whose storage answers at once.
Prompt == {p \in DOMAIN Pages : ~Pages[p].async}

\* One call of the application at a time.
OneCall(p) == \A s, t \in Pages[p].tasks : s = t

\* Only what this page connected is left once it has mounted and settled, and with
\* reconnectOnMount a "connected" page has a current connection: if the page makes one
\* call at a time, the first of them also if it does not reconnect.
NoGhosts ==
    \A p \in Prompt : page = p =>
        /\ OneCall(p) \/ ~Pages[p].reconnects => Config(p)!NoGhosts
        /\ OneCall(p) /\ Pages[p].reconnects => Config(p)!ConnectedHasConnection

\* Every connection of this page has its handlers hung on its connector, if nothing but
\* an event disconnects, and the chain is that of the current connection when it is
\* configured, if the application switches the chain of no other connection.
FollowsConnections ==
    \A p \in DOMAIN Pages : page = p =>
        /\ p \in Prompt /\ "disconnect" \notin Pages[p].calls => Config(p)!ConnectionsAreHeard
        /\ "switchChainOf" \notin Pages[p].calls => Config(p)!ChainFollowsConnection

\* What the application believes once everything settled is so, if one call is made at a
\* time and all that a page without a server does is to connect and to switch.
HeardRight ==
    \A p \in Prompt :
        /\ page = p /\ Pages[p].listens /\ OneCall(p)
        /\ ~Pages[p].ssr /\ ~Pages[p].reconnects
        /\ {"reconnect", "disconnect", "events"} \cap Pages[p].calls = {}
        => Config(p)!HeardRight

\* The chain the user last saw comes back with the next page load, if the page was not
\* left before it mounted nor moved off the chain of its connection; with a server only
\* if it is given the cookie and no wallet connects before storage is read.
ChainSurvivesReload ==
    [][\A p \in Prompt :
          /\ page = p /\ ~Pages[p].early /\ "switchChainOf" \notin Pages[p].calls
          /\ Pages[p].ssr => Pages[p].cookie /\ "events" \notin Pages[p].calls
          => Config(p)!ChainSurvives]_allVars

\* Once storage was read every announced wallet is offered by its name, none twice nor
\* when a connector stands for it, and two of one name only if both were there when the
\* list was made: if storage answers at once, or a server page mounts once.
OfferedOnce ==
    \A o \in DOMAIN Offers :
        /\ page = o
        /\ IF Offers[o].ssr THEN Offers[o].mounts <= 1 ELSE ~Offers[o].async
        => Wallets(o)!OfferedOnce /\ Wallets(o)!Offered
=============================================================================
