------------------------------- MODULE Config -------------------------------
(***************************************************************************)
(* The connection state of a wagmi Config in one browser page: the store   *)
(* of createConfig.ts with its three emitter handlers, the asynchronous    *)
(* actions connect, reconnect, disconnect, switchConnection and            *)
(* switchChain, hydrate.ts, and the persisted copy of the store that the   *)
(* next page load reads.                                                   *)
(*                                                                         *)
(* JavaScript runs to completion, so a TLA+ action is the code between two *)
(* awaits: a call that awaits is a task which waits at a named place and   *)
(* goes on from there, with whatever it read before the await.             *)
(***************************************************************************)
EXTENDS Integers, FiniteSets, JsMap

CONSTANTS
    Connectors,         \* the connectors createConfig set up
    Chains,             \* every chain id a wallet or the storage may hold
    Configured,         \* config.chains
    DefaultChain,       \* config.chains[0]
    None,               \* null / undefined
    Tasks,              \* calls that may be in flight at the same time
    Calls,              \* the actions the application calls
    AsyncStorage,       \* TRUE: storage answers in a later event loop turn
    Ssr,                \* createConfig({ ssr })
    InitialState,       \* TRUE: hydrate() is given the state of the cookie
    ReconnectOnMount,   \* hydrate(config, { reconnectOnMount })
    EarlyReload,        \* TRUE: the page may be left before it has mounted
    Rerender,           \* TRUE: React may render the provider again
    MaxLife             \* bound: page loads

ASSUME ConfigAssumption ==
    /\ Configured \subseteq Chains
    /\ DefaultChain \in Configured
    /\ None \notin Connectors \cup Chains
    /\ "page" \notin Tasks /\ IsFiniteSet(Tasks)
    /\ MaxLife \in Nat \ {0}
    /\ {AsyncStorage, Ssr, InitialState, ReconnectOnMount, EarlyReload,
      Rerender}
         \subseteq BOOLEAN

VARIABLES
    life,          \* how many times the page was loaded
    chainId, connections, current, status,     \* the store
    heap,          \* the Map objects; connections is a reference into it
    on,            \* the Config handlers registered on each emitter
    isReconnecting,\* the module variable of reconnect.ts
    task,          \* the calls in flight
    disk,          \* storage item `wagmi.store`
    recent,        \* storage item `wagmi.recentConnectorId`
    hydration,     \* the persist middleware: "idle", "reading" or "done"
    unread,        \* what the read in flight will deliver
    mounted,       \* the Hydrate component: "no", "rendered", "waiting", "yes"
    seen           \* (history) chainId of the last page that had hydrated

storeVars == <<chainId, connections, current, status, heap, disk>>
loadVars  == <<life, hydration, unread, mounted, seen>>
vars == <<storeVars, loadVars, on, isReconnecting, task, recent>>

\* A connector gets a fresh uid on every page load.
Uid == Connectors \X (0..MaxLife)
U(c) == <<c, life>>

\* Places of the heap: one for the store and one for every call in flight.
Refs == 0..Cardinality(Tasks)
NoRef == -1

Pending == {"connecting", "reconnecting"}
Status == Pending \cup {"connected", "disconnected"}

Wiring == {"connect", "change", "disconnect"}

\* A call in flight: where it waits, for which connector, the Map it read
\* before, and (reconnect) the connectors still to try.
TaskAt(at, c, ref, todo) ==
    [at |-> at, c |-> c, ref |-> ref, chain |-> None, todo |-> todo,
     found |-> FALSE, rank |-> [x \in Connectors |-> 2]]
Idle == TaskAt("idle", None, NoRef, {})

\* Waiting for storage only, which a promise microtask answers when the
\* storage is synchronous.
StoragePlaces == {"connect.saving", "reconnect.reading", "switch.saving"}
InFlight(t) == task[t].at # "idle"

Map == heap[connections]

-----------------------------------------------------------------------------
(***************************************************************************)
(* The store                                                               *)
(***************************************************************************)

\* Mistake: the chain that was stored is not taken over
ValidChainForgets(chain, default) == default

\* validatePersistedChainId
ValidChain(chain, default) == IF chain \in Configured THEN chain ELSE default

\* The selector of the syncConnectedChain subscription: the chain of the
\* current connection.  A connection is represented by its chain.
Selected(m, cur) == IF cur \in Keys(m) THEN m.val[cur] ELSE None

\* partialize: status is not persisted.
Partial(m, chain, cur) == [map |-> m, chainId |-> chain, current |-> cur]

EmptyDisk == Partial(EmptyMap, DefaultChain, None)

\* The chain id after a setState that gave `chain`: subscribers run in the
\* same turn, and only a change of the selected chain wakes this one.
Synced(m, cur, chain) ==
    LET sel == Selected(m, cur) IN
    IF sel # Selected(Map, current) /\ sel \in Configured THEN sel ELSE chain

\* store.setState: h is the heap, ref the Map object of the new state.
SetState(h, ref, cur, st, chain) ==
    /\ connections' = ref
    /\ current' = cur
    /\ status' = st
    /\ chainId' = Synced(h[ref], cur, chain)
    /\ heap' = [r \in Refs |->
                  IF r = ref \/ \E t \in Tasks : task'[t].ref = r
                  THEN h[r] ELSE EmptyMap]

Persist == disk' = Partial(heap'[connections'], chainId', current')

\* References no call in flight holds; the least of them is taken.
FreeRefs == {r \in Refs : \A t \in Tasks : task[t].ref # r}

\* A setState that installs a new Map object.
Replace(h, m, cur, st, chain) ==
    \E r \in FreeRefs :
        /\ \A x \in FreeRefs : r <= x
        /\ SetState([h EXCEPT ![r] = m], r, cur, st, chain)

\* A setState that keeps the Map object.
Keep(cur, st, chain) == SetState(heap, connections, cur, st, chain) /\ Persist

Install(h, m, cur, st) == Replace(h, m, cur, st, chainId) /\ Persist

\* The two outcomes of taking connections away, as in the disconnect handler
\* and the disconnect action: nothing is left, or the first connection that
\* is left becomes the current one.
Leave(h, m) ==
    \/ /\ Keys(m) = {}
       /\ Install(h, EmptyMap, None, "disconnected")
    \/ \E next \in Uid :
          /\ IsFirst(m, next)
          /\ Install(h, m, next, status)

-----------------------------------------------------------------------------
(***************************************************************************)
(* The event loop                                                          *)
(***************************************************************************)

\* Promise continuations run before the next event: what only waits for a
\* synchronous storage, or for the end of a rehydration, goes first.
Quiet ==
    /\ ~(mounted = "waiting" /\ hydration = "done")
    /\ \/ AsyncStorage
       \/ /\ hydration # "reading"
          /\ \A t \in Tasks : task[t].at \notin StoragePlaces

\* The application can only call once its components are there.  Tasks is a
\* bound: a page that still waits for storage keeps a task for itself.
Interactive ==
    /\ Quiet
    /\ \/ mounted = "yes"
       \/ mounted = "waiting" /\ \E s, t \in Tasks : s # t /\ ~InFlight(s) /\ ~InFlight(t)

Go(t, r) == task' = [task EXCEPT ![t] = r]
Start(t, r) == ~InFlight(t) /\ Go(t, r)
Finish(t) == Go(t, Idle)

Connected(c) == on' = [on EXCEPT ![c] = (@ \ {"connect"}) \cup {"change", "disconnect"}]
Disconnected(c) == on' = [on EXCEPT ![c] = (@ \ {"change", "disconnect"}) \cup {"connect"}]

-----------------------------------------------------------------------------
(***************************************************************************)
(* connect                                                                 *)
(***************************************************************************)

Connect(t, c) ==
    /\ Interactive /\ current # U(c)
    /\ Start(t, TaskAt("connect.wallet", c, NoRef, {}))
    /\ Keep(current, "connecting", chainId)
    /\ UNCHANGED <<loadVars, on, isReconnecting, recent>>

\* The wallet accepted: the handlers are swapped before the store knows.
ConnectAnswer(t, ch) ==
    /\ Quiet /\ task[t].at = "connect.wallet"
    /\ Go(t, [task[t] EXCEPT !.at = "connect.saving", !.chain = ch])
    /\ Connected(task[t].c)
    /\ recent' = task[t].c
    /\ UNCHANGED <<storeVars, loadVars, isReconnecting>>

\* Mistake: the new connection does not end "connecting"
ConnectDoneUntold(t) ==
    /\ task[t].at = "connect.saving"
    /\ LET c == task[t].c IN
       /\ Finish(t)
       /\ Install(heap, MapSet(Map, U(c), task[t].chain), U(c), status)
    /\ UNCHANGED <<loadVars, on, isReconnecting, recent>>

ConnectDone(t) ==
    /\ task[t].at = "connect.saving"
    /\ LET c == task[t].c IN
       /\ Finish(t)
       /\ Install(heap, MapSet(Map, U(c), task[t].chain), U(c), "connected")
    /\ UNCHANGED <<loadVars, on, isReconnecting, recent>>

\* The wallet or the user refused.
ConnectFail(t) ==
    /\ Quiet /\ task[t].at = "connect.wallet"
    /\ Finish(t)
    /\ Keep(current, IF current # None THEN "connected" ELSE "disconnected", chainId)
    /\ UNCHANGED <<loadVars, on, isReconnecting, recent>>

-----------------------------------------------------------------------------
(***************************************************************************)
(* reconnect                                                               *)
(***************************************************************************)

BeginReconnect(t, cs) ==
    /\ ~isReconnecting
    /\ isReconnecting' = TRUE
    /\ Start(t, TaskAt("reconnect.reading", None, NoRef, cs))
    /\ Keep(current, IF current # None THEN "reconnecting" ELSE "connecting", chainId)

Reconnect(t, cs) ==
    /\ Interactive
    /\ BeginReconnect(t, cs)
    /\ UNCHANGED <<loadVars, on, recent>>

\* The order of the attempts: the most recent connector, those the store has
\* a connection of (possibly restored from storage), the others.
ReconnectRead(t) ==
    /\ task[t].at = "reconnect.reading"
    /\ Go(t, [task[t] EXCEPT
            !.at = "reconnect.trying",
            !.rank = [c \in Connectors |->
                         IF c = recent THEN 0
                         ELSE IF \E u \in Keys(Map) : u[1] = c THEN 1 ELSE 2]])
    /\ UNCHANGED <<storeVars, loadVars, on, isReconnecting, recent>>

Trying(t, c) ==
    /\ Quiet /\ task[t].at = "reconnect.trying"
    /\ c \in task[t].todo
    /\ \A x \in task[t].todo : task[t].rank[c] <= task[t].rank[x]

IsLast(t) == Cardinality(task[t].todo) = 1
Advance(t, c, found) ==
    IF IsLast(t) THEN Finish(t)
    ELSE Go(t, [task[t] EXCEPT !.todo = @ \ {c}, !.found = found])

\* No provider, a provider already tried, not authorised, or it failed.
ReconnectSkip(t, c) ==
    /\ Trying(t, c)
    /\ Advance(t, c, task[t].found)
    /\ isReconnecting' = ~IsLast(t)
    /\ \/ /\ ~IsLast(t) \/ status \notin Pending
          /\ UNCHANGED storeVars
       \/ /\ IsLast(t) /\ status \in Pending /\ task[t].found
          /\ Keep(current, "connected", chainId)
       \/ /\ IsLast(t) /\ status \in Pending /\ ~task[t].found
          /\ Install(heap, EmptyMap, None, "disconnected")
    /\ UNCHANGED <<loadVars, on, recent>>

\* Mistake: what storage gave is kept
ReconnectRestoreAdds(t, c, ch) ==
    /\ Trying(t, c)
    /\ Advance(t, c, TRUE)
    /\ isReconnecting' = ~IsLast(t)
    /\ Connected(c)
    /\ Install(heap, MapSet(Map, U(c), ch),
               IF task[t].found THEN current ELSE U(c),
               IF IsLast(t) /\ status \in Pending THEN "connected" ELSE status)
    /\ UNCHANGED <<loadVars, recent>>

\* Mistake: the handlers are not hung on the connector
ReconnectRestoreDeaf(t, c, ch) ==
    /\ Trying(t, c)
    /\ Advance(t, c, TRUE)
    /\ isReconnecting' = ~IsLast(t)
    /\ UNCHANGED on
    /\ Install(heap,
               MapSet(IF task[t].found THEN Map ELSE EmptyMap, U(c), ch),
               IF task[t].found THEN current ELSE U(c),
               IF IsLast(t) /\ status \in Pending THEN "connected" ELSE status)
    /\ UNCHANGED <<loadVars, recent>>

\* The first success starts a new Map, the later ones add to it.
ReconnectRestore(t, c, ch) ==
    /\ Trying(t, c)
    /\ Advance(t, c, TRUE)
    /\ isReconnecting' = ~IsLast(t)
    /\ Connected(c)
    /\ Install(heap,
               MapSet(IF task[t].found THEN Map ELSE EmptyMap, U(c), ch),
               IF task[t].found THEN current ELSE U(c),
               IF IsLast(t) /\ status \in Pending THEN "connected" ELSE status)
    /\ UNCHANGED <<loadVars, recent>>

-----------------------------------------------------------------------------
(***************************************************************************)
(* disconnect                                                              *)
(***************************************************************************)

\* The Map that is in the store now is the one changed after the await.
AskWallet(t, c) ==
    /\ Start(t, TaskAt("disconnect.wallet", c, connections, {}))
    /\ UNCHANGED <<storeVars, on, recent>>

\* setItem('recentConnectorId') of the connection that is now current.
Remember ==
    recent' = IF current' \in Keys(heap'[connections']) THEN current'[1] ELSE recent

\* Without a connector to ask, the store moves on in the same turn.
NothingToAsk ==
    /\ UNCHANGED <<task, on>>
    /\ Leave(heap, Map)
    /\ Remember

\* disconnect({ connector })
DisconnectConnector(t, c) ==
    /\ Interactive
    /\ AskWallet(t, c)
    /\ UNCHANGED <<loadVars, isReconnecting>>

\* disconnect(): the current connection's connector.  One that was only read
\* from storage has no method to call, and the call throws.
DisconnectCurrent(t) ==
    /\ Interactive
    /\ \/ \E c \in Connectors : current = U(c) /\ U(c) \in Keys(Map) /\ AskWallet(t, c)
       \/ current \notin Keys(Map) /\ NothingToAsk
    /\ UNCHANGED <<loadVars, isReconnecting>>

DisconnectDone(t) ==
    /\ Quiet /\ task[t].at = "disconnect.wallet"
    /\ Finish(t)
    /\ Disconnected(task[t].c)
    /\ LET rest == MapDelete(heap[task[t].ref], U(task[t].c))
       IN  Leave([heap EXCEPT ![task[t].ref] = rest], rest)
    /\ Remember
    /\ UNCHANGED <<loadVars, isReconnecting>>

DisconnectFail(t) ==
    /\ Quiet /\ task[t].at = "disconnect.wallet"
    /\ Finish(t)
    /\ heap' = [r \in Refs |-> IF r = connections \/ \E s \in Tasks : task'[s].ref = r
                              THEN heap[r] ELSE EmptyMap]
    /\ UNCHANGED <<chainId, connections, current, status, disk, loadVars, on,
                   isReconnecting, recent>>

-----------------------------------------------------------------------------
(***************************************************************************)
(* switchConnection and switchChain                                        *)
(***************************************************************************)

SwitchConnection(t, c) ==
    /\ Interactive /\ U(c) \in Keys(Map)
    /\ Start(t, TaskAt("switch.saving", c, NoRef, {}))
    /\ recent' = c
    /\ UNCHANGED <<storeVars, loadVars, on, isReconnecting>>

SwitchDone(t) ==
    /\ task[t].at = "switch.saving"
    /\ Finish(t)
    /\ Keep(U(task[t].c), status, chainId)
    /\ UNCHANGED <<loadVars, on, isReconnecting, recent>>

\* With a connection of its connector the call only asks the wallet, which
\* answers with a `change` event; without one it is about the Config itself.
SwitchChain(target, ch) ==
    /\ Interactive
    /\ target \notin Keys(Map)
    /\ ch \in Configured
    /\ UNCHANGED task
    /\ Keep(current, status, ch)
    /\ UNCHANGED <<loadVars, on, isReconnecting, recent>>

-----------------------------------------------------------------------------
(***************************************************************************)
(* The three handlers a Config hangs on the emitter of a connector         *)
(***************************************************************************)

Change(c, ch) ==
    /\ Quiet /\ "change" \in on[c]
    /\ U(c) \in Keys(Map)
    /\ UNCHANGED task
    /\ Install(heap, MapSet(Map, U(c), ch), current, status)
    /\ UNCHANGED <<loadVars, on, isReconnecting, recent>>

\* A connector that connected by itself.  The handler means to stop listening
\* for `connect` but takes off `change` from that event: it stays registered.
ConnectEvent(c, ch) ==
    /\ Quiet /\ "connect" \in on[c]
    /\ status \notin Pending
    /\ on' = [on EXCEPT ![c] = @ \cup {"change", "disconnect"}]
    /\ UNCHANGED task
    /\ Install(heap, MapSet(Map, U(c), ch), U(c), "connected")
    /\ UNCHANGED <<loadVars, isReconnecting, recent>>

\* The handler is only swapped back for a connection of the store; the entry
\* is deleted from the Map object itself.
DisconnectEvent(c) ==
    /\ Quiet /\ "disconnect" \in on[c]
    /\ \/ U(c) \in Keys(Map) /\ Disconnected(c)
       \/ U(c) \notin Keys(Map) /\ UNCHANGED on
    /\ UNCHANGED task
    /\ LET rest == MapDelete(Map, U(c))
       IN  Leave([heap EXCEPT ![connections] = rest], rest)
    /\ UNCHANGED <<loadVars, isReconnecting, recent>>

-----------------------------------------------------------------------------
(***************************************************************************)
(* Page loads: createConfig, hydrate and the Hydrate component             *)
(***************************************************************************)

\* createConfig sets the initial state through the persisting setState, so
\* the item is overwritten after it was read; with ssr it is not read yet.
Reload ==
    /\ life < MaxLife
    /\ EarlyReload \/ (mounted = "yes" /\ hydration = "done")
    /\ life' = life + 1
    /\ chainId' = DefaultChain /\ current' = None /\ status' = "disconnected"
    /\ connections' = 0 /\ heap' = [r \in Refs |-> EmptyMap]
    /\ on' = [c \in Connectors |-> {"connect"}]
    /\ isReconnecting' = FALSE
    /\ task' = [t \in Tasks |-> Idle]
    /\ disk' = EmptyDisk
    /\ unread' = IF Ssr /\ ~InitialState THEN EmptyDisk ELSE disk
    /\ hydration' = IF Ssr THEN "idle" ELSE "reading"
    /\ mounted' = "no"
    /\ seen' = IF hydration = "done" THEN chainId ELSE seen
    /\ UNCHANGED recent

\* The persist middleware: merge, set without writing.  The subscription that
\* follows the connected chain may then set, and so write, the store.
Hydrate ==
    /\ hydration = "reading"
    /\ hydration' = "done"
    /\ UNCHANGED task
    /\ LET chain == ValidChain(unread.chainId, chainId) IN
       /\ Replace(heap, unread.map, unread.current, status, chain)
       /\ IF Selected(unread.map, unread.current) \in Configured \ {Selected(Map, current)}
          THEN Persist ELSE UNCHANGED disk
    /\ unread' = EmptyDisk
    /\ UNCHANGED <<life, mounted, seen, on, isReconnecting, recent>>

\* hydrate() with the state of the cookie, in a render before the mount.
Render ==
    /\ Ssr /\ InitialState
    /\ mounted = "no" /\ mounted' = "rendered"
    /\ UNCHANGED task
    /\ Replace(heap, IF ReconnectOnMount THEN unread.map ELSE EmptyMap, unread.current,
               IF ReconnectOnMount THEN "reconnecting" ELSE "disconnected",
               ValidChain(unread.chainId, DefaultChain))
    /\ Persist
    /\ unread' = EmptyDisk
    /\ UNCHANGED <<life, hydration, seen, on, isReconnecting, recent>>

\* Mistake: a server render promised a reconnect nobody starts
MountingIdle(t) == UNCHANGED <<storeVars, task, isReconnecting>>

\* onMount once the store is there: reconnect, unless one is running, or
\* forget the connections that came from storage.
Mounting(t) ==
    \/ ReconnectOnMount /\ BeginReconnect(t, Connectors)
    \/ ReconnectOnMount /\ isReconnecting /\ UNCHANGED <<storeVars, task, isReconnecting>>
    \/ /\ ~ReconnectOnMount
       /\ UNCHANGED <<task, isReconnecting>>
       /\ Install(heap, EmptyMap, current, status)

\* Without ssr the component calls onMount in every render.
MountClient(t) ==
    /\ ~Ssr /\ Quiet
    /\ Rerender \/ mounted = "no"
    /\ mounted' = "yes"
    /\ Mounting(t)
    /\ UNCHANGED <<life, hydration, unread, seen, on, recent>>

\* With ssr it is an effect, and storage is read first.
MountSsr ==
    /\ Ssr /\ mounted = (IF InitialState THEN "rendered" ELSE "no")
    /\ mounted' = "waiting"
    /\ hydration' = "reading"
    /\ unread' = disk
    /\ UNCHANGED <<storeVars, life, seen, on, isReconnecting, task, recent>>

MountResume(t) ==
    /\ mounted = "waiting" /\ hydration = "done"
    /\ mounted' = "yes"
    /\ Mounting(t)
    /\ UNCHANGED <<life, hydration, unread, seen, on, recent>>

-----------------------------------------------------------------------------
\* What an earlier visit left behind: nothing, or one connection; any chain,
\* as the application may have been configured with others then.
OneConnection(u, ch) == Partial(MapSet(EmptyMap, u, ch), ch, u)
FirstDisks ==
    {Partial(EmptyMap, ch, None) : ch \in Chains} \cup
    {OneConnection(<<p[1], 0>>, p[2]) : p \in Connectors \X Chains}

Init ==
    /\ life = 1
    /\ chainId = DefaultChain /\ current = None /\ status = "disconnected"
    /\ connections = 0 /\ heap = [r \in Refs |-> EmptyMap]
    /\ on = [c \in Connectors |-> {"connect"}]
    /\ isReconnecting = FALSE
    /\ task = [t \in Tasks |-> Idle]
    /\ disk = EmptyDisk
    /\ unread \in IF Ssr /\ ~InitialState THEN {EmptyDisk} ELSE FirstDisks
    /\ recent \in Connectors \cup {None}
    /\ hydration = IF Ssr THEN "idle" ELSE "reading"
    /\ mounted = "no"
    /\ seen = None

Continue(t) ==
    \/ ConnectDone(t) \/ ReconnectRead(t) \/ SwitchDone(t)

Answer(t) ==
    \/ \E ch \in Chains : ConnectAnswer(t, ch)
    \/ ConnectFail(t)
    \/ \E c \in Connectors :
          \/ ReconnectSkip(t, c)
          \/ \E ch \in Chains : ReconnectRestore(t, c, ch)
    \/ DisconnectDone(t)
    \/ DisconnectFail(t)

Call(t) ==
    \/ "connect" \in Calls /\ \E c \in Connectors : Connect(t, c)
    \/ "reconnect" \in Calls /\ \E cs \in SUBSET Connectors \ {{}} : Reconnect(t, cs)
    \/ "disconnect" \in Calls /\ DisconnectCurrent(t)
    \/ "disconnect" \in Calls /\ \E c \in Connectors : DisconnectConnector(t, c)
    \/ "switchConnection" \in Calls /\ \E c \in Connectors : SwitchConnection(t, c)

SwitchChains ==
    \E ch \in Chains :
        \/ "switchChain" \in Calls /\ SwitchChain(current, ch)
        \/ "switchChainOf" \in Calls /\ \E c \in Connectors : SwitchChain(U(c), ch)

Event ==
    /\ "events" \in Calls
    /\ \E c \in Connectors :
         \/ DisconnectEvent(c)
         \/ \E ch \in Chains : Change(c, ch) \/ ConnectEvent(c, ch)

Page == Render \/ MountSsr \/ \E t \in Tasks : MountClient(t) \/ MountResume(t)

Next ==
    \/ \E t \in Tasks : Continue(t) \/ Answer(t) \/ Call(t)
    \/ SwitchChains
    \/ Event
    \/ Hydrate
    \/ Page
    \/ Reload

\* Promises resolve, wallets answer and the page renders; nobody has to call,
\* emit or reload.
Fairness ==
    /\ \A t \in Tasks : WF_vars(Continue(t)) /\ WF_vars(Answer(t))
    /\ WF_vars(Hydrate)
    /\ WF_vars(mounted # "yes" /\ Page)

Spec == Init /\ [][Next]_vars /\ Fairness

-----------------------------------------------------------------------------
(***************************************************************************)
(* Properties                                                              *)
(***************************************************************************)
Place == {"idle", "connect.wallet", "connect.saving", "reconnect.reading",
          "reconnect.trying", "disconnect.wallet", "switch.saving"}

TaskType ==
    [at : Place, c : Connectors \cup {None}, ref : Refs \cup {NoRef},
     chain : Chains \cup {None}, todo : SUBSET Connectors, found : BOOLEAN,
     rank : [Connectors -> 0..2]]

IsDisk(d) ==
    /\ d = Partial(d.map, d.chainId, d.current)
    /\ IsMap(d.map, Uid, Chains)
    /\ d.chainId \in Chains
    /\ d.current \in Uid \cup {None}

\* The types of the variables.
TypeOK ==
    /\ life \in 1..MaxLife
    /\ chainId \in Chains
    /\ connections \in Refs
    /\ current \in Uid \cup {None}
    /\ status \in Status
    /\ DOMAIN heap = Refs /\ \A r \in Refs : IsMap(heap[r], Uid, Chains)
    /\ on \in [Connectors -> SUBSET Wiring]
    /\ isReconnecting \in BOOLEAN
    /\ task \in [Tasks -> TaskType]
    /\ IsDisk(disk) /\ IsDisk(unread)
    /\ recent \in Connectors \cup {None}
    /\ hydration \in {"idle", "reading", "done"}
    /\ mounted \in {"no", "rendered", "waiting", "yes"}
    /\ seen \in Chains \cup {None}

Busy(t) == task[t].at \in {"connect.wallet", "connect.saving",
                           "reconnect.reading", "reconnect.trying"}

\* What is connecting: calls, and a page whose server render said so.
ThePage == "page"
Work ==
    {t \in Tasks : Busy(t)} \cup
    {p \in {ThePage} : InitialState /\ ReconnectOnMount /\ mounted \in {"rendered", "waiting"}}

\* The status only says "connecting" or "reconnecting" while a connect or a
\* reconnect is in flight or a server rendered page is about to start one: no
\* interleaving of calls, answers and events leaves it behind.
StatusReflectsWork == status \in Pending => Work # {}

CS == INSTANCE ConnectionStatus WITH Workers <- Tasks \cup {ThePage}, work <- Work

\* The status of the Config behaves as ConnectionStatus promises.
KeepsStatusPromise == CS!Spec

\* The Config never points at a chain that is not one of its chains, whatever
\* wallets report and storage of an older build holds.
ChainIdIsConfigured == chainId \in Configured

AllIdle == \A t \in Tasks : ~InFlight(t)

Loaded == mounted = "yes" /\ hydration = "done" /\ AllIdle

\* Once everything settled a "connected" Config has a current connection.
ConnectedHasConnection == Loaded /\ status = "connected" => current \in Keys(Map)

\* Every connection of this page has its handlers hung on its connector.
ConnectionsAreHeard ==
    \A c \in Connectors : U(c) \in Keys(Map) => {"change", "disconnect"} \subseteq on[c]

\* Only what this page connected is left once it has mounted and settled.
NoGhosts == Loaded => \A u \in Keys(Map) : u[2] = life

\* The chain is that of the current connection when it is configured.
ChainFollowsConnection ==
    Selected(Map, current) \in Configured => chainId = Selected(Map, current)

\* The status does not stay "connecting" or "reconnecting".
Settles == status \in Pending ~> status \notin Pending

\* The chain the user last saw comes back with the next page load.
ChainSurvives == Hydrate /\ seen # None => chainId' = seen
ChainSurvivesReload == [][ChainSurvives]_vars

=============================================================================
