---------------------------- MODULE ConfigProofs ----------------------------
(***************************************************************************)
(* The store of a wagmi Config is well typed, its chain id is one of its   *)
(* chains, and its status keeps the promise of ConnectionStatus: for any   *)
(* set of connectors, chains and calls in flight.                          *)
(***************************************************************************)
EXTENDS Config, FiniteSetTheorems, TLAPS

-----------------------------------------------------------------------------
(***************************************************************************)
(* Maps                                                                    *)
(***************************************************************************)

LEMMA EmptyIsMap == ASSUME NEW K, NEW V PROVE IsMap(EmptyMap, K, V)
BY DEF IsMap, EmptyMap, Keys

LEMMA SetIsMap ==
    ASSUME NEW K, NEW V, NEW m, IsMap(m, K, V), NEW k \in K, NEW v \in V
    PROVE  IsMap(MapSet(m, k, v), K, V)
<1>1. Keys(MapSet(m, k, v)) = Keys(m) \cup {k}
  BY DEF MapSet, Keys
<1>2. MapSet(m, k, v).val \in [Keys(m) \cup {k} -> V]
  BY DEF MapSet, Keys, IsMap
<1>3. MapSet(m, k, v).before \subseteq K \X K
  BY DEF MapSet, Keys, IsMap
<1> QED
  BY <1>1, <1>2, <1>3 DEF IsMap, MapSet

LEMMA DeleteIsMap ==
    ASSUME NEW K, NEW V, NEW m, IsMap(m, K, V), NEW k
    PROVE  IsMap(MapDelete(m, k), K, V)
BY DEF IsMap, MapDelete, Keys

-----------------------------------------------------------------------------
(***************************************************************************)
(* The store                                                               *)
(***************************************************************************)

IsHeap(h) == DOMAIN h = Refs /\ \A r \in Refs : IsMap(h[r], Uid, Chains)

StoreOK ==
    /\ chainId \in Configured
    /\ connections \in Refs
    /\ current \in Uid \cup {None}
    /\ status \in Status
    /\ IsHeap(heap)

LEMMA RefsAreNaturals == Refs \subseteq Int /\ 0 \in Refs /\ NoRef \notin Refs
<1>1. Cardinality(Tasks) \in Nat
  BY ConfigAssumption, FS_CardinalityType
<1> QED
  BY <1>1 DEF Refs, NoRef

LEMMA SetStateOK ==
    ASSUME NEW h, NEW ref \in Refs, NEW cur \in Uid \cup {None}, NEW st \in Status,
           NEW chain \in Configured, IsHeap(h), SetState(h, ref, cur, st, chain)
    PROVE  StoreOK'
<1>1. chainId' \in Configured
  BY DEF SetState, Synced
<1>2. \A r \in Refs : IsMap(heap'[r], Uid, Chains)
  BY EmptyIsMap DEF SetState, IsHeap
<1> QED
  BY <1>1, <1>2 DEF SetState, StoreOK, IsHeap

LEMMA KeepOK ==
    ASSUME StoreOK, NEW cur \in Uid \cup {None}, NEW st \in Status,
           NEW chain \in Configured, Keep(cur, st, chain)
    PROVE  /\ StoreOK'
           /\ current' = cur /\ status' = st
<1>1. SetState(heap, connections, cur, st, chain)
  BY DEF Keep
<1> QED
  BY <1>1, SetStateOK DEF StoreOK, SetState

LEMMA ReplaceOK ==
    ASSUME NEW h, IsHeap(h), NEW m, IsMap(m, Uid, Chains), NEW cur \in Uid \cup {None},
           NEW st \in Status, NEW chain \in Configured, Replace(h, m, cur, st, chain)
    PROVE  /\ StoreOK'
           /\ current' = cur /\ status' = st
<1>1. PICK r \in FreeRefs : SetState([h EXCEPT ![r] = m], r, cur, st, chain)
  BY DEF Replace
<1>2. r \in Refs /\ IsHeap([h EXCEPT ![r] = m])
  BY <1>1 DEF FreeRefs, IsHeap
<1> QED
  BY <1>1, <1>2, SetStateOK DEF SetState

LEMMA InstallOK ==
    ASSUME StoreOK, NEW h, IsHeap(h), NEW m, IsMap(m, Uid, Chains),
           NEW cur \in Uid \cup {None}, NEW st \in Status, Install(h, m, cur, st)
    PROVE  /\ StoreOK'
           /\ current' = cur /\ status' = st
BY ReplaceOK DEF Install, StoreOK

LEMMA LeaveOK ==
    ASSUME StoreOK, NEW h, IsHeap(h), NEW m, IsMap(m, Uid, Chains), Leave(h, m)
    PROVE  /\ StoreOK'
           /\ status' \in {"disconnected", status}
<1>1. CASE Install(h, EmptyMap, None, "disconnected")
  BY <1>1, EmptyIsMap, InstallOK DEF Status
<1>2. CASE \E next \in Uid : Install(h, m, next, status)
  BY <1>2, InstallOK DEF StoreOK
<1> QED
  BY <1>1, <1>2 DEF Leave

\* What is written to storage is typed like the store.
LEMMA PersistOK ==
    ASSUME StoreOK', Persist
    PROVE  IsDisk(disk')
<1>1. IsMap(heap'[connections'], Uid, Chains)
  BY DEF StoreOK, IsHeap
<1>2. chainId' \in Chains /\ current' \in Uid \cup {None}
  BY ConfigAssumption DEF StoreOK
<1> QED
  BY <1>1, <1>2 DEF Persist, IsDisk, Partial

LEMMA EmptyDiskOK == IsDisk(EmptyDisk)
BY EmptyIsMap, ConfigAssumption DEF EmptyDisk, IsDisk, Partial

LEMMA MapOK == StoreOK => IsMap(Map, Uid, Chains)
BY DEF StoreOK, IsHeap, Map

-----------------------------------------------------------------------------
(***************************************************************************)
(* The inductive invariant                                                 *)
(***************************************************************************)

\* A call knows what its place needs.
GoodTask ==
    {r \in TaskType :
       /\ r.at \in {"connect.wallet", "connect.saving", "disconnect.wallet", "switch.saving"}
            => r.c \in Connectors
       /\ r.at = "connect.saving" => r.chain \in Chains
       /\ r.at = "disconnect.wallet" => r.ref \in Refs}

LoadOK ==
    /\ life \in 1..MaxLife
    /\ IsDisk(unread)
    /\ hydration \in {"idle", "reading", "done"}
    /\ mounted \in {"no", "rendered", "waiting", "yes"}
    /\ mounted \in {"rendered", "waiting"} => Ssr
    /\ seen \in Chains \cup {None}

CallsOK ==
    /\ task \in [Tasks -> GoodTask]
    /\ on \in [Connectors -> SUBSET Wiring]
    /\ isReconnecting \in BOOLEAN
    /\ recent \in Connectors \cup {None}

Types == StoreOK /\ IsDisk(disk) /\ LoadOK /\ CallsOK

Reconnects(t) == task[t].at \in {"reconnect.reading", "reconnect.trying"}

\* The module variable of reconnect.ts is only set while a reconnect runs.
ReconnectingIsWork == isReconnecting => \E t \in Tasks : Reconnects(t)

IInv == Types /\ ReconnectingIsWork /\ StatusReflectsWork

\* A step of the Config as ConnectionStatus sees it.
Moves == CS!Next \/ UNCHANGED <<status, Work>>

LEMMA TypesImplyTypeOK == Types => TypeOK /\ ChainIdIsConfigured
BY ConfigAssumption
   DEF Types, TypeOK, StoreOK, IsHeap, LoadOK, CallsOK, ChainIdIsConfigured, GoodTask

LEMMA UidOK == LoadOK => \A c \in Connectors : U(c) \in Uid
BY ConfigAssumption DEF LoadOK, U, Uid

LEMMA TaskAtOK ==
    ASSUME NEW at \in Place, NEW c \in Connectors \cup {None}, NEW ref \in Refs \cup {NoRef},
           NEW todo \in SUBSET Connectors, at # "connect.saving",
           at \in {"connect.wallet", "disconnect.wallet", "switch.saving"} => c \in Connectors,
           at = "disconnect.wallet" => ref \in Refs
    PROVE  TaskAt(at, c, ref, todo) \in GoodTask /\ TaskAt(at, c, ref, todo).at = at
<1>1. TaskAt(at, c, ref, todo) \in TaskType
  BY DEF TaskAt, TaskType
<1> QED
  BY <1>1 DEF TaskAt, GoodTask

LEMMA IdleOK == Idle \in GoodTask /\ Idle.at = "idle"
BY TaskAtOK DEF Idle, Place

LEMMA ThePageIsNoTask == ThePage \notin Tasks
BY ConfigAssumption DEF ThePage

-----------------------------------------------------------------------------
(***************************************************************************)
(* What a call does to the work that is going on                           *)
(***************************************************************************)

LEMMA WorkSame ==
    ASSUME UNCHANGED <<task, mounted>>
    PROVE  Work' = Work
BY DEF Work, Busy

\* A task that goes on to a place where it is still connecting.
LEMMA WorkBusy ==
    ASSUME task \in [Tasks -> GoodTask], NEW t \in Tasks, NEW r \in GoodTask,
           Go(t, r), UNCHANGED mounted,
           r.at \in {"connect.wallet", "connect.saving", "reconnect.reading", "reconnect.trying"}
    PROVE  /\ Work' = Work \cup {t}
           /\ task' \in [Tasks -> GoodTask]
           /\ task'[t] = r
<1>1. task' = [task EXCEPT ![t] = r]
  BY DEF Go
<1>2. \A s \in Tasks : Busy(s)' <=> Busy(s) \/ s = t
  BY <1>1 DEF Busy
<1> QED
  BY <1>1, <1>2 DEF Work

\* A task that goes on to a place where it is not, or ends.
LEMMA WorkIdle ==
    ASSUME task \in [Tasks -> GoodTask], NEW t \in Tasks, NEW r \in GoodTask,
           Go(t, r), UNCHANGED mounted,
           r.at \notin {"connect.wallet", "connect.saving", "reconnect.reading", "reconnect.trying"}
    PROVE  /\ Work' = Work \ {t}
           /\ task' \in [Tasks -> GoodTask]
           /\ \A s \in Tasks : Reconnects(s) /\ s # t => Reconnects(s)'
<1>1. task' = [task EXCEPT ![t] = r]
  BY DEF Go
<1>2. \A s \in Tasks : Busy(s)' <=> Busy(s) /\ s # t
  BY <1>1 DEF Busy
<1>3. \A s \in Tasks : s # t => task'[s] = task[s]
  BY <1>1
<1> QED
  BY <1>1, <1>2, <1>3, ThePageIsNoTask DEF Work, Reconnects

LEMMA BusyIsWork ==
    ASSUME NEW t \in Tasks
    PROVE  (t \in Work <=> Busy(t)) /\ t \in Tasks \cup {ThePage}
BY ThePageIsNoTask DEF Work

-----------------------------------------------------------------------------
(***************************************************************************)
(* The moves of ConnectionStatus                                           *)
(***************************************************************************)

LEMMA BeginMoves ==
    ASSUME NEW w \in Tasks \cup {ThePage}, w \notin Work, Work' = Work \cup {w},
           status' \in Pending
    PROVE  Moves
BY DEF Moves, CS!Next, CS!Begin, CS!Working, Pending

LEMMA EndMoves ==
    ASSUME NEW w \in Tasks \cup {ThePage}, w \in Work, Work' = Work \ {w},
           status' \in Status \ Pending
    PROVE  Moves
BY DEF Moves, CS!Next, CS!End, CS!Settled, Status, Pending

\* Work goes on and the status is settled or stays.
LEMMA SettleMoves ==
    ASSUME UNCHANGED Work, status' = status \/ status' \in Status \ Pending
    PROVE  Moves
BY DEF Moves, CS!Next, CS!Settle, CS!Settled, Status, Pending

LEMMA MovesReflect ==
    ASSUME StatusReflectsWork, Moves, status' \in Status
    PROVE  StatusReflectsWork'
BY DEF StatusReflectsWork, Moves, CS!Next, CS!Begin, CS!End, CS!HandOver, CS!Join,
       CS!Settle, CS!Reset, CS!Working, CS!Settled, Pending, Status

LEMMA LoadKept ==
    ASSUME LoadOK, UNCHANGED loadVars
    PROVE  LoadOK' /\ UNCHANGED <<life, mounted>>
BY DEF LoadOK, loadVars, IsDisk

LEMMA StoreKept ==
    ASSUME StoreOK, IsDisk(disk), UNCHANGED storeVars
    PROVE  StoreOK' /\ IsDisk(disk') /\ status' = status
BY DEF StoreOK, IsHeap, storeVars

\* What is left to show of an action that changes no page load.
LEMMA StepOK ==
    ASSUME StoreOK', IsDisk(disk'), LoadOK', CallsOK', ReconnectingIsWork', Moves, IInv
    PROVE  IInv' /\ Moves
BY MovesReflect DEF IInv, Types, StoreOK

-----------------------------------------------------------------------------
(***************************************************************************)
(* connect and switchConnection                                            *)
(***************************************************************************)

LEMMA ConnectStep ==
    ASSUME IInv, NEW t \in Tasks, NEW c \in Connectors, Connect(t, c)
    PROVE  IInv' /\ Moves
<1> DEFINE r == TaskAt("connect.wallet", c, NoRef, {})
<1>1. r \in GoodTask /\ r.at = "connect.wallet"
  BY TaskAtOK DEF Place
<1>2. Go(t, r) /\ task[t].at = "idle" /\ UNCHANGED <<loadVars, on, isReconnecting, recent>>
  BY DEF Connect, Start, InFlight
<1>3. LoadOK' /\ UNCHANGED mounted
  BY <1>2, LoadKept DEF IInv, Types
<1>4. Work' = Work \cup {t} /\ task' \in [Tasks -> GoodTask] /\ task'[t] = r
  <2> HIDE DEF r
  <2> QED BY <1>1, <1>2, <1>3, WorkBusy DEF IInv, Types, CallsOK
<1>5. CallsOK'
  BY <1>2, <1>4 DEF IInv, Types, CallsOK
<1>6. StoreOK' /\ status' = "connecting" /\ IsDisk(disk')
  <2>1. Keep(current, "connecting", chainId)
    BY DEF Connect
  <2>2. StoreOK' /\ status' = "connecting"
    BY <2>1, KeepOK DEF IInv, Types, StoreOK, Status, Pending
  <2> QED
    BY <2>1, <2>2, PersistOK DEF Keep
<1>7. ReconnectingIsWork'
  <2>1. \A s \in Tasks : s # t => task'[s] = task[s]
    BY <1>2 DEF Go, IInv, Types, CallsOK
  <2> QED
    BY <1>2, <2>1 DEF IInv, ReconnectingIsWork, Reconnects
<1>8. Moves
  BY <1>2, <1>4, <1>6, BeginMoves, BusyIsWork DEF Busy, Pending
<1> QED
  BY <1>3, <1>5, <1>6, <1>7, <1>8, StepOK

LEMMA ConnectAnswerStep ==
    ASSUME IInv, NEW t \in Tasks, NEW ch \in Chains, ConnectAnswer(t, ch)
    PROVE  IInv' /\ Moves
<1> DEFINE r == [task[t] EXCEPT !.at = "connect.saving", !.chain = ch]
<1>0. task[t] \in GoodTask /\ task[t].at = "connect.wallet"
  BY DEF ConnectAnswer, IInv, Types, CallsOK
<1>1. r \in GoodTask /\ r.at = "connect.saving"
  BY <1>0 DEF GoodTask, TaskType, Place
<1>2. Go(t, r) /\ UNCHANGED <<storeVars, loadVars, isReconnecting>>
  BY DEF ConnectAnswer
<1>3. LoadOK' /\ UNCHANGED mounted /\ StoreOK' /\ IsDisk(disk') /\ status' = status
  BY <1>2, LoadKept, StoreKept DEF IInv, Types
<1>4. Work' = Work \cup {t} /\ task' \in [Tasks -> GoodTask] /\ task'[t] = r
  <2> HIDE DEF r
  <2> QED BY <1>1, <1>2, <1>3, WorkBusy DEF IInv, Types, CallsOK
<1>5. CallsOK'
  <2>1. task[t].c \in Connectors \cup {None}
    BY <1>0 DEF GoodTask, TaskType
  <2>2. recent' \in Connectors \cup {None}
    BY <2>1 DEF ConnectAnswer
  <2>3. on' \in [Connectors -> SUBSET Wiring]
    BY DEF ConnectAnswer, Connected, IInv, Types, CallsOK, Wiring
  <2> QED
    BY <1>2, <1>4, <2>2, <2>3 DEF IInv, Types, CallsOK
<1>7. ReconnectingIsWork'
  <2>1. \A s \in Tasks : s # t => task'[s] = task[s]
    BY <1>2 DEF Go, IInv, Types, CallsOK
  <2> QED
    BY <1>0, <1>2, <2>1 DEF IInv, ReconnectingIsWork, Reconnects
<1>8. Moves
  <2>1. t \in Work
    BY <1>0, BusyIsWork DEF Busy
  <2> QED
    BY <1>3, <1>4, <2>1, SettleMoves
<1> QED
  BY <1>3, <1>5, <1>7, <1>8, StepOK

\* A call that was connecting ends, and the store is settled.
LEMMA EndStep ==
    ASSUME IInv, NEW t \in Tasks, Busy(t), Finish(t), UNCHANGED mounted
    PROVE  /\ Work' = Work \ {t} /\ t \in Work
           /\ task' \in [Tasks -> GoodTask]
           /\ \A s \in Tasks : Reconnects(s) /\ s # t => Reconnects(s)'
<1>1. Go(t, Idle) /\ Idle \in GoodTask
      /\ Idle.at \notin {"connect.wallet", "connect.saving", "reconnect.reading", "reconnect.trying"}
  BY IdleOK DEF Finish
<1>2. task \in [Tasks -> GoodTask] /\ t \in Work
  BY BusyIsWork DEF IInv, Types, CallsOK
<1> QED
  BY <1>1, <1>2, WorkIdle

LEMMA ConnectDoneStep ==
    ASSUME IInv, NEW t \in Tasks, ConnectDone(t)
    PROVE  IInv' /\ Moves
<1> DEFINE c == task[t].c
<1>0. /\ task[t].at = "connect.saving" /\ c \in Connectors /\ task[t].chain \in Chains
      /\ UNCHANGED <<loadVars, on, isReconnecting, recent>>
  BY DEF ConnectDone, IInv, Types, CallsOK, GoodTask
<1>1. LoadOK' /\ UNCHANGED mounted
  BY <1>0, LoadKept DEF IInv, Types
<1>2. /\ Work' = Work \ {t} /\ t \in Work /\ task' \in [Tasks -> GoodTask]
      /\ \A s \in Tasks : Reconnects(s) /\ s # t => Reconnects(s)'
  BY <1>0, <1>1, EndStep DEF ConnectDone, Busy
<1>3. StoreOK' /\ status' = "connected" /\ IsDisk(disk')
  <2>1. Install(heap, MapSet(Map, U(c), task[t].chain), U(c), "connected")
    BY DEF ConnectDone
  <2>2. U(c) \in Uid /\ IsMap(MapSet(Map, U(c), task[t].chain), Uid, Chains)
    BY <1>0, UidOK, MapOK, SetIsMap DEF IInv, Types
  <2>3. StoreOK' /\ status' = "connected"
    BY <2>1, <2>2, InstallOK DEF IInv, Types, StoreOK, Status
  <2> QED
    BY <2>1, <2>3, PersistOK DEF Install
<1>4. CallsOK' /\ ReconnectingIsWork'
  BY <1>0, <1>2 DEF IInv, Types, CallsOK, ReconnectingIsWork, Reconnects
<1>5. Moves
  BY <1>2, <1>3, EndMoves DEF Status, Pending
<1> QED
  BY <1>1, <1>3, <1>4, <1>5, StepOK

LEMMA ConnectFailStep ==
    ASSUME IInv, NEW t \in Tasks, ConnectFail(t)
    PROVE  IInv' /\ Moves
<1> DEFINE st == IF current # None THEN "connected" ELSE "disconnected"
<1>0. /\ task[t].at = "connect.wallet"
      /\ UNCHANGED <<loadVars, on, isReconnecting, recent>>
  BY DEF ConnectFail
<1>1. LoadOK' /\ UNCHANGED mounted
  BY <1>0, LoadKept DEF IInv, Types
<1>2. /\ Work' = Work \ {t} /\ t \in Work /\ task' \in [Tasks -> GoodTask]
      /\ \A s \in Tasks : Reconnects(s) /\ s # t => Reconnects(s)'
  BY <1>0, <1>1, EndStep DEF ConnectFail, Busy
<1>3. StoreOK' /\ status' = st /\ IsDisk(disk')
  <2>1. Keep(current, st, chainId)
    BY DEF ConnectFail
  <2>2. st \in Status
    BY DEF Status
  <2>3. StoreOK' /\ status' = st
    <3> HIDE DEF st
    <3> QED BY <2>1, <2>2, KeepOK DEF IInv, Types, StoreOK
  <2> QED
    BY <2>1, <2>3, PersistOK DEF Keep
<1>4. CallsOK' /\ ReconnectingIsWork'
  BY <1>0, <1>2 DEF IInv, Types, CallsOK, ReconnectingIsWork, Reconnects
<1>5. Moves
  BY <1>2, <1>3, EndMoves DEF Status, Pending
<1> QED
  BY <1>1, <1>3, <1>4, <1>5, StepOK

\* Calls that connect nothing: the work stays what it is.
LEMMA OtherCall ==
    ASSUME IInv, NEW t \in Tasks, NEW r \in GoodTask, Go(t, r), UNCHANGED mounted, ~Busy(t),
           r.at \notin {"connect.wallet", "connect.saving", "reconnect.reading", "reconnect.trying"}
    PROVE  /\ Work' = Work /\ task' \in [Tasks -> GoodTask]
           /\ \A s \in Tasks : Reconnects(s) => Reconnects(s)'
<1>1. /\ Work' = Work \ {t} /\ task' \in [Tasks -> GoodTask]
      /\ \A s \in Tasks : Reconnects(s) /\ s # t => Reconnects(s)'
  BY WorkIdle DEF IInv, Types, CallsOK
<1>2. t \notin Work /\ ~Reconnects(t)
  BY BusyIsWork DEF Busy, Reconnects
<1> QED
  BY <1>1, <1>2

LEMMA SwitchConnectionStep ==
    ASSUME IInv, NEW t \in Tasks, NEW c \in Connectors, SwitchConnection(t, c)
    PROVE  IInv' /\ Moves
<1> DEFINE r == TaskAt("switch.saving", c, NoRef, {})
<1>1. r \in GoodTask /\ r.at = "switch.saving"
  BY TaskAtOK DEF Place
<1>2. Go(t, r) /\ task[t].at = "idle" /\ UNCHANGED <<storeVars, loadVars, on, isReconnecting>>
      /\ recent' = c
  BY DEF SwitchConnection, Start, InFlight
<1>3. LoadOK' /\ UNCHANGED mounted /\ StoreOK' /\ IsDisk(disk') /\ status' = status
  BY <1>2, LoadKept, StoreKept DEF IInv, Types
<1>4. /\ Work' = Work /\ task' \in [Tasks -> GoodTask]
      /\ \A s \in Tasks : Reconnects(s) => Reconnects(s)'
  <2> HIDE DEF r
  <2> QED BY <1>1, <1>2, <1>3, OtherCall DEF Busy
<1>5. CallsOK' /\ ReconnectingIsWork'
  BY <1>2, <1>4 DEF IInv, Types, CallsOK, ReconnectingIsWork, Reconnects
<1>6. Moves
  BY <1>3, <1>4, SettleMoves
<1> QED
  BY <1>3, <1>5, <1>6, StepOK

LEMMA SwitchDoneStep ==
    ASSUME IInv, NEW t \in Tasks, SwitchDone(t)
    PROVE  IInv' /\ Moves
<1>0. /\ task[t].at = "switch.saving" /\ task[t].c \in Connectors
      /\ UNCHANGED <<loadVars, on, isReconnecting, recent>>
  BY DEF SwitchDone, IInv, Types, CallsOK, GoodTask
<1>1. LoadOK' /\ UNCHANGED mounted
  BY <1>0, LoadKept DEF IInv, Types
<1>2. /\ Work' = Work /\ task' \in [Tasks -> GoodTask]
      /\ \A s \in Tasks : Reconnects(s) => Reconnects(s)'
  BY <1>0, <1>1, IdleOK, OtherCall DEF SwitchDone, Finish, Busy
<1>3. StoreOK' /\ status' = status /\ IsDisk(disk')
  <2>1. Keep(U(task[t].c), status, chainId) /\ U(task[t].c) \in Uid
    BY <1>0, UidOK DEF SwitchDone, IInv, Types
  <2>2. StoreOK' /\ status' = status
    BY <2>1, KeepOK DEF IInv, Types, StoreOK
  <2> QED
    BY <2>1, <2>2, PersistOK DEF Keep
<1>4. CallsOK' /\ ReconnectingIsWork'
  BY <1>0, <1>2 DEF IInv, Types, CallsOK, ReconnectingIsWork, Reconnects
<1>5. Moves
  BY <1>2, <1>3, SettleMoves
<1> QED
  BY <1>1, <1>3, <1>4, <1>5, StepOK

-----------------------------------------------------------------------------
(***************************************************************************)
(* reconnect                                                               *)
(***************************************************************************)

\* Starting a reconnect, by the application or by the page.
LEMMA BeginReconnectOK ==
    ASSUME IInv, NEW t \in Tasks, NEW cs \in SUBSET Connectors, BeginReconnect(t, cs)
    PROVE  /\ StoreOK' /\ IsDisk(disk') /\ status' \in Pending
           /\ task' \in [Tasks -> GoodTask] /\ ReconnectingIsWork'
           /\ isReconnecting' = TRUE
           /\ ~Busy(t) /\ {s \in Tasks : Busy(s)'} = {s \in Tasks : Busy(s)} \cup {t}
<1> DEFINE r == TaskAt("reconnect.reading", None, NoRef, cs)
           st == IF current # None THEN "reconnecting" ELSE "connecting"
<1>1. r \in GoodTask /\ r.at = "reconnect.reading"
  BY TaskAtOK DEF Place
<1>2. Go(t, r) /\ task[t].at = "idle" /\ isReconnecting' = TRUE
  BY DEF BeginReconnect, Start, InFlight
<1>3. task' \in [Tasks -> GoodTask] /\ task'[t] = r /\ \A s \in Tasks : s # t => task'[s] = task[s]
  <2> HIDE DEF r
  <2> QED BY <1>1, <1>2 DEF Go, IInv, Types, CallsOK
<1>4. StoreOK' /\ IsDisk(disk') /\ status' \in Pending
  <2>1. Keep(current, st, chainId)
    BY DEF BeginReconnect
  <2>2. st \in Status /\ st \in Pending
    BY DEF Status, Pending
  <2>3. StoreOK' /\ status' = st
    <3> HIDE DEF st
    <3> QED BY <2>1, <2>2, KeepOK DEF IInv, Types, StoreOK
  <2> QED
    BY <2>1, <2>2, <2>3, PersistOK DEF Keep
<1>5. ReconnectingIsWork'
  BY <1>1, <1>3 DEF ReconnectingIsWork, Reconnects
<1>6. ~Busy(t) /\ {s \in Tasks : Busy(s)'} = {s \in Tasks : Busy(s)} \cup {t}
  BY <1>1, <1>2, <1>3 DEF Busy
<1> QED
  BY <1>2, <1>3, <1>4, <1>5, <1>6

LEMMA ReconnectStep ==
    ASSUME IInv, NEW t \in Tasks, NEW cs \in SUBSET Connectors, Reconnect(t, cs)
    PROVE  IInv' /\ Moves
<1>1. BeginReconnect(t, cs) /\ UNCHANGED <<loadVars, on, recent>>
  BY DEF Reconnect
<1>2. LoadOK' /\ UNCHANGED mounted
  BY <1>1, LoadKept DEF IInv, Types
<1>3. /\ StoreOK' /\ IsDisk(disk') /\ status' \in Pending
      /\ task' \in [Tasks -> GoodTask] /\ ReconnectingIsWork'
      /\ isReconnecting' = TRUE
      /\ ~Busy(t) /\ {s \in Tasks : Busy(s)'} = {s \in Tasks : Busy(s)} \cup {t}
  BY <1>1, BeginReconnectOK
<1>4. CallsOK'
  BY <1>1, <1>3 DEF IInv, Types, CallsOK
<1>5. t \notin Work /\ Work' = Work \cup {t}
  BY <1>2, <1>3, BusyIsWork DEF Work
<1>6. Moves
  BY <1>3, <1>5, BeginMoves
<1> QED
  BY <1>2, <1>3, <1>4, <1>6, StepOK

LEMMA ReconnectReadStep ==
    ASSUME IInv, NEW t \in Tasks, ReconnectRead(t)
    PROVE  IInv' /\ Moves
<1> DEFINE rank == [c \in Connectors |->
                      IF c = recent THEN 0
                      ELSE IF \E u \in Keys(Map) : u[1] = c THEN 1 ELSE 2]
           r == [task[t] EXCEPT !.at = "reconnect.trying", !.rank = rank]
<1>0. task[t] \in GoodTask /\ task[t].at = "reconnect.reading"
  BY DEF ReconnectRead, IInv, Types, CallsOK
<1>1. r \in GoodTask /\ r.at = "reconnect.trying"
  <2>1. rank \in [Connectors -> 0..2]
    OBVIOUS
  <2> HIDE DEF rank
  <2> QED BY <1>0, <2>1 DEF GoodTask, TaskType, Place
<1>2. Go(t, r) /\ UNCHANGED <<storeVars, loadVars, on, isReconnecting, recent>>
  BY DEF ReconnectRead
<1>3. LoadOK' /\ UNCHANGED mounted /\ StoreOK' /\ IsDisk(disk') /\ status' = status
  BY <1>2, LoadKept, StoreKept DEF IInv, Types
<1>4. Work' = Work \cup {t} /\ task' \in [Tasks -> GoodTask] /\ task'[t] = r
  <2> HIDE DEF r
  <2> QED BY <1>1, <1>2, <1>3, WorkBusy DEF IInv, Types, CallsOK
<1>5. CallsOK' /\ ReconnectingIsWork'
  <2> HIDE DEF r
  <2> QED BY <1>1, <1>2, <1>4 DEF IInv, Types, CallsOK, ReconnectingIsWork, Reconnects
<1>6. Moves
  <2>1. t \in Work
    BY <1>0, BusyIsWork DEF Busy
  <2> QED
    BY <1>3, <1>4, <2>1, SettleMoves
<1> QED
  BY <1>3, <1>5, <1>6, StepOK

\* One attempt is over: the last one ends the call.
LEMMA AdvanceOK ==
    ASSUME IInv, NEW t \in Tasks, NEW c \in Connectors, Trying(t, c), NEW found \in BOOLEAN,
           Advance(t, c, found), isReconnecting' = ~IsLast(t), UNCHANGED mounted
    PROVE  /\ task' \in [Tasks -> GoodTask] /\ ReconnectingIsWork'
           /\ t \in Work
           /\ IsLast(t) => Work' = Work \ {t}
           /\ ~IsLast(t) => Work' = Work
<1> DEFINE r == [task[t] EXCEPT !.todo = @ \ {c}, !.found = found]
<1>0. task[t] \in GoodTask /\ task[t].at = "reconnect.trying" /\ task \in [Tasks -> GoodTask]
  BY DEF Trying, IInv, Types, CallsOK
<1>1. t \in Work /\ Busy(t)
  BY <1>0, BusyIsWork DEF Busy
<1>2. CASE IsLast(t)
  BY <1>0, <1>1, <1>2, EndStep DEF Advance, ReconnectingIsWork
<1>3. CASE ~IsLast(t)
  <2>1. r \in GoodTask /\ r.at = "reconnect.trying"
    BY <1>0 DEF GoodTask, TaskType, Place
  <2>2. Go(t, r)
    BY <1>3 DEF Advance
  <2>3. Work' = Work \cup {t} /\ task' \in [Tasks -> GoodTask] /\ task'[t] = r
    <3> HIDE DEF r
    <3> QED BY <1>0, <2>1, <2>2, WorkBusy
  <2>4. ReconnectingIsWork'
    <3> HIDE DEF r
    <3> QED BY <2>1, <2>3 DEF ReconnectingIsWork, Reconnects
  <2> QED
    BY <1>1, <1>3, <2>3, <2>4
<1> QED
  BY <1>2, <1>3

LEMMA ReconnectSkipStep ==
    ASSUME IInv, NEW t \in Tasks, NEW c \in Connectors, ReconnectSkip(t, c)
    PROVE  IInv' /\ Moves
<1>1. /\ Trying(t, c) /\ Advance(t, c, task[t].found) /\ isReconnecting' = ~IsLast(t)
      /\ UNCHANGED <<loadVars, on, recent>> /\ task[t].found \in BOOLEAN
  BY DEF ReconnectSkip, IInv, Types, CallsOK, GoodTask, TaskType
<1>2. LoadOK' /\ UNCHANGED mounted
  BY <1>1, LoadKept DEF IInv, Types
<1>3. /\ task' \in [Tasks -> GoodTask] /\ ReconnectingIsWork' /\ t \in Work
      /\ IsLast(t) => Work' = Work \ {t}
      /\ ~IsLast(t) => Work' = Work
  BY <1>1, <1>2, AdvanceOK
<1>4. CallsOK'
  BY <1>1, <1>3 DEF IInv, Types, CallsOK, IsLast
<1>5. CASE (~IsLast(t) \/ status \notin Pending) /\ UNCHANGED storeVars
  <2>1. StoreOK' /\ IsDisk(disk') /\ status' = status
    BY <1>5, StoreKept DEF IInv, Types
  <2>2. Moves
    BY <1>3, <1>5, <2>1, SettleMoves, EndMoves DEF StoreOK
  <2> QED
    BY <1>2, <1>3, <1>4, <2>1, <2>2, StepOK
<1>6. CASE IsLast(t) /\ Keep(current, "connected", chainId)
  <2>1. StoreOK' /\ status' = "connected"
    BY <1>6, KeepOK DEF IInv, Types, StoreOK, Status
  <2>2. IsDisk(disk')
    BY <1>6, <2>1, PersistOK DEF Keep
  <2>3. Moves
    BY <1>3, <1>6, <2>1, EndMoves DEF Status, Pending
  <2> QED
    BY <1>2, <1>3, <1>4, <2>1, <2>2, <2>3, StepOK
<1>7. CASE IsLast(t) /\ Install(heap, EmptyMap, None, "disconnected")
  <2>1. StoreOK' /\ status' = "disconnected"
    BY <1>7, EmptyIsMap, InstallOK DEF IInv, Types, StoreOK, Status
  <2>2. IsDisk(disk')
    BY <1>7, <2>1, PersistOK DEF Install
  <2>3. Moves
    BY <1>3, <1>7, <2>1, EndMoves DEF Status, Pending
  <2> QED
    BY <1>2, <1>3, <1>4, <2>1, <2>2, <2>3, StepOK
<1> QED
  BY <1>5, <1>6, <1>7 DEF ReconnectSkip

LEMMA ReconnectRestoreStep ==
    ASSUME IInv, NEW t \in Tasks, NEW c \in Connectors, NEW ch \in Chains,
           ReconnectRestore(t, c, ch)
    PROVE  IInv' /\ Moves
<1> DEFINE m == MapSet(IF task[t].found THEN Map ELSE EmptyMap, U(c), ch)
           cur == IF task[t].found THEN current ELSE U(c)
           st == IF IsLast(t) /\ status \in Pending THEN "connected" ELSE status
<1>1. /\ Trying(t, c) /\ Advance(t, c, TRUE) /\ isReconnecting' = ~IsLast(t)
      /\ UNCHANGED <<loadVars, recent>> /\ Connected(c)
      /\ Install(heap, m, cur, st)
  BY DEF ReconnectRestore
<1>2. LoadOK' /\ UNCHANGED mounted
  BY <1>1, LoadKept DEF IInv, Types
<1>3. /\ task' \in [Tasks -> GoodTask] /\ ReconnectingIsWork' /\ t \in Work
      /\ IsLast(t) => Work' = Work \ {t}
      /\ ~IsLast(t) => Work' = Work
  BY <1>1, <1>2, AdvanceOK
<1>4. CallsOK'
  <2>1. on' \in [Connectors -> SUBSET Wiring]
    BY <1>1 DEF Connected, IInv, Types, CallsOK, Wiring
  <2> QED
    BY <1>1, <1>3, <2>1 DEF IInv, Types, CallsOK, IsLast
<1>5. U(c) \in Uid /\ IsMap(m, Uid, Chains) /\ cur \in Uid \cup {None}
  BY UidOK, MapOK, EmptyIsMap, SetIsMap DEF IInv, Types, StoreOK
<1>6. st \in Status
  BY DEF IInv, Types, StoreOK, Status
<1>7. StoreOK' /\ IsDisk(disk') /\ status' = st
  <2> HIDE DEF m, cur, st
  <2>1. StoreOK' /\ status' = st
    BY <1>1, <1>5, <1>6, InstallOK DEF IInv, Types, StoreOK
  <2> QED
    BY <1>1, <2>1, PersistOK DEF Install
<1>8. Moves
  BY <1>3, <1>6, <1>7, SettleMoves, EndMoves DEF Pending, Status
<1> QED
  BY <1>2, <1>3, <1>4, <1>7, <1>8, StepOK

-----------------------------------------------------------------------------
(***************************************************************************)
(* disconnect                                                              *)
(***************************************************************************)

LEMMA AskWalletStep ==
    ASSUME IInv, NEW t \in Tasks, NEW c \in Connectors, AskWallet(t, c),
           UNCHANGED <<loadVars, isReconnecting>>
    PROVE  IInv' /\ Moves
<1> DEFINE r == TaskAt("disconnect.wallet", c, connections, {})
<1>1. r \in GoodTask /\ r.at = "disconnect.wallet"
  BY TaskAtOK DEF Place, IInv, Types, StoreOK
<1>2. Go(t, r) /\ task[t].at = "idle" /\ UNCHANGED <<storeVars, on, recent>>
  BY DEF AskWallet, Start, InFlight
<1>3. LoadOK' /\ UNCHANGED mounted /\ StoreOK' /\ IsDisk(disk') /\ status' = status
  BY <1>2, LoadKept, StoreKept DEF IInv, Types
<1>4. /\ Work' = Work /\ task' \in [Tasks -> GoodTask]
      /\ \A s \in Tasks : Reconnects(s) => Reconnects(s)'
  <2> HIDE DEF r
  <2> QED BY <1>1, <1>2, <1>3, OtherCall DEF Busy
<1>5. CallsOK' /\ ReconnectingIsWork'
  BY <1>2, <1>4 DEF IInv, Types, CallsOK, ReconnectingIsWork, Reconnects
<1>6. Moves
  BY <1>3, <1>4, SettleMoves
<1> QED
  BY <1>3, <1>5, <1>6, StepOK

\* The recent connector is the connector of a uid.
LEMMA RememberOK ==
    ASSUME IInv, StoreOK', Remember
    PROVE  recent' \in Connectors \cup {None}
<1>1. CASE current' \in Keys(heap'[connections'])
  <2>1. IsMap(heap'[connections'], Uid, Chains)
    BY DEF StoreOK, IsHeap
  <2>2. current' \in Uid
    BY <1>1, <2>1 DEF IsMap
  <2> QED
    BY <1>1, <2>2 DEF Remember, Uid
<1>2. CASE current' \notin Keys(heap'[connections'])
  BY <1>2 DEF Remember, IInv, Types, CallsOK
<1> QED
  BY <1>1, <1>2

\* Leaving connections writes the store and never says "connecting" anew.
LEMMA LeaveDisk ==
    ASSUME StoreOK', NEW h, NEW m, Leave(h, m)
    PROVE  IsDisk(disk')
BY PersistOK DEF Leave, Install

LEMMA NothingToAskStep ==
    ASSUME IInv, NothingToAsk, UNCHANGED <<loadVars, isReconnecting>>
    PROVE  IInv' /\ Moves
<1>1. LoadOK' /\ UNCHANGED <<task, on, mounted>> /\ Work' = Work
  BY LoadKept, WorkSame DEF IInv, Types, NothingToAsk
<1>2. StoreOK' /\ status' \in {"disconnected", status}
  BY LeaveOK, MapOK DEF NothingToAsk, IInv, Types, StoreOK
<1>3. IsDisk(disk') /\ recent' \in Connectors \cup {None}
  BY <1>2, LeaveDisk, RememberOK DEF NothingToAsk
<1>4. CallsOK' /\ ReconnectingIsWork'
  BY <1>1, <1>3 DEF IInv, Types, CallsOK, ReconnectingIsWork, Reconnects
<1>5. Moves
  BY <1>1, <1>2, SettleMoves DEF Status, Pending
<1> QED
  BY <1>1, <1>2, <1>3, <1>4, <1>5, StepOK

LEMMA DisconnectCurrentStep ==
    ASSUME IInv, NEW t \in Tasks, DisconnectCurrent(t)
    PROVE  IInv' /\ Moves
BY AskWalletStep, NothingToAskStep DEF DisconnectCurrent

LEMMA DisconnectConnectorStep ==
    ASSUME IInv, NEW t \in Tasks, NEW c \in Connectors, DisconnectConnector(t, c)
    PROVE  IInv' /\ Moves
BY AskWalletStep DEF DisconnectConnector

LEMMA DisconnectDoneStep ==
    ASSUME IInv, NEW t \in Tasks, DisconnectDone(t)
    PROVE  IInv' /\ Moves
<1> DEFINE ref == task[t].ref
           rest == MapDelete(heap[ref], U(task[t].c))
           h == [heap EXCEPT ![ref] = rest]
<1>0. /\ task[t].at = "disconnect.wallet" /\ task[t].c \in Connectors /\ ref \in Refs
      /\ UNCHANGED <<loadVars, isReconnecting>> /\ Finish(t)
      /\ Disconnected(task[t].c) /\ Leave(h, rest) /\ Remember
  BY DEF DisconnectDone, IInv, Types, CallsOK, GoodTask
<1>1. LoadOK' /\ UNCHANGED mounted
  BY <1>0, LoadKept DEF IInv, Types
<1>2. /\ Work' = Work /\ task' \in [Tasks -> GoodTask]
      /\ \A s \in Tasks : Reconnects(s) => Reconnects(s)'
  BY <1>0, <1>1, IdleOK, OtherCall DEF Finish, Busy
<1>3. IsMap(rest, Uid, Chains) /\ IsHeap(h)
  <2>1. IsMap(heap[ref], Uid, Chains)
    BY <1>0 DEF IInv, Types, StoreOK, IsHeap
  <2>2. IsMap(rest, Uid, Chains)
    BY <2>1, DeleteIsMap
  <2> QED
    BY <2>2 DEF IInv, Types, StoreOK, IsHeap
<1>4. StoreOK' /\ status' \in {"disconnected", status}
  <2> HIDE DEF h, rest
  <2> QED BY <1>0, <1>3, LeaveOK DEF IInv, Types
<1>5. IsDisk(disk') /\ recent' \in Connectors \cup {None}
  BY <1>0, <1>4, LeaveDisk, RememberOK
<1>6. on' \in [Connectors -> SUBSET Wiring]
  BY <1>0 DEF Disconnected, IInv, Types, CallsOK, Wiring
<1>7. CallsOK' /\ ReconnectingIsWork'
  BY <1>0, <1>2, <1>5, <1>6 DEF IInv, Types, CallsOK, ReconnectingIsWork, Reconnects
<1>8. Moves
  BY <1>2, <1>4, SettleMoves DEF Status, Pending
<1> QED
  BY <1>1, <1>4, <1>5, <1>7, <1>8, StepOK

LEMMA DisconnectFailStep ==
    ASSUME IInv, NEW t \in Tasks, DisconnectFail(t)
    PROVE  IInv' /\ Moves
<1>0. /\ task[t].at = "disconnect.wallet" /\ Finish(t)
      /\ UNCHANGED <<chainId, connections, current, status, disk, loadVars, on,
                     isReconnecting, recent>>
  BY DEF DisconnectFail
<1>1. LoadOK' /\ UNCHANGED mounted
  BY <1>0, LoadKept DEF IInv, Types
<1>2. /\ Work' = Work /\ task' \in [Tasks -> GoodTask]
      /\ \A s \in Tasks : Reconnects(s) => Reconnects(s)'
  BY <1>0, <1>1, IdleOK, OtherCall DEF Finish, Busy
<1>3. IsHeap(heap')
  BY EmptyIsMap DEF DisconnectFail, IsHeap, IInv, Types, StoreOK
<1>4. StoreOK' /\ IsDisk(disk')
  BY <1>0, <1>3 DEF IInv, Types, StoreOK
<1>5. CallsOK' /\ ReconnectingIsWork'
  BY <1>0, <1>2 DEF IInv, Types, CallsOK, ReconnectingIsWork, Reconnects
<1>6. Moves
  BY <1>0, <1>2, SettleMoves
<1> QED
  BY <1>1, <1>4, <1>5, <1>6, StepOK

-----------------------------------------------------------------------------
(***************************************************************************)
(* switchChain and the events                                              *)
(***************************************************************************)

LEMMA SwitchChainStep ==
    ASSUME IInv, NEW target, NEW ch \in Chains, SwitchChain(target, ch)
    PROVE  IInv' /\ Moves
<1>0. /\ Keep(current, status, ch) /\ ch \in Configured
      /\ UNCHANGED <<task, loadVars, on, isReconnecting, recent>>
  BY DEF SwitchChain
<1>1. LoadOK' /\ UNCHANGED mounted /\ Work' = Work
  BY <1>0, LoadKept, WorkSame DEF IInv, Types
<1>2. StoreOK' /\ status' = status
  BY <1>0, KeepOK DEF IInv, Types, StoreOK
<1>3. IsDisk(disk')
  BY <1>0, <1>2, PersistOK DEF Keep
<1>4. CallsOK' /\ ReconnectingIsWork'
  BY <1>0 DEF IInv, Types, CallsOK, ReconnectingIsWork, Reconnects
<1>5. Moves
  BY <1>1, <1>2, SettleMoves
<1> QED
  BY <1>1, <1>2, <1>3, <1>4, <1>5, StepOK

LEMMA ChangeStep ==
    ASSUME IInv, NEW c \in Connectors, NEW ch \in Chains, Change(c, ch)
    PROVE  IInv' /\ Moves
<1>0. /\ Install(heap, MapSet(Map, U(c), ch), current, status)
      /\ UNCHANGED <<task, loadVars, on, isReconnecting, recent>>
  BY DEF Change
<1>1. LoadOK' /\ UNCHANGED mounted /\ Work' = Work
  BY <1>0, LoadKept, WorkSame DEF IInv, Types
<1>2. IsMap(MapSet(Map, U(c), ch), Uid, Chains)
  BY UidOK, MapOK, SetIsMap DEF IInv, Types
<1>3. StoreOK' /\ status' = status
  BY <1>0, <1>2, InstallOK DEF IInv, Types, StoreOK
<1>4. IsDisk(disk')
  BY <1>0, <1>3, PersistOK DEF Install
<1>5. CallsOK' /\ ReconnectingIsWork'
  BY <1>0 DEF IInv, Types, CallsOK, ReconnectingIsWork, Reconnects
<1>6. Moves
  BY <1>1, <1>3, SettleMoves
<1> QED
  BY <1>1, <1>3, <1>4, <1>5, <1>6, StepOK

LEMMA ConnectEventStep ==
    ASSUME IInv, NEW c \in Connectors, NEW ch \in Chains, ConnectEvent(c, ch)
    PROVE  IInv' /\ Moves
<1>0. /\ Install(heap, MapSet(Map, U(c), ch), U(c), "connected")
      /\ UNCHANGED <<task, loadVars, isReconnecting, recent>>
      /\ on' = [on EXCEPT ![c] = @ \cup {"change", "disconnect"}]
  BY DEF ConnectEvent
<1>1. LoadOK' /\ UNCHANGED mounted /\ Work' = Work
  BY <1>0, LoadKept, WorkSame DEF IInv, Types
<1>2. U(c) \in Uid /\ IsMap(MapSet(Map, U(c), ch), Uid, Chains)
  BY UidOK, MapOK, SetIsMap DEF IInv, Types
<1>3. StoreOK' /\ status' = "connected"
  BY <1>0, <1>2, InstallOK DEF IInv, Types, StoreOK, Status
<1>4. IsDisk(disk')
  BY <1>0, <1>3, PersistOK DEF Install
<1>5. on' \in [Connectors -> SUBSET Wiring]
  BY <1>0 DEF IInv, Types, CallsOK, Wiring
<1>6. CallsOK' /\ ReconnectingIsWork'
  BY <1>0, <1>5 DEF IInv, Types, CallsOK, ReconnectingIsWork, Reconnects
<1>7. Moves
  BY <1>1, <1>3, SettleMoves DEF Status, Pending
<1> QED
  BY <1>1, <1>3, <1>4, <1>6, <1>7, StepOK

LEMMA DisconnectEventStep ==
    ASSUME IInv, NEW c \in Connectors, DisconnectEvent(c)
    PROVE  IInv' /\ Moves
<1> DEFINE rest == MapDelete(Map, U(c))
           h == [heap EXCEPT ![connections] = rest]
<1>0. /\ UNCHANGED <<task, loadVars, isReconnecting, recent>> /\ Leave(h, rest)
      /\ Disconnected(c) \/ UNCHANGED on
  BY DEF DisconnectEvent
<1>1. LoadOK' /\ UNCHANGED mounted /\ Work' = Work
  BY <1>0, LoadKept, WorkSame DEF IInv, Types
<1>2. IsMap(rest, Uid, Chains) /\ IsHeap(h)
  <2>1. IsMap(rest, Uid, Chains)
    BY MapOK, DeleteIsMap DEF IInv, Types
  <2> QED
    BY <2>1 DEF IInv, Types, StoreOK, IsHeap
<1>3. StoreOK' /\ status' \in {"disconnected", status}
  <2> HIDE DEF h, rest
  <2> QED BY <1>0, <1>2, LeaveOK DEF IInv, Types
<1>4. IsDisk(disk')
  BY <1>0, <1>3, LeaveDisk
<1>5. on' \in [Connectors -> SUBSET Wiring]
  BY <1>0 DEF Disconnected, IInv, Types, CallsOK, Wiring
<1>6. CallsOK' /\ ReconnectingIsWork'
  BY <1>0, <1>5 DEF IInv, Types, CallsOK, ReconnectingIsWork, Reconnects
<1>7. Moves
  BY <1>1, <1>3, SettleMoves DEF Status, Pending
<1> QED
  BY <1>1, <1>3, <1>4, <1>6, <1>7, StepOK

-----------------------------------------------------------------------------
(***************************************************************************)
(* Page loads                                                              *)
(***************************************************************************)

\* The two kinds of work: calls, and the page.
Calling == {t \in Tasks : Busy(t)}
PageWork == {p \in {ThePage} : InitialState /\ ReconnectOnMount /\ mounted \in {"rendered", "waiting"}}

LEMMA WorkSplit == Work = Calling \cup PageWork /\ Calling \subseteq Tasks
BY DEF Work, Calling, PageWork

LEMMA HydrateStep ==
    ASSUME IInv, Hydrate
    PROVE  IInv' /\ Moves
<1> DEFINE chain == ValidChain(unread.chainId, chainId)
<1>0. /\ Replace(heap, unread.map, unread.current, status, chain)
      /\ UNCHANGED disk \/ Persist
      /\ hydration' = "done" /\ unread' = EmptyDisk
      /\ UNCHANGED <<task, life, mounted, seen, on, isReconnecting, recent>>
  BY DEF Hydrate
<1>1. IsMap(unread.map, Uid, Chains) /\ unread.current \in Uid \cup {None}
  BY DEF IInv, Types, LoadOK, IsDisk
<1>2. chain \in Configured
  BY DEF ValidChain, IInv, Types, StoreOK
<1>3. StoreOK' /\ status' = status
  <2> HIDE DEF chain
  <2> QED BY <1>0, <1>1, <1>2, ReplaceOK DEF IInv, Types, StoreOK
<1>4. IsDisk(disk')
  BY <1>0, <1>3, PersistOK DEF IInv, Types
<1>5. LoadOK'
  BY <1>0, EmptyDiskOK DEF IInv, Types, LoadOK
<1>6. CallsOK' /\ ReconnectingIsWork' /\ Work' = Work
  BY <1>0, WorkSame DEF IInv, Types, CallsOK, ReconnectingIsWork, Reconnects
<1>7. Moves
  BY <1>3, <1>6, SettleMoves
<1> QED
  BY <1>3, <1>4, <1>5, <1>6, <1>7, StepOK

LEMMA RenderStep ==
    ASSUME IInv, Render
    PROVE  IInv' /\ Moves
<1> DEFINE m == IF ReconnectOnMount THEN unread.map ELSE EmptyMap
           st == IF ReconnectOnMount THEN "reconnecting" ELSE "disconnected"
           chain == ValidChain(unread.chainId, DefaultChain)
<1>0. /\ Replace(heap, m, unread.current, st, chain) /\ Persist
      /\ Ssr /\ InitialState /\ mounted = "no" /\ mounted' = "rendered" /\ unread' = EmptyDisk
      /\ UNCHANGED <<task, life, hydration, seen, on, isReconnecting, recent>>
  BY DEF Render
<1>1. IsMap(m, Uid, Chains) /\ unread.current \in Uid \cup {None}
  BY EmptyIsMap DEF IInv, Types, LoadOK, IsDisk
<1>2. chain \in Configured /\ st \in Status
  BY ConfigAssumption DEF ValidChain, Status, Pending
<1>3. StoreOK' /\ status' = st
  <2> HIDE DEF chain, m, st
  <2> QED BY <1>0, <1>1, <1>2, ReplaceOK DEF IInv, Types, StoreOK
<1>4. IsDisk(disk')
  BY <1>0, <1>3, PersistOK
<1>5. LoadOK'
  BY <1>0, EmptyDiskOK DEF IInv, Types, LoadOK
<1>6. CallsOK' /\ ReconnectingIsWork'
  BY <1>0 DEF IInv, Types, CallsOK, ReconnectingIsWork, Reconnects
<1>7. Moves
  <2>1. Calling' = Calling /\ PageWork = {}
    BY <1>0 DEF Calling, Busy, PageWork
  <2>2. CASE ReconnectOnMount
    <3>1. PageWork' = {ThePage}
      BY <1>0, <2>2 DEF PageWork
    <3>2. ThePage \notin Work /\ Work' = Work \cup {ThePage}
      BY <2>1, <3>1, WorkSplit, ThePageIsNoTask DEF Work, Calling, PageWork
    <3> QED
      BY <1>3, <2>2, <3>2, BeginMoves DEF Pending
  <2>3. CASE ~ReconnectOnMount
    <3>1. Work' = Work
      BY <2>1, <2>3 DEF Work, Calling, PageWork
    <3> QED
      BY <1>3, <2>3, <3>1, SettleMoves DEF Status, Pending
  <2> QED
    BY <2>2, <2>3
<1> QED
  BY <1>3, <1>4, <1>5, <1>6, <1>7, StepOK

\* onMount, in the page of a client and of a server.
LEMMA MountingStep ==
    ASSUME IInv, NEW t \in Tasks, Mounting(t), mounted' = "yes",
           UNCHANGED <<life, hydration, unread, seen, on, recent>>
    PROVE  IInv' /\ Moves
<1>1. LoadOK' /\ PageWork' = {} /\ (PageWork = {} \/ PageWork = {ThePage})
  BY DEF IInv, Types, LoadOK, PageWork, IsDisk
<1>2. CASE ReconnectOnMount /\ BeginReconnect(t, Connectors)
  <2>1. /\ StoreOK' /\ IsDisk(disk') /\ status' \in Pending
        /\ task' \in [Tasks -> GoodTask] /\ ReconnectingIsWork' /\ isReconnecting' = TRUE
        /\ t \notin Calling /\ Calling' = Calling \cup {t}
    BY <1>2, BeginReconnectOK DEF Calling
  <2>2. CallsOK'
    BY <2>1 DEF IInv, Types, CallsOK
  <2>3. CASE PageWork = {}
    <3>1. t \notin Work /\ Work' = Work \cup {t}
      BY <1>1, <2>1, <2>3 DEF Work, Calling, PageWork
    <3> QED
      BY <1>1, <2>1, <2>2, <3>1, BeginMoves, StepOK
  <2>4. CASE PageWork = {ThePage}
    <3>1. /\ t \notin Work /\ ThePage \in Work /\ Work' = (Work \ {ThePage}) \cup {t}
      BY <1>1, <2>1, <2>4, ThePageIsNoTask DEF Work, Calling, PageWork
    <3>2. CS!HandOver(ThePage, t)
      BY <2>1, <3>1 DEF CS!HandOver, CS!Working, Pending
    <3>3. Moves
      BY <3>2 DEF Moves, CS!Next
    <3> QED
      BY <1>1, <2>1, <2>2, <3>3, StepOK
  <2> QED
    BY <1>1, <2>3, <2>4
<1>3. CASE isReconnecting /\ UNCHANGED <<storeVars, task, isReconnecting>>
  <2>1. StoreOK' /\ IsDisk(disk') /\ status' = status /\ Calling' = Calling
    BY <1>3, StoreKept DEF IInv, Types, Calling, Busy
  <2>2. CallsOK' /\ ReconnectingIsWork'
    BY <1>3 DEF IInv, Types, CallsOK, ReconnectingIsWork, Reconnects
  <2>3. Calling # {}
    BY <1>3 DEF IInv, ReconnectingIsWork, Reconnects, Calling, Busy
  <2>4. CASE PageWork = {}
    <3>1. Work' = Work
      BY <1>1, <2>1, <2>4 DEF Work, Calling, PageWork
    <3> QED
      BY <1>1, <2>1, <2>2, <3>1, SettleMoves, StepOK
  <2>5. CASE PageWork = {ThePage}
    <3>1. ThePage \in Work /\ Work' = Work \ {ThePage} /\ Work' # {}
      BY <1>1, <2>1, <2>3, <2>5, ThePageIsNoTask DEF Work, Calling, PageWork
    <3>2. CS!Join(ThePage)
      BY <2>1, <3>1 DEF CS!Join
    <3>3. Moves
      BY <3>2 DEF Moves, CS!Next
    <3> QED
      BY <1>1, <2>1, <2>2, <3>3, StepOK
  <2> QED
    BY <1>1, <2>4, <2>5
<1>4. CASE /\ ~ReconnectOnMount /\ UNCHANGED <<task, isReconnecting>>
           /\ Install(heap, EmptyMap, current, status)
  <2>1. StoreOK' /\ status' = status
    BY <1>4, EmptyIsMap, InstallOK DEF IInv, Types, StoreOK
  <2>2. IsDisk(disk')
    BY <1>4, <2>1, PersistOK DEF Install
  <2>3. CallsOK' /\ ReconnectingIsWork'
    BY <1>4 DEF IInv, Types, CallsOK, ReconnectingIsWork, Reconnects
  <2>4. Work' = Work
    BY <1>4 DEF Work, Busy
  <2> QED
    BY <1>1, <2>1, <2>2, <2>3, <2>4, SettleMoves, StepOK
<1> QED
  BY <1>2, <1>3, <1>4 DEF Mounting

LEMMA MountSsrStep ==
    ASSUME IInv, MountSsr
    PROVE  IInv' /\ Moves
<1>0. /\ Ssr /\ mounted = (IF InitialState THEN "rendered" ELSE "no")
      /\ mounted' = "waiting" /\ hydration' = "reading" /\ unread' = disk
      /\ UNCHANGED <<storeVars, life, seen, on, isReconnecting, task, recent>>
  BY DEF MountSsr
<1>1. StoreOK' /\ IsDisk(disk') /\ status' = status
  BY <1>0, StoreKept DEF IInv, Types
<1>2. LoadOK'
  BY <1>0 DEF IInv, Types, LoadOK
<1>3. CallsOK' /\ ReconnectingIsWork' /\ Work' = Work
  BY <1>0 DEF IInv, Types, CallsOK, ReconnectingIsWork, Reconnects, Work, Busy
<1> QED
  BY <1>1, <1>2, <1>3, SettleMoves, StepOK

LEMMA InitialStoreOK ==
    ASSUME chainId = DefaultChain, current = None, status = "disconnected",
           connections = 0, heap = [r \in Refs |-> EmptyMap]
    PROVE  StoreOK
BY ConfigAssumption, RefsAreNaturals, EmptyIsMap DEF StoreOK, IsHeap, Status

LEMMA ReloadStep ==
    ASSUME IInv, Reload
    PROVE  IInv' /\ Moves
<1>1. StoreOK' /\ status' = "disconnected"
  BY ConfigAssumption, RefsAreNaturals, EmptyIsMap DEF Reload, StoreOK, IsHeap, Status
<1>2. IsDisk(disk') /\ IsDisk(unread')
  BY EmptyDiskOK DEF Reload, IInv, Types
<1>3. life' \in 1..MaxLife
  BY ConfigAssumption DEF Reload, IInv, Types, LoadOK
<1>4. seen' \in Chains \cup {None}
  BY ConfigAssumption DEF Reload, IInv, Types, LoadOK, StoreOK
<1>5. LoadOK'
  BY <1>2, <1>3, <1>4 DEF Reload, LoadOK
<1>6. task' \in [Tasks -> GoodTask] /\ \A t \in Tasks : task'[t].at = "idle"
  BY IdleOK DEF Reload
<1>7. CallsOK' /\ ReconnectingIsWork'
  BY <1>6 DEF Reload, IInv, Types, CallsOK, Wiring, ReconnectingIsWork
<1>8. Work' = {}
  BY <1>6 DEF Reload, Work, Busy
<1>9. Moves
  BY <1>1, <1>8 DEF Moves, CS!Next, CS!Reset, CS!Settled
<1> QED
  BY <1>1, <1>2, <1>5, <1>7, <1>9, StepOK

-----------------------------------------------------------------------------
(***************************************************************************)
(* The theorems                                                            *)
(***************************************************************************)

LEMMA InitOK == Init => IInv /\ CS!Init
<1> SUFFICES ASSUME Init PROVE IInv /\ CS!Init
  OBVIOUS
<1>1. StoreOK /\ IsDisk(disk)
  BY InitialStoreOK, EmptyDiskOK DEF Init
<1>2. ASSUME NEW d \in FirstDisks PROVE IsDisk(d)
  <2>1. CASE \E ch \in Chains : d = Partial(EmptyMap, ch, None)
    BY <2>1, EmptyIsMap DEF Partial, IsDisk
  <2>2. ASSUME NEW u \in Uid, NEW ch \in Chains PROVE IsDisk(OneConnection(u, ch))
    <3>1. IsMap(MapSet(EmptyMap, u, ch), Uid, Chains)
      BY EmptyIsMap, SetIsMap
    <3> QED
      BY <3>1 DEF OneConnection, Partial, IsDisk
  <2>3. \A c \in Connectors : <<c, 0>> \in Uid
    BY ConfigAssumption DEF Uid
  <2>4. \/ \E ch \in Chains : d = Partial(EmptyMap, ch, None)
        \/ \E p \in Connectors \X Chains : d = OneConnection(<<p[1], 0>>, p[2])
    BY DEF FirstDisks
  <2> QED
    BY <2>1, <2>2, <2>3, <2>4
<1>3. IsDisk(unread)
  BY <1>2, EmptyDiskOK DEF Init
<1>4. LoadOK
  BY <1>3, ConfigAssumption DEF Init, LoadOK
<1>5. task \in [Tasks -> GoodTask] /\ \A t \in Tasks : task[t].at = "idle"
  BY IdleOK DEF Init
<1>6. CallsOK /\ ReconnectingIsWork
  BY <1>5 DEF Init, CallsOK, Wiring, ReconnectingIsWork
<1>7. Work = {}
  BY <1>5 DEF Init, Work, Busy
<1>8. status \in CS!Settled /\ status \notin Pending
  BY DEF Init, CS!Settled, Pending
<1> QED
  BY <1>1, <1>4, <1>6, <1>7, <1>8 DEF IInv, Types, StatusReflectsWork, CS!Init

LEMMA NextOK ==
    ASSUME IInv, Next
    PROVE  IInv' /\ Moves
<1>1. ASSUME NEW t \in Tasks, Continue(t) PROVE IInv' /\ Moves
  BY <1>1, ConnectDoneStep, ReconnectReadStep, SwitchDoneStep DEF Continue
<1>2. ASSUME NEW t \in Tasks, Answer(t) PROVE IInv' /\ Moves
  BY <1>2, ConnectAnswerStep, ConnectFailStep, ReconnectSkipStep, ReconnectRestoreStep,
     DisconnectDoneStep, DisconnectFailStep DEF Answer
<1>3. ASSUME NEW t \in Tasks, Call(t) PROVE IInv' /\ Moves
  BY <1>3, ConnectStep, ReconnectStep, DisconnectCurrentStep, DisconnectConnectorStep,
     SwitchConnectionStep DEF Call
<1>4. CASE SwitchChains
  BY <1>4, SwitchChainStep DEF SwitchChains
<1>5. CASE Event
  BY <1>5, DisconnectEventStep, ChangeStep, ConnectEventStep DEF Event
<1>6. CASE Page
  <2>1. CASE \E t \in Tasks : MountClient(t)
    BY <2>1, MountingStep DEF MountClient
  <2>2. CASE \E t \in Tasks : MountResume(t)
    BY <2>2, MountingStep DEF MountResume
  <2> QED
    BY <1>6, <2>1, <2>2, RenderStep, MountSsrStep DEF Page
<1> QED
  BY <1>1, <1>2, <1>3, <1>4, <1>5, <1>6, HydrateStep, ReloadStep DEF Next

LEMMA StutterOK ==
    ASSUME IInv, UNCHANGED vars
    PROVE  IInv' /\ Moves
<1>1. StoreOK' /\ IsDisk(disk') /\ status' = status
  BY StoreKept DEF vars, IInv, Types
<1>2. LoadOK' /\ UNCHANGED <<life, mounted>>
  BY LoadKept DEF vars, IInv, Types
<1>3. CallsOK' /\ ReconnectingIsWork' /\ Work' = Work
  BY <1>2, WorkSame DEF vars, IInv, Types, CallsOK, ReconnectingIsWork, Reconnects
<1> QED
  BY <1>1, <1>2, <1>3, SettleMoves, StepOK

LEMMA Invariance == Spec => []IInv
<1>1. Init => IInv
  BY InitOK
<1>2. IInv /\ [Next]_vars => IInv'
  BY NextOK, StutterOK
<1> QED
  BY <1>1, <1>2, PTL DEF Spec

\* Every variable keeps its type: the map of connections, its persisted copy
\* and the calls in flight, whatever order the calls, events and loads take.
THEOREM TypeCorrect == Spec => []TypeOK
BY Invariance, TypesImplyTypeOK, PTL DEF IInv

\* The chain id of a Config is one of its chains, whatever wallets report and
\* storage holds (createConfig.ts, validatePersistedChainId and the
\* syncConnectedChain subscription).
THEOREM ChainIsConfigured == Spec => []ChainIdIsConfigured
BY Invariance, TypesImplyTypeOK, PTL DEF IInv

\* "connecting" and "reconnecting" are only shown while a call connects.
THEOREM StatusIsTrue == Spec => []StatusReflectsWork
BY Invariance, PTL DEF IInv

\* The Config implements ConnectionStatus: the initial states map to initial
\* states, and every step to a step or a stutter.
THEOREM Refinement == Spec => KeepsStatusPromise
<1>1. Init => CS!Init
  BY InitOK
<1>2. IInv /\ [Next]_vars => [CS!Next]_<<status, Work>>
  BY NextOK, StutterOK DEF Moves
<1> QED
  BY <1>1, <1>2, Invariance, PTL DEF Spec, KeepsStatusPromise, CS!Spec
=============================================================================
