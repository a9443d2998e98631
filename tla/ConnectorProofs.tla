--------------------------- MODULE ConnectorProofs ---------------------------
(***************************************************************************)
(* What the connectors that talk to a wallet keep true, in every setting:  *)
(* their status says whether there is a connection, which is the one the   *)
(* wallet or the session has when the calls are made one at a time, and    *)
(* none is left by disconnect().  The invariant is about the one store     *)
(* they share and is kept step by step by what Connector has in common;    *)
(* each connector adds that its calls lead from one such step to another,  *)
(* and what a call of its knows of the wallet while it waits.              *)
(***************************************************************************)
EXTENDS Connectors, TLAPS

-----------------------------------------------------------------------------
(* What the connectors share. *)

Conns(Ch) == [chain : Ch \cup {None}, acc : BOOLEAN]

\* Where a call is that will connect, and where one is that switches, maybe
\* inside of one that will connect.
ConnectPlaces ==
  {"connect.prompt", "connect.chain", "connect.accounts", "connect.store", "connect.begin",
   "connect.end", "connect.pair", "reconnect", "reconnect.accounts", "reconnect.connect",
   "reconnect.request"}
SwitchPlaces == {"switch.wallet", "switch.confirm", "switch.event", "switch.add"}
OtherPlaces ==
  {"idle", "disconnect", "disconnect.revoke", "disconnect.wallet", "accounts.chain", "onConnect",
   "onDisconnect"}
Places == ConnectPlaces \cup SwitchPlaces \cup OtherPlaces

JobSet(Ch) == [at : Places, chain : Ch \cup {None}, acc : BOOLEAN, was : Ch \cup {None}]

\* A call that has to settle the status.
Works(j) == j.at \in ConnectPlaces \/ (j.at \in SwitchPlaces /\ j.was # None)

JobOK(j, Ch) == j \in JobSet(Ch) /\ (j.at \in SwitchPlaces => j.chain \in Ch)

Settled == status = IF link # None THEN "connected" ELSE "disconnected"

Truthful(S) ==
  \/ Settled
  \/ link = None /\ status = "connecting" /\ \E s \in S : Works(job[s])

Jobs(S, Ch) == job = [s \in S |-> job[s]] /\ \A s \in S : JobOK(job[s], Ch)

StoreInv(S, Ch) == link \in Conns(Ch) \cup {None} /\ Jobs(S, Ch) /\ Truthful(S)

\* None is neither a chain nor a connection.
Apart(Ch) == None \notin Ch /\ None \notin Conns(Ch)

\* The store settles its status, or keeps it with its connection.
Settles(Ch) == link' \in Conns(Ch) \cup {None} /\ Settled'
Told(Ch) ==
  /\ link' \in Conns(Ch) \cup {None}
  /\ Settled' \/ (status' = status /\ (link' = None <=> link = None))

\* A connection on another chain is one.
LEMMA EditConnection ==
  ASSUME NEW Ch, Apart(Ch), NEW c \in Conns(Ch), NEW ch \in Ch \cup {None}, NEW acc \in BOOLEAN
  PROVE  /\ [c EXCEPT !.chain = ch] \in Conns(Ch) /\ [c EXCEPT !.chain = ch] # None
         /\ [c EXCEPT !.acc = acc] \in Conns(Ch) /\ [c EXCEPT !.acc = acc] # None
         /\ [chain |-> ch, acc |-> acc] \in Conns(Ch) /\ [chain |-> ch, acc |-> acc] # None
<1>1. [c EXCEPT !.chain = ch] \in Conns(Ch)
  BY DEF Conns
<1>2. [c EXCEPT !.acc = acc] \in Conns(Ch)
  BY DEF Conns
<1>3. [chain |-> ch, acc |-> acc] \in Conns(Ch)
  BY DEF Conns
<1> QED BY <1>1, <1>2, <1>3 DEF Apart

\* The store when accountsChanged reaches it with accounts.
LEMMA AccountsTell ==
  ASSUME NEW Ch, Apart(Ch), link \in Conns(Ch) \cup {None}, status' = status,
         \/ link' = link
         \/ link # None /\ \E acc \in BOOLEAN : link' = [link EXCEPT !.acc = acc]
  PROVE  Told(Ch)
<1>1. CASE link' = link
  BY <1>1 DEF Told
<1>2. CASE link # None /\ \E acc \in BOOLEAN : link' = [link EXCEPT !.acc = acc]
  <2>1. \A acc \in BOOLEAN : [link EXCEPT !.acc = acc] \in Conns(Ch)
    BY <1>2 DEF Conns
  <2> QED BY <1>2, <2>1 DEF Told, Apart
<1> QED BY <1>1, <1>2

\* A job that has come to another place.
LEMMA EditJob ==
  ASSUME NEW Ch, NEW j \in JobSet(Ch), NEW at \in Places, NEW ch \in Ch \cup {None},
         NEW acc \in BOOLEAN
  PROVE  /\ [j EXCEPT !.at = at] = [at |-> at, chain |-> j.chain, acc |-> j.acc, was |-> j.was]
         /\ [j EXCEPT !.at = at] \in JobSet(Ch)
         /\ [j EXCEPT !.chain = ch] = [at |-> j.at, chain |-> ch, acc |-> j.acc, was |-> j.was]
         /\ [j EXCEPT !.chain = ch] \in JobSet(Ch)
  BY DEF JobSet

\* One job changes.
LEMMA MoveJob ==
  ASSUME NEW S, NEW Ch, NEW s \in S, Jobs(S, Ch), NEW j, JobOK(j, Ch),
         NEW f, f = [job EXCEPT ![s] = j]
  PROVE  /\ f = [t \in S |-> f[t]] /\ \A t \in S : JobOK(f[t], Ch)
         /\ f[s] = j /\ \A t \in S : t # s => f[t] = job[t]
<1>1. f[s] = j /\ \A t \in S : t # s => f[t] = job[t]
  BY DEF Jobs
<1>2. f = [t \in S |-> f[t]]
  BY DEF Jobs
<1>3. \A t \in S : JobOK(f[t], Ch)
  BY <1>1 DEF Jobs
<1> QED BY <1>1, <1>2, <1>3

\* ... as the store is told.
LEMMA MoveTells ==
  ASSUME NEW S, NEW Ch, NEW s \in S, StoreInv(S, Ch), NEW j, JobOK(j, Ch),
         job' = [job EXCEPT ![s] = j], Told(Ch), Works(job[s]) => Works(j) \/ Settled'
  PROVE  StoreInv(S, Ch)'
<1>1. Jobs(S, Ch)' /\ job'[s] = j /\ \A t \in S : t # s => job'[t] = job[t]
  <2>1. Jobs(S, Ch)
    BY DEF StoreInv
  <2> QED BY <2>1, MoveJob DEF Jobs
<1>2. ~ Settled' => \A t \in S : Works(job[t]) => Works(job'[t])
  BY <1>1
<1> QED BY <1>1, <1>2 DEF StoreInv, Truthful, Told, Settled

\* ... or has begun to connect.
LEMMA MoveBegins ==
  ASSUME NEW S, NEW Ch, NEW s \in S, StoreInv(S, Ch), NEW j, JobOK(j, Ch),
         job' = [job EXCEPT ![s] = j], link' = None, status' = "connecting", Works(j)
  PROVE  StoreInv(S, Ch)'
<1>1. Jobs(S, Ch)' /\ job'[s] = j
  <2>1. Jobs(S, Ch)
    BY DEF StoreInv
  <2> QED BY <2>1, MoveJob DEF Jobs
<1> QED BY <1>1 DEF StoreInv, Truthful

\* No job changes.
LEMMA NothingMoves ==
  ASSUME NEW S, NEW Ch, StoreInv(S, Ch), job' = job, Told(Ch)
  PROVE  StoreInv(S, Ch)'
  BY DEF StoreInv, Jobs, Truthful, Settled, Told

\* The store and the emitter of a connector, as they all see them.
Store(S, Ch) == INSTANCE Connector WITH Slots <- S, Chains <- Ch, connection <- link

\* The handlers of the Config settle the status, or leave it.
LEMMA HandlersTell ==
  ASSUME NEW S, NEW Ch, Apart(Ch), StoreInv(S, Ch)
  PROVE  /\ Store(S, Ch)!EmitDisconnect => Told(Ch)
         /\ \A ch \in Ch \cup {None}, acc \in BOOLEAN :
              Store(S, Ch)!EmitConnect(ch, acc) => Told(Ch)
         /\ \A ch \in Ch \cup {None}, acc \in BOOLEAN :
              Store(S, Ch)!Stored(ch, acc) => Settles(Ch)
         /\ Store(S, Ch)!Removed => Settles(Ch)
         /\ link' = link /\ status' = Store(S, Ch)!Failed => Settles(Ch)
<1>1. Store(S, Ch)!EmitDisconnect => Told(Ch)
  BY DEF Store!EmitDisconnect, Store!store, Told, Settled, StoreInv
<1>2. ASSUME NEW ch \in Ch \cup {None}, NEW acc \in BOOLEAN
      PROVE  /\ [chain |-> ch, acc |-> acc] \in Conns(Ch)
             /\ [chain |-> ch, acc |-> acc] # None
  BY DEF Apart, Conns
<1>3. ASSUME NEW ch \in Ch \cup {None}, NEW acc \in BOOLEAN, Store(S, Ch)!EmitConnect(ch, acc)
      PROVE  Told(Ch)
  BY <1>2, <1>3 DEF Store!EmitConnect, Store!Adopt, Store!store, Told, Settled, StoreInv
<1>4. ASSUME NEW ch \in Ch \cup {None}, NEW acc \in BOOLEAN, Store(S, Ch)!Stored(ch, acc)
      PROVE  Settles(Ch)
  BY <1>2, <1>4 DEF Store!Stored, Settles, Settled
<1>5. Store(S, Ch)!Removed => Settles(Ch)
  BY DEF Store!Removed, Settles, Settled
<1>6. link' = link /\ status' = Store(S, Ch)!Failed => Settles(Ch)
  BY DEF Store!Failed, Settles, Settled, StoreInv
<1> QED BY <1>1, <1>3, <1>4, <1>5, <1>6

\* A job as it begins.
LEMMA NewJob ==
  ASSUME NEW S, NEW Ch, NEW at \in Places, NEW ch \in Ch \cup {None}
  PROVE  /\ Store(S, Ch)!Job(at, ch) \in JobSet(Ch)
         /\ Store(S, Ch)!Job(at, ch).at = at
         /\ Store(S, Ch)!Job(at, ch).chain = ch
<1>1. Store(S, Ch)!Job(at, ch) = [at |-> at, chain |-> ch, acc |-> FALSE, was |-> None]
  BY DEF Store!Job
<1>2. [at |-> at, chain |-> ch, acc |-> FALSE, was |-> None] \in JobSet(Ch)
  BY DEF JobSet
<1> QED BY <1>1, <1>2

\* Nothing in flight.
LEMMA IdleIsOK ==
  ASSUME NEW S, NEW Ch
  PROVE  /\ JobOK(Store(S, Ch)!IdleJob, Ch)
         /\ Store(S, Ch)!IdleJob.at = "idle"
         /\ ~ Works(Store(S, Ch)!IdleJob)
<1>1. Store(S, Ch)!IdleJob = Store(S, Ch)!Job("idle", None)
  BY DEF Store!IdleJob
<1>2. Store(S, Ch)!IdleJob \in JobSet(Ch) /\ Store(S, Ch)!IdleJob.at = "idle"
  BY <1>1, NewJob DEF Places, OtherPlaces
<1> QED BY <1>2 DEF JobOK, Works, SwitchPlaces, ConnectPlaces

\* A call returns to the connect it is part of.
LEMMA ReturnKeeps ==
  ASSUME NEW S, NEW Ch, Apart(Ch), NEW j \in JobSet(Ch)
  PROVE  /\ JobOK(Store(S, Ch)!Return(j), Ch)
         /\ j.was # None => Works(Store(S, Ch)!Return(j))
<1>1. CASE j.was # None
  <2>1. Store(S, Ch)!Return(j) = [j EXCEPT !.at = "connect.store"]
    BY <1>1 DEF Store!Return
  <2>2. \A at \in Places : [j EXCEPT !.at = at] \in JobSet(Ch) /\ [j EXCEPT !.at = at].at = at
    BY EditJob DEF JobSet
  <2>3. Store(S, Ch)!Return(j) \in JobSet(Ch) /\ Store(S, Ch)!Return(j).at = "connect.store"
    BY <2>1, <2>2 DEF Places, ConnectPlaces
  <2> QED BY <2>3 DEF JobOK, Works, ConnectPlaces, SwitchPlaces
<1>2. CASE j.was = None
  BY <1>2, IdleIsOK DEF Store!Return
<1> QED BY <1>1, <1>2

\* emit('change') reaches the store, and the calls that wait for it.
LEMMA ChangeKeeps ==
  ASSUME NEW S, NEW Ch, Apart(Ch), StoreInv(S, Ch), NEW ch \in Ch, NEW jobs,
         \A s \in S : JobOK(jobs[s], Ch) /\ (Works(job[s]) => Works(jobs[s])),
         Store(S, Ch)!EmitChange(ch, jobs)
  PROVE  StoreInv(S, Ch)'
<1>1. link' \in Conns(Ch) \cup {None} /\ status' = status /\ (link' = None <=> link = None)
  BY EditConnection DEF Store!EmitChange, StoreInv
<1>2. job' = [s \in S |-> IF jobs[s].at = "switch.event" /\ jobs[s].chain = ch
                          THEN Store(S, Ch)!Return(jobs[s]) ELSE jobs[s]]
  BY DEF Store!EmitChange
<1>3. \A s \in S : job'[s] = IF jobs[s].at = "switch.event" /\ jobs[s].chain = ch
                            THEN Store(S, Ch)!Return(jobs[s]) ELSE jobs[s]
  BY <1>2
<1>4. ASSUME NEW s \in S
      PROVE  JobOK(job'[s], Ch) /\ (Works(job[s]) => Works(job'[s]))
  <2>1. jobs[s] \in JobSet(Ch)
    BY DEF JobOK
  <2>2. CASE jobs[s].at = "switch.event" /\ jobs[s].chain = ch
    <3>1. job'[s] = Store(S, Ch)!Return(jobs[s])
      BY <1>3, <2>2
    <3>2. Works(jobs[s]) => jobs[s].was # None
      BY <2>2 DEF Works, ConnectPlaces
    <3> QED BY <2>1, <3>1, <3>2, ReturnKeeps
  <2>3. CASE ~(jobs[s].at = "switch.event" /\ jobs[s].chain = ch)
    BY <1>3, <2>3
  <2> QED BY <2>2, <2>3
<1>5. Jobs(S, Ch)'
  BY <1>2, <1>3, <1>4 DEF Jobs
<1> QED BY <1>1, <1>4, <1>5 DEF StoreInv, Truthful, Settled

\* ... while one of the calls moves.
LEMMA ChangeMoves ==
  ASSUME NEW S, NEW Ch, Apart(Ch), NEW s \in S, StoreInv(S, Ch), NEW ch \in Ch, NEW j,
         JobOK(j, Ch), Works(job[s]) => Works(j),
         Store(S, Ch)!EmitChange(ch, [job EXCEPT ![s] = j])
  PROVE  StoreInv(S, Ch)'
<1> DEFINE jobs == [job EXCEPT ![s] = j]
<1>1. jobs[s] = j /\ \A t \in S : t # s => jobs[t] = job[t]
  BY DEF StoreInv, Jobs
<1>2. \A t \in S : JobOK(jobs[t], Ch) /\ (Works(job[t]) => Works(jobs[t]))
  BY <1>1 DEF StoreInv, Jobs
<1>3. Store(S, Ch)!EmitChange(ch, jobs)
  OBVIOUS
<1> HIDE DEF jobs
<1> QED BY <1>2, <1>3, ChangeKeeps

\* A page load: nothing is connected, and at most one job reconnects.
LEMMA OpenedKeeps ==
  ASSUME NEW S, NEW Ch, NEW s \in S, NEW j, JobOK(j, Ch),
         j # Store(S, Ch)!IdleJob => Works(j),
         Store(S, Ch)!Opened([t \in S |-> IF t = s THEN j ELSE Store(S, Ch)!IdleJob])
  PROVE  StoreInv(S, Ch)'
<1> DEFINE jobs == [t \in S |-> IF t = s THEN j ELSE Store(S, Ch)!IdleJob]
<1>1. /\ link' = None /\ job' = jobs
      /\ status' = IF \E t \in S : jobs[t] # Store(S, Ch)!IdleJob THEN "connecting"
                   ELSE "disconnected"
  BY DEF Store!Opened
<1>2. \A t \in S : jobs[t] = IF t = s THEN j ELSE Store(S, Ch)!IdleJob
  OBVIOUS
<1>3. JobOK(Store(S, Ch)!IdleJob, Ch)
  BY IdleIsOK
<1>4. Jobs(S, Ch)'
  BY <1>1, <1>2, <1>3 DEF Jobs
<1>5. CASE j = Store(S, Ch)!IdleJob
  BY <1>1, <1>2, <1>4, <1>5 DEF StoreInv, Truthful, Settled
<1>6. CASE j # Store(S, Ch)!IdleJob
  <2>1. status' = "connecting"
    BY <1>1, <1>2, <1>6
  <2>2. Works(job'[s])
    BY <1>1, <1>2, <1>6
  <2> QED BY <1>1, <1>4, <2>1, <2>2 DEF StoreInv, Truthful
<1> QED BY <1>5, <1>6

\* Nobody is connected when the page is made.
LEMMA StoreInit ==
  ASSUME NEW S, NEW Ch, Store(S, Ch)!ConnectorInit
  PROVE  StoreInv(S, Ch)
<1>1. /\ link = None /\ status = "disconnected"
      /\ job = [s \in S |-> Store(S, Ch)!IdleJob]
  BY DEF Store!ConnectorInit
<1>2. job = [s \in S |-> job[s]] /\ \A s \in S : JobOK(job[s], Ch)
  BY <1>1, IdleIsOK
<1> QED BY <1>1, <1>2 DEF StoreInv, Jobs, Truthful, Settled

\* With nothing in flight nobody works.
LEMMA CalmIsSettled ==
  ASSUME NEW S, NEW Ch, StoreInv(S, Ch)
  PROVE  Store(S, Ch)!StatusIsConnection
  BY DEF StoreInv, Truthful, Settled, Works, ConnectPlaces, SwitchPlaces,
         Store!StatusIsConnection, Store!Calm, Store!InFlight

\* A call begins that does not connect.
LEMMA StartKeeps ==
  ASSUME NEW S, NEW Ch, Apart(Ch), StoreInv(S, Ch), NEW s \in S, NEW at \in Places,
         NEW ch \in Ch \cup {None}, at \in SwitchPlaces => ch \in Ch,
         Store(S, Ch)!Start(s, at, ch), Told(Ch)
  PROVE  StoreInv(S, Ch)'
<1> DEFINE j == Store(S, Ch)!Job(at, ch)
<1>3. j \in JobSet(Ch) /\ j.at = at /\ j.chain = ch
  BY NewJob
<1>4. JobOK(j, Ch)
  BY <1>3 DEF JobOK
<1>5. job' = [job EXCEPT ![s] = j] /\ job[s].at = "idle"
  BY DEF Store!Start, Store!InFlight
<1>6. ~ Works(job[s])
  BY <1>5 DEF Works, ConnectPlaces, SwitchPlaces
<1> HIDE DEF j
<1> QED BY <1>4, <1>5, <1>6, MoveTells

\* A call of connect begins.
LEMMA ConnectStarts ==
  ASSUME NEW S, NEW Ch, Apart(Ch), StoreInv(S, Ch), NEW s \in S, NEW at \in Places,
         NEW ch \in Ch \cup {None}, at \in ConnectPlaces,
         Store(S, Ch)!Start(s, at, ch), link' = None, status' = "connecting"
  PROVE  StoreInv(S, Ch)'
<1> DEFINE j == Store(S, Ch)!Job(at, ch)
<1>3. j \in JobSet(Ch) /\ j.at = at /\ j.chain = ch
  BY NewJob
<1>4. JobOK(j, Ch)
  BY <1>3 DEF JobOK, ConnectPlaces, SwitchPlaces
<1>5. job' = [job EXCEPT ![s] = j] /\ Works(j)
  BY <1>3 DEF Store!Start, Works
<1> HIDE DEF j
<1> QED BY <1>4, <1>5, MoveBegins

\* A call comes to its next place.
LEMMA GoKeeps ==
  ASSUME NEW S, NEW Ch, Apart(Ch), StoreInv(S, Ch), NEW s \in S, NEW at \in Places,
         Store(S, Ch)!Go(s, at), Told(Ch),
         at \in ConnectPlaces \/ (at \in SwitchPlaces /\ job[s].at \in SwitchPlaces)
  PROVE  StoreInv(S, Ch)'
<1> DEFINE j == [job[s] EXCEPT !.at = at]
<1>1. job[s] \in JobSet(Ch) /\ JobOK(job[s], Ch)
  BY DEF StoreInv, Jobs, JobOK
<1>2. job' = [job EXCEPT ![s] = j]
  BY DEF Store!Go
<1>3. j \in JobSet(Ch) /\ j = [at |-> at, chain |-> job[s].chain, acc |-> job[s].acc,
                               was |-> job[s].was]
  BY <1>1, EditJob
<1>4. j.at = at /\ j.chain = job[s].chain /\ j.was = job[s].was
  BY <1>3
<1>5. JobOK(j, Ch) /\ (Works(job[s]) => Works(j))
  BY <1>1, <1>3, <1>4 DEF JobOK, Works, ConnectPlaces, SwitchPlaces
<1> HIDE DEF j
<1> QED BY <1>2, <1>5, MoveTells

\* A call ends, and settles the status if it had to.
LEMMA EndKeeps ==
  ASSUME NEW S, NEW Ch, Apart(Ch), StoreInv(S, Ch), NEW s \in S,
         Store(S, Ch)!End(s), Told(Ch), Works(job[s]) => Settled'
  PROVE  StoreInv(S, Ch)'
  BY IdleIsOK, MoveTells DEF Store!End

\* A switch returns.
LEMMA SwitchReturns ==
  ASSUME NEW S, NEW Ch, Apart(Ch), StoreInv(S, Ch), NEW s \in S,
         job[s].at \in SwitchPlaces, Told(Ch),
         Store(S, Ch)!Returns(s) \/ Store(S, Ch)!ReturnsUnswitched(s)
  PROVE  StoreInv(S, Ch)'
<1> DEFINE was == job[s].was
           Back(ch) == [job[s] EXCEPT !.chain = ch]
           j == Back(was)
<1>1. job[s] \in JobSet(Ch)
  BY DEF StoreInv, Jobs, JobOK
<1>2. j \in JobSet(Ch) /\ j.was = was
  <2>1. \A ch \in Ch \cup {None} : Back(ch) \in JobSet(Ch) /\ Back(ch).was = was
    BY <1>1, EditJob DEF JobSet
  <2>2. was \in Ch \cup {None}
    BY <1>1 DEF JobSet
  <2> HIDE DEF Back, was
  <2> QED BY <2>1, <2>2
<1>3. Works(job[s]) => was # None
  BY DEF Works, ConnectPlaces, SwitchPlaces
<1>4. \/ job' = [job EXCEPT ![s] = Store(S, Ch)!Return(job[s])]
      \/ job' = [job EXCEPT ![s] = Store(S, Ch)!Return(j)]
  BY Zenon DEF Store!Returns, Store!ReturnsUnswitched
<1> HIDE DEF j
<1>5. CASE job' = [job EXCEPT ![s] = Store(S, Ch)!Return(job[s])]
  BY <1>1, <1>3, <1>5, ReturnKeeps, MoveTells
<1>6. CASE job' = [job EXCEPT ![s] = Store(S, Ch)!Return(j)]
  BY <1>2, <1>3, <1>6, ReturnKeeps, MoveTells
<1> QED BY <1>4, <1>5, <1>6

\* A call that has to settle the status ends.
LEMMA EndSettles ==
  ASSUME NEW S, NEW Ch, Apart(Ch), StoreInv(S, Ch), NEW s \in S, Store(S, Ch)!End(s),
         \/ Settles(Ch)
         \/ link' = link /\ status' = Store(S, Ch)!Failed
         \/ \E ch \in Ch \cup {None}, acc \in BOOLEAN : Store(S, Ch)!Stored(ch, acc)
         \/ Store(S, Ch)!Removed
  PROVE  StoreInv(S, Ch)'
<1>1. Settles(Ch)
  BY HandlersTell
<1>2. Told(Ch) /\ Settled'
  BY <1>1 DEF Settles, Told
<1> QED BY <1>2, EndKeeps

\* A connect has the answer to one request, and waits for the next, which may be to
\* switch the chain.
LEMMA TakeKeeps ==
  ASSUME NEW S, NEW Ch, Apart(Ch), StoreInv(S, Ch), NEW s \in S, NEW at \in Places,
         NEW acc \in BOOLEAN, NEW was \in Ch \cup {None}, Store(S, Ch)!Take(s, at, acc, was),
         \/ at \in ConnectPlaces
         \/ at \in SwitchPlaces /\ was # None /\ job[s].chain \in Ch,
         Told(Ch)
  PROVE  StoreInv(S, Ch)'
<1> DEFINE j == [at |-> at, chain |-> job[s].chain, acc |-> acc, was |-> was]
<1>1. job[s].chain \in Ch \cup {None}
  BY DEF StoreInv, Jobs, JobOK, JobSet
<1>2. j \in JobSet(Ch) /\ j.at = at /\ j.chain = job[s].chain /\ j.was = was
  BY <1>1 DEF JobSet
<1>3. JobOK(j, Ch) /\ Works(j)
  BY <1>2 DEF JobOK, Works, ConnectPlaces, SwitchPlaces
<1>4. job' = [job EXCEPT ![s] = j]
  BY DEF Store!Take
<1> HIDE DEF j
<1> QED BY <1>3, <1>4, MoveTells

\* A switch of the wallet, heard of by its own call.
LEMMA ChangeGoes ==
  ASSUME NEW S, NEW Ch, Apart(Ch), StoreInv(S, Ch), NEW s \in S, NEW at \in SwitchPlaces,
         NEW ch \in Ch, job[s].at \in SwitchPlaces,
         Store(S, Ch)!EmitChange(ch, [job EXCEPT ![s].at = at])
  PROVE  StoreInv(S, Ch)'
<1> DEFINE j == [job[s] EXCEPT !.at = at]
<1>1. job[s] \in JobSet(Ch) /\ JobOK(job[s], Ch) /\ at \in Places
  BY DEF StoreInv, Jobs, JobOK, Places
<1>2. j \in JobSet(Ch) /\ j = [at |-> at, chain |-> job[s].chain, acc |-> job[s].acc,
                               was |-> job[s].was]
  BY <1>1, EditJob
<1>3. j.at = at /\ j.chain = job[s].chain /\ j.was = job[s].was
  BY <1>2
<1>4. JobOK(j, Ch) /\ (Works(job[s]) => Works(j))
  BY <1>1, <1>2, <1>3 DEF JobOK, Works, ConnectPlaces, SwitchPlaces
<1>5. Store(S, Ch)!EmitChange(ch, [job EXCEPT ![s] = j])
  OBVIOUS
<1> HIDE DEF j
<1> QED BY <1>4, <1>5, ChangeMoves

\* ... or that returns it.
LEMMA ChangeReturns ==
  ASSUME NEW S, NEW Ch, Apart(Ch), StoreInv(S, Ch), NEW s \in S, NEW ch \in Ch,
         job[s].at \in SwitchPlaces,
         Store(S, Ch)!EmitChange(ch, [job EXCEPT ![s] = Store(S, Ch)!Return(job[s])])
  PROVE  StoreInv(S, Ch)'
<1>1. job[s] \in JobSet(Ch)
  BY DEF StoreInv, Jobs, JobOK
<1>2. Works(job[s]) => job[s].was # None
  BY DEF Works, ConnectPlaces, SwitchPlaces
<1> QED BY <1>1, <1>2, ReturnKeeps, ChangeMoves

\* An event that reaches the calls that wait for it.
LEMMA ChangeComes ==
  ASSUME NEW S, NEW Ch, Apart(Ch), StoreInv(S, Ch), NEW ch \in Ch,
         Store(S, Ch)!EmitChange(ch, job)
  PROVE  StoreInv(S, Ch)'
  BY ChangeKeeps DEF StoreInv, Jobs

\* A reconnect is to switch the chain first.
LEMMA SwitchInside ==
  ASSUME NEW S, NEW Ch, Apart(Ch), StoreInv(S, Ch), NEW s \in S, NEW ch \in Ch,
         NEW was \in Ch, NEW acc \in BOOLEAN, Told(Ch),
         job' = [job EXCEPT ![s] = [at |-> "switch.wallet", chain |-> ch, acc |-> acc,
                                    was |-> was]]
  PROVE  StoreInv(S, Ch)'
<1> DEFINE j == [at |-> "switch.wallet", chain |-> ch, acc |-> acc, was |-> was]
<1>1. j \in JobSet(Ch) /\ j.at = "switch.wallet" /\ j.chain = ch /\ j.was = was
  BY DEF JobSet, Places, SwitchPlaces
<1>2. JobOK(j, Ch) /\ Works(j)
  BY <1>1 DEF JobOK, Works, SwitchPlaces, Apart
<1>3. job' = [job EXCEPT ![s] = j]
  OBVIOUS
<1> HIDE DEF j
<1> QED BY <1>2, <1>3, MoveTells

-----------------------------------------------------------------------------
(* The injected connector. *)

\* What a connector and its wallet keep.
WalletInv(S, Ch) == StoreInv(S, Ch) /\ chain \in Ch /\ granted \in BOOLEAN

\* The settings, named.
OfBrowser(b, S, Ch) == S = Browsers[b].slots /\ Ch = Browsers[b].chains /\ Apart(Ch)

\* What it has of Connector is the same for every connector.
LEMMA BrowserStore ==
  ASSUME NEW b, NEW S, NEW Ch, OfBrowser(b, S, Ch)
  PROVE  /\ \A ch, jobs : Browser(b)!EmitChange(ch, jobs) <=> Store(S, Ch)!EmitChange(ch, jobs)
         /\ \A ch, acc : Browser(b)!EmitConnect(ch, acc) <=> Store(S, Ch)!EmitConnect(ch, acc)
         /\ \A ch, acc : Browser(b)!Stored(ch, acc) <=> Store(S, Ch)!Stored(ch, acc)
         /\ Browser(b)!EmitDisconnect <=> Store(S, Ch)!EmitDisconnect
         /\ Browser(b)!Removed <=> Store(S, Ch)!Removed
         /\ Browser(b)!Failed = Store(S, Ch)!Failed
         /\ \A j : Browser(b)!Return(j) = Store(S, Ch)!Return(j)
         /\ \A s : Browser(b)!Returns(s) <=> Store(S, Ch)!Returns(s)
         /\ \A s : Browser(b)!ReturnsUnswitched(s) <=> Store(S, Ch)!ReturnsUnswitched(s)
         /\ \A jobs : Browser(b)!Opened(jobs) <=> Store(S, Ch)!Opened(jobs)
         /\ Browser(b)!IdleJob = Store(S, Ch)!IdleJob
         /\ \A at, ch : Browser(b)!Job(at, ch) = Store(S, Ch)!Job(at, ch)
         /\ \A s, at, ch : Browser(b)!Start(s, at, ch) <=> Store(S, Ch)!Start(s, at, ch)
         /\ \A s, at : Browser(b)!Go(s, at) <=> Store(S, Ch)!Go(s, at)
         /\ \A s, at, acc, was :
              Browser(b)!Take(s, at, acc, was) <=> Store(S, Ch)!Take(s, at, acc, was)
         /\ \A s : Browser(b)!End(s) <=> Store(S, Ch)!End(s)
         /\ Browser(b)!ConnectorInit <=> Store(S, Ch)!ConnectorInit
         /\ Browser(b)!StatusIsConnection <=> Store(S, Ch)!StatusIsConnection
<1>1. \A at, ch : Browser(b)!Job(at, ch) = Store(S, Ch)!Job(at, ch)
  BY DEF Browser!Job, Store!Job
<1>2. Browser(b)!IdleJob = Store(S, Ch)!IdleJob
  BY <1>1 DEF Browser!IdleJob, Store!IdleJob
<1>3. \A j : Browser(b)!Return(j) = Store(S, Ch)!Return(j)
  BY <1>2 DEF Browser!Return, Store!Return
<1>17. \A s : Browser(b)!Returns(s) <=> Store(S, Ch)!Returns(s)
  BY <1>3 DEF Browser!Returns, Store!Returns
<1>18. \A s : Browser(b)!ReturnsUnswitched(s) <=> Store(S, Ch)!ReturnsUnswitched(s)
  BY <1>3, Zenon DEF Browser!ReturnsUnswitched, Store!ReturnsUnswitched
<1>4. \A ch, jobs : Browser(b)!EmitChange(ch, jobs) <=> Store(S, Ch)!EmitChange(ch, jobs)
  BY <1>3 DEF Browser!EmitChange, Store!EmitChange, OfBrowser
<1>5. \A ch, acc : Browser(b)!EmitConnect(ch, acc) <=> Store(S, Ch)!EmitConnect(ch, acc)
  BY DEF Browser!EmitConnect, Store!EmitConnect, Browser!Adopt, Store!Adopt, Browser!store,
         Store!store
<1>6. \A ch, acc : Browser(b)!Stored(ch, acc) <=> Store(S, Ch)!Stored(ch, acc)
  BY DEF Browser!Stored, Store!Stored
<1>7. Browser(b)!EmitDisconnect <=> Store(S, Ch)!EmitDisconnect
  BY DEF Browser!EmitDisconnect, Store!EmitDisconnect, Browser!store, Store!store
<1>8. Browser(b)!Removed <=> Store(S, Ch)!Removed
  BY DEF Browser!Removed, Store!Removed
<1>9. Browser(b)!Failed = Store(S, Ch)!Failed
  BY DEF Browser!Failed, Store!Failed
<1>10. \A jobs : Browser(b)!Opened(jobs) <=> Store(S, Ch)!Opened(jobs)
  BY <1>2 DEF Browser!Opened, Store!Opened, OfBrowser
<1>11. \A s, at, ch : Browser(b)!Start(s, at, ch) <=> Store(S, Ch)!Start(s, at, ch)
  BY <1>1 DEF Browser!Start, Store!Start, Browser!Turn, Store!Turn, Browser!InFlight,
              Store!InFlight, OfBrowser
<1>12. \A s, at : Browser(b)!Go(s, at) <=> Store(S, Ch)!Go(s, at)
  BY DEF Browser!Go, Store!Go
<1>13. \A s : Browser(b)!End(s) <=> Store(S, Ch)!End(s)
  BY <1>2 DEF Browser!End, Store!End
<1>14. Browser(b)!ConnectorInit <=> Store(S, Ch)!ConnectorInit
  BY <1>2 DEF Browser!ConnectorInit, Store!ConnectorInit, OfBrowser
<1>15. \A s, at, acc, was :
         Browser(b)!Take(s, at, acc, was) <=> Store(S, Ch)!Take(s, at, acc, was)
  BY DEF Browser!Take, Store!Take
<1>16. Browser(b)!StatusIsConnection <=> Store(S, Ch)!StatusIsConnection
  BY DEF Browser!StatusIsConnection, Store!StatusIsConnection, Browser!Calm, Store!Calm,
         Browser!InFlight, Store!InFlight, OfBrowser
<1> QED BY <1>1, <1>2, <1>3, <1>4, <1>5, <1>6, <1>7, <1>8, <1>9, <1>10, <1>11, <1>12, <1>13,
           <1>14, <1>15, <1>16, <1>17, <1>18

\* ... and the invariant.
InBrowser(b, S, Ch) == OfBrowser(b, S, Ch) /\ WalletInv(S, Ch)

\* connect() begins, with nobody connected.
LEMMA BrowserConnect ==
  ASSUME NEW b, NEW S, NEW Ch, InBrowser(b, S, Ch), NEW s \in S, NEW ch \in Ch \cup {None},
         Browser(b)!Connect(s, ch)
  PROVE  WalletInv(S, Ch)'
<1>1. /\ Browser(b)!Start(s, "connect.prompt", ch) /\ link' = None /\ status' = "connecting"
      /\ chain' = chain /\ granted' = granted
  BY DEF Browser!Connect, Browser!wallet
<1>2. StoreInv(S, Ch)'
  BY <1>1, BrowserStore, ConnectStarts
  DEF InBrowser, OfBrowser, WalletInv, ConnectPlaces, Places
<1> QED BY <1>1, <1>2 DEF InBrowser, WalletInv

\* The user rejects: the status is settled.
LEMMA BrowserConnectReject ==
  ASSUME NEW b, NEW S, NEW Ch, InBrowser(b, S, Ch), NEW s \in S, Browser(b)!ConnectReject(s)
  PROVE  WalletInv(S, Ch)'
<1>1. /\ Browser(b)!End(s) /\ link' = link /\ status' = Browser(b)!Failed
      /\ chain' = chain /\ granted' = granted
  BY DEF Browser!ConnectReject, Browser!Fail, Browser!wallet
<1>2. StoreInv(S, Ch)'
  BY <1>1, BrowserStore, EndSettles DEF InBrowser, OfBrowser, WalletInv
<1> QED BY <1>1, <1>2 DEF InBrowser, WalletInv

\* The accounts are shared.
LEMMA BrowserConnectAccept ==
  ASSUME NEW b, NEW S, NEW Ch, InBrowser(b, S, Ch), NEW s \in S, Browser(b)!ConnectAccept(s)
  PROVE  WalletInv(S, Ch)'
<1>1. PICK acc \in BOOLEAN :
        /\ Browser(b)!Take(s, "connect.chain", acc, job[s].was)
        /\ link' = link /\ status' = status /\ chain' = chain /\ granted' = acc
  BY DEF Browser!ConnectAccept, Browser!store
<1>2. job[s].was \in Ch \cup {None}
  BY DEF InBrowser, WalletInv, StoreInv, Jobs, JobOK, JobSet
<1>3. StoreInv(S, Ch)'
  BY <1>1, <1>2, BrowserStore, TakeKeeps
  DEF InBrowser, OfBrowser, WalletInv, ConnectPlaces, Places, Told, StoreInv
<1> QED BY <1>1, <1>3 DEF InBrowser, WalletInv

\* The connection is stored, and the status settled.
LEMMA BrowserConnected ==
  ASSUME NEW b, NEW S, NEW Ch, InBrowser(b, S, Ch), NEW s \in S, NEW ch \in Ch \cup {None},
         Browser(b)!Connected(s, ch)
  PROVE  WalletInv(S, Ch)'
<1>1. /\ Browser(b)!End(s) /\ Browser(b)!Stored(ch, job[s].acc)
      /\ chain' = chain /\ granted' = granted
  BY DEF Browser!Connected, Browser!wallet
<1>2. job[s].acc \in BOOLEAN
  BY DEF InBrowser, WalletInv, StoreInv, Jobs, JobOK, JobSet
<1>3. StoreInv(S, Ch)'
  BY <1>1, <1>2, BrowserStore, EndSettles DEF InBrowser, OfBrowser, WalletInv
<1> QED BY <1>1, <1>3 DEF InBrowser, WalletInv

\* The chain came: a connection, or a switch that is part of connect.
LEMMA BrowserConnectChain ==
  ASSUME NEW b, NEW S, NEW Ch, InBrowser(b, S, Ch), NEW s \in S, Browser(b)!ConnectChain(s)
  PROVE  WalletInv(S, Ch)'
<1>1. CASE job[s].chain \in {None, chain}
  BY <1>1, BrowserConnected DEF Browser!ConnectChain, InBrowser, WalletInv
<1>2. CASE job[s].chain \notin {None, chain}
  <2>1. /\ Browser(b)!Take(s, "switch.wallet", job[s].acc, chain)
        /\ link' = link /\ status' = status /\ chain' = chain /\ granted' = granted
    BY <1>2 DEF Browser!ConnectChain, Browser!wallet, Browser!store
  <2>2. job[s].chain \in Ch /\ job[s].acc \in BOOLEAN
    BY <1>2 DEF InBrowser, WalletInv, StoreInv, Jobs, JobOK, JobSet
  <2>3. StoreInv(S, Ch)'
    BY <2>1, <2>2, BrowserStore, TakeKeeps
    DEF InBrowser, OfBrowser, WalletInv, Told, StoreInv, Places, SwitchPlaces, Apart
  <2> QED BY <2>1, <2>3 DEF InBrowser, WalletInv
<1> QED BY <1>1, <1>2

\* The switch inside connect returned.
LEMMA BrowserConnectStore ==
  ASSUME NEW b, NEW S, NEW Ch, InBrowser(b, S, Ch), NEW s \in S, Browser(b)!ConnectStore(s)
  PROVE  WalletInv(S, Ch)'
<1>1. job[s].chain \in Ch \cup {None}
  BY DEF InBrowser, WalletInv, StoreInv, Jobs, JobOK, JobSet
<1> QED BY <1>1, BrowserConnected DEF Browser!ConnectStore

\* A page load: nobody is connected, a reconnect may be in flight.
LEMMA BrowserLoad ==
  ASSUME NEW b, NEW S, NEW Ch, InBrowser(b, S, Ch), Browser(b)!Load
  PROVE  WalletInv(S, Ch)'
<1>1. PICK s \in S :
        Browser(b)!Opened([x \in S |-> IF x = s /\ Browser(b)!MayReconnect
                                       THEN Browser(b)!Job("reconnect.accounts", None)
                                       ELSE Browser(b)!IdleJob])
  BY DEF Browser!Load, InBrowser, OfBrowser
<1>2. chain' = chain /\ granted' = granted
  BY DEF Browser!Load, Browser!wallet
<1> DEFINE j == IF Browser(b)!MayReconnect THEN Store(S, Ch)!Job("reconnect.accounts", None)
                ELSE Store(S, Ch)!IdleJob
<1>3. Store(S, Ch)!Opened([x \in S |-> IF x = s THEN j ELSE Store(S, Ch)!IdleJob])
  <2>1. [x \in S |-> IF x = s /\ Browser(b)!MayReconnect
                     THEN Browser(b)!Job("reconnect.accounts", None) ELSE Browser(b)!IdleJob]
          = [x \in S |-> IF x = s THEN j ELSE Store(S, Ch)!IdleJob]
    BY BrowserStore DEF InBrowser
  <2> QED BY <1>1, <2>1, BrowserStore DEF InBrowser
<1>4. /\ Store(S, Ch)!Job("reconnect.accounts", None) \in JobSet(Ch)
      /\ Store(S, Ch)!Job("reconnect.accounts", None).at = "reconnect.accounts"
  BY NewJob DEF Places, ConnectPlaces
<1>5. JobOK(j, Ch) /\ (j # Store(S, Ch)!IdleJob => Works(j))
  BY <1>4, IdleIsOK DEF JobOK, Works, ConnectPlaces, SwitchPlaces
<1> HIDE DEF j
<1>6. StoreInv(S, Ch)'
  BY <1>3, <1>5, OpenedKeeps
<1> QED BY <1>2, <1>6 DEF InBrowser, WalletInv

\* isAuthorized: a reconnect that ends leaves no "connecting" behind.
LEMMA BrowserAuthorized ==
  ASSUME NEW b, NEW S, NEW Ch, InBrowser(b, S, Ch), NEW s \in S, Browser(b)!Authorized(s)
  PROVE  WalletInv(S, Ch)'
<1>1. chain' = chain /\ granted' = granted
  BY DEF Browser!Authorized, Browser!wallet
<1>2. CASE granted
  <2>1. Browser(b)!Go(s, "reconnect.connect") /\ link' = link /\ status' = status
    BY <1>2 DEF Browser!Authorized
  <2>2. StoreInv(S, Ch)'
    BY <2>1, BrowserStore, GoKeeps
    DEF InBrowser, OfBrowser, WalletInv, Told, StoreInv, Places, ConnectPlaces
  <2> QED BY <1>1, <2>2 DEF InBrowser, WalletInv
<1>3. CASE ~granted
  <2>1. /\ Browser(b)!End(s)
        /\ IF status = "connecting" THEN link' = None /\ status' = "disconnected"
           ELSE link' = link /\ status' = status
    BY <1>3 DEF Browser!Authorized
  <2>2. Settles(Ch)
    BY <2>1 DEF InBrowser, WalletInv, StoreInv, Truthful, Settles, Settled
  <2>3. StoreInv(S, Ch)'
    BY <2>1, <2>2, BrowserStore, EndSettles DEF InBrowser, OfBrowser, WalletInv
  <2> QED BY <1>1, <2>3 DEF InBrowser, WalletInv
<1> QED BY <1>2, <1>3

\* A reconnect has the accounts.
LEMMA BrowserReconnected ==
  ASSUME NEW b, NEW S, NEW Ch, InBrowser(b, S, Ch), NEW s \in S, Browser(b)!Reconnected(s)
  PROVE  WalletInv(S, Ch)'
<1>1. /\ Browser(b)!Take(s, "connect.chain", granted, job[s].was)
      /\ link' = link /\ status' = status /\ chain' = chain /\ granted' = granted
  BY DEF Browser!Reconnected, Browser!store, Browser!wallet
<1>2. job[s].was \in Ch \cup {None}
  BY DEF InBrowser, WalletInv, StoreInv, Jobs, JobOK, JobSet
<1>3. StoreInv(S, Ch)'
  BY <1>1, <1>2, BrowserStore, TakeKeeps
  DEF InBrowser, OfBrowser, WalletInv, ConnectPlaces, Places, Told, StoreInv
<1> QED BY <1>1, <1>3 DEF InBrowser, WalletInv

\* disconnect() begins.
LEMMA BrowserDisconnect ==
  ASSUME NEW b, NEW S, NEW Ch, InBrowser(b, S, Ch), NEW s \in S, Browser(b)!Disconnect(s)
  PROVE  WalletInv(S, Ch)'
<1>1. /\ Browser(b)!Start(s, "disconnect.revoke", None)
      /\ link' = link /\ status' = status /\ chain' = chain /\ granted' = granted
  BY DEF Browser!Disconnect, Browser!store, Browser!wallet
<1>2. StoreInv(S, Ch)'
  BY <1>1, BrowserStore, StartKeeps
  DEF InBrowser, OfBrowser, WalletInv, Told, StoreInv, Places, SwitchPlaces, OtherPlaces
<1> QED BY <1>1, <1>2 DEF InBrowser, WalletInv

\* disconnect() removes the connection.
LEMMA BrowserDisconnectDone ==
  ASSUME NEW b, NEW S, NEW Ch, InBrowser(b, S, Ch), NEW s \in S, Browser(b)!DisconnectDone(s)
  PROVE  WalletInv(S, Ch)'
<1>1. Browser(b)!End(s) /\ Browser(b)!Removed /\ chain' = chain /\ granted' \in {granted, FALSE}
  BY DEF Browser!DisconnectDone
<1>2. StoreInv(S, Ch)'
  BY <1>1, BrowserStore, EndSettles DEF InBrowser, OfBrowser, WalletInv
<1> QED BY <1>1, <1>2 DEF InBrowser, WalletInv

\* switchChain() begins.
LEMMA BrowserSwitchChain ==
  ASSUME NEW b, NEW S, NEW Ch, InBrowser(b, S, Ch), NEW s \in S, NEW ch \in Ch,
         Browser(b)!SwitchChain(s, ch)
  PROVE  WalletInv(S, Ch)'
<1>1. /\ Browser(b)!Start(s, "switch.wallet", ch)
      /\ link' = link /\ status' = status /\ chain' = chain /\ granted' = granted
  BY DEF Browser!SwitchChain, Browser!store, Browser!wallet
<1>2. StoreInv(S, Ch)'
  BY <1>1, BrowserStore, StartKeeps
  DEF InBrowser, OfBrowser, WalletInv, Told, StoreInv, Places, SwitchPlaces, OtherPlaces
<1> QED BY <1>1, <1>2 DEF InBrowser, WalletInv

\* A rejected switch: a connect it is part of fails with it.
LEMMA BrowserSwitchReject ==
  ASSUME NEW b, NEW S, NEW Ch, InBrowser(b, S, Ch), NEW s \in S, Browser(b)!SwitchReject(s)
  PROVE  WalletInv(S, Ch)'
<1>1. /\ Browser(b)!End(s) /\ chain' = chain /\ granted' = granted /\ link' = link
      /\ status' = Browser(b)!Failed \/ (status' = status /\ job[s].was = None)
      /\ job[s].at = "switch.wallet"
  BY DEF Browser!SwitchReject, Browser!Fail, Browser!wallet, Browser!store, Browser!At
<1>2. CASE status' = Browser(b)!Failed
  BY <1>1, <1>2, BrowserStore, EndSettles DEF InBrowser, OfBrowser, WalletInv
<1>3. CASE status' = status /\ job[s].was = None
  <2>1. ~ Works(job[s]) /\ Told(Ch)
    BY <1>1, <1>3 DEF Works, ConnectPlaces, Told, InBrowser, WalletInv, StoreInv
  <2> QED BY <1>1, <2>1, BrowserStore, EndKeeps DEF InBrowser, OfBrowser, WalletInv
<1> QED BY <1>1, <1>2, <1>3

\* A switch that failed returns.
LEMMA BrowserSwitchFail ==
  ASSUME NEW b, NEW S, NEW Ch, InBrowser(b, S, Ch), NEW s \in S, Browser(b)!SwitchFail(s)
  PROVE  WalletInv(S, Ch)'
<1>1. /\ Browser(b)!ReturnsUnswitched(s)
      /\ link' = link /\ status' = status /\ chain' = chain /\ granted' = granted
      /\ job[s].at = "switch.wallet"
  BY DEF Browser!SwitchFail, Browser!store, Browser!wallet, Browser!At
<1>2. StoreInv(S, Ch)'
  BY <1>1, BrowserStore, SwitchReturns
  DEF InBrowser, OfBrowser, WalletInv, Told, StoreInv, SwitchPlaces
<1> QED BY <1>1, <1>2 DEF InBrowser, WalletInv

\* The wallet switches, and says so.
LEMMA BrowserSwitchLoud ==
  ASSUME NEW b, NEW S, NEW Ch, InBrowser(b, S, Ch), NEW s \in S, Browser(b)!SwitchLoud(s)
  PROVE  WalletInv(S, Ch)'
<1>1. /\ Browser(b)!EmitChange(job[s].chain, [job EXCEPT ![s].at = "switch.confirm"])
      /\ chain' = job[s].chain /\ granted' = granted /\ job[s].at = "switch.wallet"
  BY DEF Browser!SwitchLoud, Browser!At
<1>2. job[s].chain \in Ch
  BY <1>1 DEF InBrowser, WalletInv, StoreInv, Jobs, JobOK, SwitchPlaces
<1>3. StoreInv(S, Ch)'
  BY <1>1, <1>2, BrowserStore, ChangeGoes, ZenonT(60)
  DEF InBrowser, OfBrowser, WalletInv, SwitchPlaces
<1> QED BY <1>1, <1>2, <1>3 DEF InBrowser, WalletInv

\* The wallet switches without a word.
LEMMA BrowserSwitchSilent ==
  ASSUME NEW b, NEW S, NEW Ch, InBrowser(b, S, Ch), NEW s \in S, Browser(b)!SwitchSilent(s)
  PROVE  WalletInv(S, Ch)'
<1>1. /\ Browser(b)!Go(s, "switch.confirm") /\ link' = link /\ status' = status
      /\ chain' = job[s].chain /\ granted' = granted /\ job[s].at = "switch.wallet"
  BY DEF Browser!SwitchSilent, Browser!At, Browser!store
<1>2. job[s].chain \in Ch
  BY <1>1 DEF InBrowser, WalletInv, StoreInv, Jobs, JobOK, SwitchPlaces
<1>3. StoreInv(S, Ch)'
  BY <1>1, BrowserStore, GoKeeps
  DEF InBrowser, OfBrowser, WalletInv, SwitchPlaces, Told, StoreInv, Places
<1> QED BY <1>1, <1>2, <1>3 DEF InBrowser, WalletInv

\* The connector announces the chain itself.
LEMMA BrowserSwitchConfirm ==
  ASSUME NEW b, NEW S, NEW Ch, InBrowser(b, S, Ch), NEW s \in S, Browser(b)!SwitchConfirm(s)
  PROVE  WalletInv(S, Ch)'
<1>1. chain' = chain /\ granted' = granted /\ job[s].at = "switch.confirm"
  BY DEF Browser!SwitchConfirm, Browser!At, Browser!wallet
<1>2. CASE chain = job[s].chain
  <2>1. Browser(b)!EmitChange(chain, [job EXCEPT ![s].at = "switch.event"])
    BY <1>2 DEF Browser!SwitchConfirm
  <2>2. StoreInv(S, Ch)'
    BY <1>1, <2>1, BrowserStore, ChangeGoes DEF InBrowser, OfBrowser, WalletInv, SwitchPlaces
  <2> QED BY <1>1, <2>2 DEF InBrowser, WalletInv
<1>3. CASE chain # job[s].chain
  <2>1. Browser(b)!Go(s, "switch.event") \/ Browser(b)!Returns(s)
    BY <1>3 DEF Browser!SwitchConfirm, Browser!AwaitEvent, Browser!Go, Browser!Returns
  <2>2. link' = link /\ status' = status
    BY <1>3 DEF Browser!SwitchConfirm, Browser!AwaitEvent, Browser!store
  <2>3. StoreInv(S, Ch)'
    BY <1>1, <2>1, <2>2, BrowserStore, GoKeeps, SwitchReturns
    DEF InBrowser, OfBrowser, WalletInv, SwitchPlaces, Told, StoreInv, Places
  <2> QED BY <1>1, <2>3 DEF InBrowser, WalletInv
<1> QED BY <1>2, <1>3

\* chainChanged.
LEMMA BrowserWalletChain ==
  ASSUME NEW b, NEW S, NEW Ch, InBrowser(b, S, Ch), NEW ch \in Ch, Browser(b)!WalletChain(ch)
  PROVE  WalletInv(S, Ch)'
<1>1. /\ chain' = ch /\ granted' = granted
      /\ Browser(b)!EmitChange(ch, job) \/ (job' = job /\ link' = link /\ status' = status)
  BY DEF Browser!WalletChain, Browser!store
<1>2. StoreInv(S, Ch)'
  BY <1>1, BrowserStore, ChangeComes, NothingMoves
  DEF InBrowser, OfBrowser, WalletInv, Told, StoreInv
<1> QED BY <1>1, <1>2 DEF InBrowser, WalletInv

\* accountsChanged without accounts.
LEMMA BrowserWalletLock ==
  ASSUME NEW b, NEW S, NEW Ch, InBrowser(b, S, Ch), Browser(b)!WalletLock
  PROVE  WalletInv(S, Ch)'
<1>1. /\ chain' = chain /\ granted' \in BOOLEAN /\ job' = job
      /\ Browser(b)!EmitDisconnect \/ (link' = link /\ status' = status)
  BY DEF Browser!WalletLock, Browser!OnDisconnect, Browser!store
<1>2. Told(Ch)
  BY <1>1, BrowserStore, HandlersTell DEF InBrowser, OfBrowser, WalletInv, Told, StoreInv
<1>3. StoreInv(S, Ch)'
  BY <1>1, <1>2, NothingMoves DEF InBrowser, WalletInv
<1> QED BY <1>1, <1>3 DEF InBrowser, WalletInv

\* accountsChanged.
LEMMA BrowserWalletAccounts ==
  ASSUME NEW b, NEW S, NEW Ch, InBrowser(b, S, Ch), NEW s \in S, Browser(b)!WalletAccounts(s)
  PROVE  WalletInv(S, Ch)'
<1>1. /\ chain' = chain /\ granted' \in BOOLEAN /\ status' = status
      /\ \/ Browser(b)!Start(s, "accounts.chain", None) /\ link' = link
         \/ /\ job' = job
            /\ \/ link' = link
               \/ link # None /\ \E acc \in BOOLEAN : link' = [link EXCEPT !.acc = acc]
  BY DEF Browser!WalletAccounts
<1>2. Told(Ch)
  BY <1>1, AccountsTell DEF InBrowser, OfBrowser, WalletInv, Told, StoreInv, Browser!Start
<1>3. StoreInv(S, Ch)'
  BY <1>1, <1>2, BrowserStore, StartKeeps, NothingMoves, SMTT(30)
  DEF InBrowser, OfBrowser, WalletInv, Places, OtherPlaces, SwitchPlaces
<1> QED BY <1>1, <1>3 DEF InBrowser, WalletInv

\* onConnect is called with the chain.
LEMMA BrowserAccountsChain ==
  ASSUME NEW b, NEW S, NEW Ch, InBrowser(b, S, Ch), NEW s \in S, Browser(b)!AccountsChain(s)
  PROVE  WalletInv(S, Ch)'
<1>1. /\ job' = [job EXCEPT ![s] = Browser(b)!Job("onConnect", chain)]
      /\ link' = link /\ status' = status /\ chain' = chain /\ granted' = granted
      /\ job[s].at = "accounts.chain"
  BY DEF Browser!AccountsChain, Browser!store, Browser!wallet, Browser!At
<1>2. JobOK(Store(S, Ch)!Job("onConnect", chain), Ch) /\ ~ Works(job[s])
  BY <1>1, NewJob DEF InBrowser, WalletInv, JobOK, Works, Places, OtherPlaces, ConnectPlaces,
                      SwitchPlaces
<1>3. job' = [job EXCEPT ![s] = Store(S, Ch)!Job("onConnect", chain)]
  BY <1>1 DEF Browser!Job, Store!Job
<1>4. Told(Ch) /\ StoreInv(S, Ch)
  BY <1>1 DEF InBrowser, WalletInv, Told, StoreInv
<1>5. StoreInv(S, Ch)'
  BY <1>2, <1>3, <1>4, MoveTells
<1> QED BY <1>1, <1>5 DEF InBrowser, WalletInv

\* onConnect has the accounts.
LEMMA BrowserOnConnect ==
  ASSUME NEW b, NEW S, NEW Ch, InBrowser(b, S, Ch), NEW s \in S, Browser(b)!OnConnect(s)
  PROVE  WalletInv(S, Ch)'
<1>1. /\ Browser(b)!End(s) /\ chain' = chain /\ granted' = granted /\ job[s].at = "onConnect"
      /\ Browser(b)!EmitConnect(job[s].chain, granted) \/ (link' = link /\ status' = status)
  BY DEF Browser!OnConnect, Browser!At, Browser!wallet, Browser!store
<1>2. job[s].chain \in Ch \cup {None} /\ granted \in BOOLEAN
  BY DEF InBrowser, WalletInv, StoreInv, Jobs, JobOK, JobSet
<1>3. Told(Ch)
  BY <1>1, <1>2, BrowserStore, HandlersTell DEF InBrowser, OfBrowser, WalletInv, Told, StoreInv
<1>4. ~ Works(job[s])
  BY <1>1 DEF Works, ConnectPlaces, SwitchPlaces
<1>5. StoreInv(S, Ch)'
  BY <1>1, <1>3, <1>4, BrowserStore, EndKeeps DEF InBrowser, OfBrowser, WalletInv
<1> QED BY <1>1, <1>5 DEF InBrowser, WalletInv

\* The provider reached its chain.
LEMMA BrowserProviderConnect ==
  ASSUME NEW b, NEW S, NEW Ch, InBrowser(b, S, Ch), NEW s \in S, Browser(b)!ProviderConnect(s)
  PROVE  WalletInv(S, Ch)'
<1>1. /\ Browser(b)!Start(s, "onConnect", chain)
      /\ link' = link /\ status' = status /\ chain' = chain /\ granted' = granted
  BY DEF Browser!ProviderConnect, Browser!store, Browser!wallet
<1>2. StoreInv(S, Ch)'
  BY <1>1, BrowserStore, StartKeeps
  DEF InBrowser, OfBrowser, WalletInv, Told, StoreInv, Places, SwitchPlaces, OtherPlaces
<1> QED BY <1>1, <1>2 DEF InBrowser, WalletInv

\* The provider lost its chains.
LEMMA BrowserProviderDisconnect ==
  ASSUME NEW b, NEW S, NEW Ch, InBrowser(b, S, Ch), Browser(b)!ProviderDisconnect
  PROVE  WalletInv(S, Ch)'
<1>1. /\ chain' = chain /\ granted' = granted /\ job' = job /\ Browser(b)!EmitDisconnect
  BY DEF Browser!ProviderDisconnect, Browser!OnDisconnect, Browser!wallet
<1>2. StoreInv(S, Ch)'
  BY <1>1, BrowserStore, HandlersTell, NothingMoves DEF InBrowser, OfBrowser, WalletInv
<1> QED BY <1>1, <1>2 DEF InBrowser, WalletInv

\* ... or is about to reconnect to them.
LEMMA BrowserProviderDisconnect1013 ==
  ASSUME NEW b, NEW S, NEW Ch, InBrowser(b, S, Ch), NEW s \in S,
         Browser(b)!ProviderDisconnect1013(s)
  PROVE  WalletInv(S, Ch)'
<1>1. /\ Browser(b)!Start(s, "onDisconnect", None)
      /\ link' = link /\ status' = status /\ chain' = chain /\ granted' = granted
  BY DEF Browser!ProviderDisconnect1013, Browser!store, Browser!wallet
<1>2. StoreInv(S, Ch)'
  BY <1>1, BrowserStore, StartKeeps, SMTT(30)
  DEF InBrowser, OfBrowser, WalletInv, Told, StoreInv, Places, SwitchPlaces, OtherPlaces
<1> QED BY <1>1, <1>2 DEF InBrowser, WalletInv

\* The accounts tell whether it did.
LEMMA BrowserOnDisconnect1013 ==
  ASSUME NEW b, NEW S, NEW Ch, InBrowser(b, S, Ch), NEW s \in S, Browser(b)!OnDisconnect1013(s)
  PROVE  WalletInv(S, Ch)'
<1>1. /\ Browser(b)!End(s) /\ chain' = chain /\ granted' = granted /\ job[s].at = "onDisconnect"
      /\ Browser(b)!EmitDisconnect \/ (link' = link /\ status' = status)
  BY DEF Browser!OnDisconnect1013, Browser!OnDisconnect, Browser!At, Browser!wallet,
         Browser!store
<1>2. Told(Ch) /\ ~ Works(job[s])
  BY <1>1, BrowserStore, HandlersTell
  DEF InBrowser, OfBrowser, WalletInv, Told, StoreInv, Works, ConnectPlaces, SwitchPlaces
<1>3. StoreInv(S, Ch)'
  BY <1>1, <1>2, BrowserStore, EndKeeps DEF InBrowser, OfBrowser, WalletInv
<1> QED BY <1>1, <1>3 DEF InBrowser, WalletInv

\* Every step.
LEMMA BrowserNext ==
  ASSUME NEW b, NEW S, NEW Ch, InBrowser(b, S, Ch), Browser(b)!Next
  PROVE  WalletInv(S, Ch)'
<1>1. ASSUME NEW s \in S, Browser(b)!Answer(s)
      PROVE  WalletInv(S, Ch)'
  BY <1>1, BrowserConnectReject, BrowserConnectAccept, BrowserConnectChain, BrowserAuthorized,
     BrowserReconnected, BrowserDisconnectDone, BrowserSwitchReject, BrowserSwitchFail,
     BrowserSwitchLoud, BrowserSwitchSilent, BrowserSwitchConfirm, BrowserAccountsChain,
     BrowserOnConnect, BrowserOnDisconnect1013
  DEF Browser!Answer
<1>2. ASSUME NEW s \in S, Browser(b)!Call(s)
      PROVE  WalletInv(S, Ch)'
  BY <1>2, BrowserConnect, BrowserDisconnect, BrowserSwitchChain
  DEF Browser!Call, InBrowser, OfBrowser
<1>3. ASSUME Browser(b)!Wallet
      PROVE  WalletInv(S, Ch)'
  BY <1>3, BrowserWalletChain, BrowserWalletLock, BrowserWalletAccounts, BrowserProviderConnect,
     BrowserProviderDisconnect, BrowserProviderDisconnect1013
  DEF Browser!Wallet, InBrowser, OfBrowser
<1> QED BY <1>1, <1>2, <1>3, BrowserConnectStore, BrowserLoad
        DEF Browser!Next, InBrowser, OfBrowser

-----------------------------------------------------------------------------
(* The Porto connector. *)

\* The settings, named.
OfPortoOf(p, S, Ch) == S = Portos[p].slots /\ Ch = Portos[p].chains /\ Apart(Ch)
                      /\ Portos[p].default \in Ch

\* What it has of Connector is the same for every connector.
LEMMA PortoOfStore ==
  ASSUME NEW p, NEW S, NEW Ch, OfPortoOf(p, S, Ch)
  PROVE  /\ \A ch, jobs : PortoOf(p)!EmitChange(ch, jobs) <=> Store(S, Ch)!EmitChange(ch, jobs)
         /\ \A ch, acc : PortoOf(p)!EmitConnect(ch, acc) <=> Store(S, Ch)!EmitConnect(ch, acc)
         /\ \A ch, acc : PortoOf(p)!Stored(ch, acc) <=> Store(S, Ch)!Stored(ch, acc)
         /\ PortoOf(p)!EmitDisconnect <=> Store(S, Ch)!EmitDisconnect
         /\ PortoOf(p)!Removed <=> Store(S, Ch)!Removed
         /\ PortoOf(p)!Failed = Store(S, Ch)!Failed
         /\ \A j : PortoOf(p)!Return(j) = Store(S, Ch)!Return(j)
         /\ \A s : PortoOf(p)!Returns(s) <=> Store(S, Ch)!Returns(s)
         /\ \A s : PortoOf(p)!ReturnsUnswitched(s) <=> Store(S, Ch)!ReturnsUnswitched(s)
         /\ \A jobs : PortoOf(p)!Opened(jobs) <=> Store(S, Ch)!Opened(jobs)
         /\ PortoOf(p)!IdleJob = Store(S, Ch)!IdleJob
         /\ \A at, ch : PortoOf(p)!Job(at, ch) = Store(S, Ch)!Job(at, ch)
         /\ \A s, at, ch : PortoOf(p)!Start(s, at, ch) <=> Store(S, Ch)!Start(s, at, ch)
         /\ \A s, at : PortoOf(p)!Go(s, at) <=> Store(S, Ch)!Go(s, at)
         /\ \A s, at, acc, was :
              PortoOf(p)!Take(s, at, acc, was) <=> Store(S, Ch)!Take(s, at, acc, was)
         /\ \A s : PortoOf(p)!End(s) <=> Store(S, Ch)!End(s)
         /\ PortoOf(p)!ConnectorInit <=> Store(S, Ch)!ConnectorInit
         /\ PortoOf(p)!StatusIsConnection <=> Store(S, Ch)!StatusIsConnection
<1>1. \A at, ch : PortoOf(p)!Job(at, ch) = Store(S, Ch)!Job(at, ch)
  BY DEF PortoOf!Job, Store!Job
<1>2. PortoOf(p)!IdleJob = Store(S, Ch)!IdleJob
  BY <1>1 DEF PortoOf!IdleJob, Store!IdleJob
<1>3. \A j : PortoOf(p)!Return(j) = Store(S, Ch)!Return(j)
  BY <1>2 DEF PortoOf!Return, Store!Return
<1>17. \A s : PortoOf(p)!Returns(s) <=> Store(S, Ch)!Returns(s)
  BY <1>3 DEF PortoOf!Returns, Store!Returns
<1>18. \A s : PortoOf(p)!ReturnsUnswitched(s) <=> Store(S, Ch)!ReturnsUnswitched(s)
  BY <1>3, Zenon DEF PortoOf!ReturnsUnswitched, Store!ReturnsUnswitched
<1>4. \A ch, jobs : PortoOf(p)!EmitChange(ch, jobs) <=> Store(S, Ch)!EmitChange(ch, jobs)
  BY <1>3 DEF PortoOf!EmitChange, Store!EmitChange, OfPortoOf
<1>5. \A ch, acc : PortoOf(p)!EmitConnect(ch, acc) <=> Store(S, Ch)!EmitConnect(ch, acc)
  BY DEF PortoOf!EmitConnect, Store!EmitConnect, PortoOf!Adopt, Store!Adopt, PortoOf!store,
         Store!store
<1>6. \A ch, acc : PortoOf(p)!Stored(ch, acc) <=> Store(S, Ch)!Stored(ch, acc)
  BY DEF PortoOf!Stored, Store!Stored
<1>7. PortoOf(p)!EmitDisconnect <=> Store(S, Ch)!EmitDisconnect
  BY DEF PortoOf!EmitDisconnect, Store!EmitDisconnect, PortoOf!store, Store!store
<1>8. PortoOf(p)!Removed <=> Store(S, Ch)!Removed
  BY DEF PortoOf!Removed, Store!Removed
<1>9. PortoOf(p)!Failed = Store(S, Ch)!Failed
  BY DEF PortoOf!Failed, Store!Failed
<1>10. \A jobs : PortoOf(p)!Opened(jobs) <=> Store(S, Ch)!Opened(jobs)
  BY <1>2 DEF PortoOf!Opened, Store!Opened, OfPortoOf
<1>11. \A s, at, ch : PortoOf(p)!Start(s, at, ch) <=> Store(S, Ch)!Start(s, at, ch)
  BY <1>1 DEF PortoOf!Start, Store!Start, PortoOf!Turn, Store!Turn, PortoOf!InFlight,
              Store!InFlight, OfPortoOf
<1>12. \A s, at : PortoOf(p)!Go(s, at) <=> Store(S, Ch)!Go(s, at)
  BY DEF PortoOf!Go, Store!Go
<1>13. \A s : PortoOf(p)!End(s) <=> Store(S, Ch)!End(s)
  BY <1>2 DEF PortoOf!End, Store!End
<1>14. PortoOf(p)!ConnectorInit <=> Store(S, Ch)!ConnectorInit
  BY <1>2 DEF PortoOf!ConnectorInit, Store!ConnectorInit, OfPortoOf
<1>15. \A s, at, acc, was :
         PortoOf(p)!Take(s, at, acc, was) <=> Store(S, Ch)!Take(s, at, acc, was)
  BY DEF PortoOf!Take, Store!Take
<1>16. PortoOf(p)!StatusIsConnection <=> Store(S, Ch)!StatusIsConnection
  BY DEF PortoOf!StatusIsConnection, Store!StatusIsConnection, PortoOf!Calm, Store!Calm,
         PortoOf!InFlight, Store!InFlight, OfPortoOf
<1> QED BY <1>1, <1>2, <1>3, <1>4, <1>5, <1>6, <1>7, <1>8, <1>9, <1>10, <1>11, <1>12, <1>13,
           <1>14, <1>15, <1>16, <1>17, <1>18

\* ... and the invariant.
InPortoOf(p, S, Ch) == OfPortoOf(p, S, Ch) /\ WalletInv(S, Ch)

\* connect() begins, with nobody connected.
LEMMA PortoOfConnect ==
  ASSUME NEW p, NEW S, NEW Ch, InPortoOf(p, S, Ch), NEW s \in S, PortoOf(p)!Connect(s)
  PROVE  WalletInv(S, Ch)'
<1>1. /\ PortoOf(p)!Start(s, "connect.prompt", None) /\ link' = None /\ status' = "connecting"
      /\ chain' = chain /\ granted' = granted
  BY DEF PortoOf!Connect, PortoOf!wallet, PortoOf!store
<1>2. StoreInv(S, Ch)'
  BY <1>1, PortoOfStore, ConnectStarts
  DEF InPortoOf, OfPortoOf, WalletInv, ConnectPlaces, Places
<1> QED BY <1>1, <1>2 DEF InPortoOf, WalletInv

\* The user rejects: the status is settled.
LEMMA PortoOfConnectReject ==
  ASSUME NEW p, NEW S, NEW Ch, InPortoOf(p, S, Ch), NEW s \in S, PortoOf(p)!ConnectReject(s)
  PROVE  WalletInv(S, Ch)'
<1>1. /\ PortoOf(p)!End(s) /\ link' = link /\ status' = PortoOf(p)!Failed
      /\ chain' = chain /\ granted' = granted
  BY DEF PortoOf!ConnectReject, PortoOf!Fail, PortoOf!wallet, PortoOf!store
<1>2. StoreInv(S, Ch)'
  BY <1>1, PortoOfStore, EndSettles DEF InPortoOf, OfPortoOf, WalletInv
<1> QED BY <1>1, <1>2 DEF InPortoOf, WalletInv

\* The connection is stored, and the status settled.
LEMMA PortoOfConnected ==
  ASSUME NEW p, NEW S, NEW Ch, InPortoOf(p, S, Ch), NEW s \in S, NEW ch \in Ch \cup {None},
         NEW acc \in BOOLEAN, PortoOf(p)!Connected(s, ch, acc)
  PROVE  StoreInv(S, Ch)'
<1>1. PortoOf(p)!End(s) /\ PortoOf(p)!Stored(ch, acc)
  BY DEF PortoOf!Connected
<1> QED BY <1>1, PortoOfStore, EndSettles DEF InPortoOf, OfPortoOf, WalletInv

\* The accounts are shared.
LEMMA PortoOfConnectAccept ==
  ASSUME NEW p, NEW S, NEW Ch, InPortoOf(p, S, Ch), NEW s \in S, PortoOf(p)!ConnectAccept(s)
  PROVE  WalletInv(S, Ch)'
<1>1. PICK ch \in Ch, acc \in BOOLEAN :
        /\ PortoOf(p)!Connected(s, ch, acc) /\ chain' = ch /\ granted' = acc
  BY DEF PortoOf!ConnectAccept, InPortoOf, OfPortoOf
<1>2. StoreInv(S, Ch)'
  BY <1>1, PortoOfConnected
<1> QED BY <1>1, <1>2 DEF WalletInv

\* A page load: nobody is connected, a reconnect may be in flight.
LEMMA PortoOfLoad ==
  ASSUME NEW p, NEW S, NEW Ch, InPortoOf(p, S, Ch), PortoOf(p)!Load
  PROVE  WalletInv(S, Ch)'
<1>1. PICK s \in S :
        PortoOf(p)!Opened([x \in S |-> IF x = s THEN PortoOf(p)!Job("reconnect.accounts", None)
                                  ELSE PortoOf(p)!IdleJob])
  BY DEF PortoOf!Load, InPortoOf, OfPortoOf
<1>2. chain' = chain /\ granted' = granted
  BY DEF PortoOf!Load, PortoOf!wallet, PortoOf!store
<1> DEFINE j == Store(S, Ch)!Job("reconnect.accounts", None)
<1>3. Store(S, Ch)!Opened([x \in S |-> IF x = s THEN j ELSE Store(S, Ch)!IdleJob])
  <2>1. [x \in S |-> IF x = s THEN PortoOf(p)!Job("reconnect.accounts", None)
                          ELSE PortoOf(p)!IdleJob]
          = [x \in S |-> IF x = s THEN j ELSE Store(S, Ch)!IdleJob]
    BY PortoOfStore DEF InPortoOf
  <2> QED BY <1>1, <2>1, PortoOfStore DEF InPortoOf
<1>4. j \in JobSet(Ch) /\ j.at = "reconnect.accounts"
  BY NewJob DEF Places, ConnectPlaces
<1>5. JobOK(j, Ch) /\ Works(j)
  BY <1>4 DEF JobOK, Works, ConnectPlaces, SwitchPlaces
<1> HIDE DEF j
<1>6. StoreInv(S, Ch)'
  BY <1>3, <1>5, OpenedKeeps
<1> QED BY <1>2, <1>6 DEF InPortoOf, WalletInv

\* isAuthorized: a reconnect that ends leaves no "connecting" behind.
LEMMA PortoOfAuthorized ==
  ASSUME NEW p, NEW S, NEW Ch, InPortoOf(p, S, Ch), NEW s \in S, PortoOf(p)!Authorized(s)
  PROVE  WalletInv(S, Ch)'
<1>1. chain' = chain /\ granted' = granted
  BY DEF PortoOf!Authorized, PortoOf!wallet, PortoOf!store
<1>2. CASE granted
  <2>1. PICK at \in ConnectPlaces : PortoOf(p)!Go(s, at) /\ link' = link /\ status' = status
    BY <1>2 DEF PortoOf!Authorized, ConnectPlaces
  <2>2. StoreInv(S, Ch)'
    BY <2>1, PortoOfStore, GoKeeps DEF InPortoOf, OfPortoOf, WalletInv, Told, StoreInv, Places
  <2> QED BY <1>1, <2>2 DEF InPortoOf, WalletInv
<1>3. CASE ~granted
  <2>1. /\ PortoOf(p)!End(s)
        /\ IF status = "connecting" THEN link' = None /\ status' = "disconnected"
           ELSE link' = link /\ status' = status
    BY <1>3 DEF PortoOf!Authorized
  <2>2. Settles(Ch)
    BY <2>1 DEF InPortoOf, WalletInv, StoreInv, Truthful, Settles, Settled
  <2>3. StoreInv(S, Ch)'
    BY <2>1, <2>2, PortoOfStore, EndSettles DEF InPortoOf, OfPortoOf, WalletInv
  <2> QED BY <1>1, <2>3 DEF InPortoOf, WalletInv
<1> QED BY <1>2, <1>3

\* A reconnect has the accounts.
LEMMA PortoOfReconnected ==
  ASSUME NEW p, NEW S, NEW Ch, InPortoOf(p, S, Ch), NEW s \in S, PortoOf(p)!Reconnected(s)
  PROVE  WalletInv(S, Ch)'
<1>1. chain' = chain /\ granted' = granted
  BY DEF PortoOf!Reconnected, PortoOf!Connected, PortoOf!wallet
<1>2. CASE chain = Portos[p].default
  <2>1. PortoOf(p)!Connected(s, chain, granted)
    BY <1>2 DEF PortoOf!Reconnected
  <2>2. StoreInv(S, Ch)'
    BY <2>1, PortoOfConnected DEF InPortoOf, WalletInv
  <2> QED BY <1>1, <2>2 DEF InPortoOf, WalletInv
<1>3. CASE chain # Portos[p].default
  <2>1. PICK ch \in Ch :
          /\ job' = [job EXCEPT ![s] = [at |-> "switch.wallet", chain |-> ch, acc |-> granted,
                                        was |-> chain]]
          /\ link' = link /\ status' = status
    BY <1>3 DEF PortoOf!Reconnected, PortoOf!store, InPortoOf, OfPortoOf
  <2>2. Told(Ch)
    BY <2>1 DEF InPortoOf, WalletInv, Told, StoreInv
  <2>3. StoreInv(S, Ch)'
    BY <2>1, <2>2, SwitchInside DEF InPortoOf, OfPortoOf, WalletInv
  <2> QED BY <1>1, <2>3 DEF InPortoOf, WalletInv
<1> QED BY <1>2, <1>3

\* The switch inside connect returned.
LEMMA PortoOfConnectStore ==
  ASSUME NEW p, NEW S, NEW Ch, InPortoOf(p, S, Ch), NEW s \in S, PortoOf(p)!ConnectStore(s)
  PROVE  WalletInv(S, Ch)'
<1>1. job[s].chain \in Ch \cup {None} /\ job[s].acc \in BOOLEAN
  BY DEF InPortoOf, WalletInv, StoreInv, Jobs, JobOK, JobSet
<1>2. StoreInv(S, Ch)'
  BY <1>1, PortoOfConnected DEF PortoOf!ConnectStore
<1>3. chain' = chain /\ granted' = granted
  BY DEF PortoOf!ConnectStore, PortoOf!Connected, PortoOf!wallet, PortoOf!store
<1> QED BY <1>2, <1>3 DEF InPortoOf, WalletInv

\* disconnect() begins.
LEMMA PortoOfDisconnect ==
  ASSUME NEW p, NEW S, NEW Ch, InPortoOf(p, S, Ch), NEW s \in S, PortoOf(p)!Disconnect(s)
  PROVE  WalletInv(S, Ch)'
<1>1. /\ PortoOf(p)!Start(s, "disconnect.wallet", None) /\ link' = link /\ status' = status
      /\ chain' = chain /\ granted' = granted
  BY DEF PortoOf!Disconnect, PortoOf!wallet, PortoOf!store
<1>2. StoreInv(S, Ch)'
  BY <1>1, PortoOfStore, StartKeeps
  DEF InPortoOf, OfPortoOf, WalletInv, Told, StoreInv, Places, SwitchPlaces, OtherPlaces
<1> QED BY <1>1, <1>2 DEF InPortoOf, WalletInv

\* disconnect() removes the connection.
LEMMA PortoOfDisconnectDone ==
  ASSUME NEW p, NEW S, NEW Ch, InPortoOf(p, S, Ch), NEW s \in S, PortoOf(p)!DisconnectDone(s)
  PROVE  WalletInv(S, Ch)'
<1>1. /\ PortoOf(p)!End(s) /\ PortoOf(p)!Removed
      /\ chain' = chain /\ granted' \in BOOLEAN
  BY DEF PortoOf!DisconnectDone, PortoOf!wallet, PortoOf!store
<1>2. StoreInv(S, Ch)'
  BY <1>1, PortoOfStore, EndSettles DEF InPortoOf, OfPortoOf, WalletInv
<1> QED BY <1>1, <1>2 DEF InPortoOf, WalletInv

\* disconnect() fails: the connection stays, and its status.
LEMMA PortoOfDisconnectFail ==
  ASSUME NEW p, NEW S, NEW Ch, InPortoOf(p, S, Ch), NEW s \in S, PortoOf(p)!DisconnectFail(s)
  PROVE  WalletInv(S, Ch)'
<1>1. /\ PortoOf(p)!End(s) /\ job[s].at = "disconnect.wallet" /\ link' = link /\ status' = status
      /\ chain' = chain /\ granted' = granted
  BY DEF PortoOf!DisconnectFail, PortoOf!At, PortoOf!wallet, PortoOf!store
<1>2. Told(Ch) /\ ~ Works(job[s])
  BY <1>1 DEF InPortoOf, WalletInv, Told, StoreInv, Works, ConnectPlaces, SwitchPlaces
<1>3. StoreInv(S, Ch)'
  BY <1>1, <1>2, PortoOfStore, EndKeeps DEF InPortoOf, OfPortoOf, WalletInv
<1> QED BY <1>1, <1>3 DEF InPortoOf, WalletInv

\* switchChain() begins.
LEMMA PortoOfSwitchChain ==
  ASSUME NEW p, NEW S, NEW Ch, InPortoOf(p, S, Ch), NEW s \in S, NEW ch \in Ch,
         PortoOf(p)!SwitchChain(s, ch)
  PROVE  WalletInv(S, Ch)'
<1>1. /\ PortoOf(p)!Start(s, "switch.wallet", ch) /\ link' = link /\ status' = status
      /\ chain' = chain /\ granted' = granted
  BY DEF PortoOf!SwitchChain, PortoOf!wallet, PortoOf!store
<1>2. StoreInv(S, Ch)'
  BY <1>1, PortoOfStore, StartKeeps
  DEF InPortoOf, OfPortoOf, WalletInv, Told, StoreInv, Places, SwitchPlaces, OtherPlaces
<1> QED BY <1>1, <1>2 DEF InPortoOf, WalletInv

\* The switch returns, announced or not.
LEMMA PortoOfSwitchDone ==
  ASSUME NEW p, NEW S, NEW Ch, InPortoOf(p, S, Ch), NEW s \in S, PortoOf(p)!SwitchDone(s)
  PROVE  WalletInv(S, Ch)'
<1>1. /\ chain' = job[s].chain /\ granted' = granted /\ job[s].at = "switch.wallet"
      /\ \/ PortoOf(p)!EmitChange(job[s].chain, [job EXCEPT ![s] = PortoOf(p)!Return(job[s])])
         \/ PortoOf(p)!Returns(s) /\ link' = link /\ status' = status
  BY DEF PortoOf!SwitchDone, PortoOf!At, PortoOf!Returns, PortoOf!store
<1>2. job[s].chain \in Ch
  BY <1>1 DEF InPortoOf, WalletInv, StoreInv, Jobs, JobOK, SwitchPlaces
<1>3. CASE PortoOf(p)!EmitChange(job[s].chain, [job EXCEPT ![s] = PortoOf(p)!Return(job[s])])
  BY <1>1, <1>2, <1>3, PortoOfStore, ChangeReturns
  DEF InPortoOf, OfPortoOf, WalletInv, SwitchPlaces
<1>4. CASE PortoOf(p)!Returns(s) /\ link' = link /\ status' = status
  <2>1. StoreInv(S, Ch)'
    BY <1>1, <1>4, PortoOfStore, SwitchReturns
    DEF InPortoOf, OfPortoOf, WalletInv, Told, StoreInv, SwitchPlaces
  <2> QED BY <1>1, <1>2, <2>1 DEF InPortoOf, WalletInv
<1> QED BY <1>1, <1>3, <1>4

\* A switch that failed returns.
LEMMA PortoOfSwitchFail ==
  ASSUME NEW p, NEW S, NEW Ch, InPortoOf(p, S, Ch), NEW s \in S, PortoOf(p)!SwitchFail(s)
  PROVE  WalletInv(S, Ch)'
<1>1. chain' = chain /\ granted' = granted /\ link' = link /\ job[s].at = "switch.wallet"
  BY DEF PortoOf!SwitchFail, PortoOf!Fail, PortoOf!At, PortoOf!wallet, PortoOf!store
<1>2. CASE PortoOf(p)!ReturnsUnswitched(s) /\ status' = status
  <2>1. StoreInv(S, Ch)'
    BY <1>1, <1>2, PortoOfStore, SwitchReturns
    DEF InPortoOf, OfPortoOf, WalletInv, Told, StoreInv, SwitchPlaces
  <2> QED BY <1>1, <2>1 DEF InPortoOf, WalletInv
<1>3. CASE PortoOf(p)!End(s) /\ status' = PortoOf(p)!Failed
  <2>1. StoreInv(S, Ch)'
    BY <1>1, <1>3, PortoOfStore, EndSettles DEF InPortoOf, OfPortoOf, WalletInv
  <2> QED BY <1>1, <2>1 DEF InPortoOf, WalletInv
<1> QED BY <1>2, <1>3 DEF PortoOf!SwitchFail, PortoOf!Fail, PortoOf!store

\* chainChanged.
LEMMA PortoOfWalletChain ==
  ASSUME NEW p, NEW S, NEW Ch, InPortoOf(p, S, Ch), NEW ch \in Ch, PortoOf(p)!WalletChain(ch)
  PROVE  WalletInv(S, Ch)'
<1>1. /\ chain' = ch /\ granted' = granted
      /\ PortoOf(p)!EmitChange(ch, job) \/ (job' = job /\ link' = link /\ status' = status)
  BY DEF PortoOf!WalletChain, PortoOf!wallet, PortoOf!store
<1>2. StoreInv(S, Ch)'
  BY <1>1, PortoOfStore, ChangeComes, NothingMoves
  DEF InPortoOf, OfPortoOf, WalletInv, Told, StoreInv
<1> QED BY <1>1, <1>2 DEF InPortoOf, WalletInv

\* accountsChanged.
LEMMA PortoOfWalletAccounts ==
  ASSUME NEW p, NEW S, NEW Ch, InPortoOf(p, S, Ch), NEW acc \in BOOLEAN,
         PortoOf(p)!WalletAccounts(acc)
  PROVE  WalletInv(S, Ch)'
<1>1. /\ chain' = chain /\ granted' = acc /\ status' = status /\ job' = job
      /\ link' = link \/ (link # None /\ link' = [link EXCEPT !.acc = acc])
  BY DEF PortoOf!WalletAccounts
<1>2. Told(Ch)
  BY <1>1, AccountsTell DEF InPortoOf, OfPortoOf, WalletInv, Told, StoreInv
<1>3. StoreInv(S, Ch)'
  BY <1>1, <1>2, NothingMoves DEF InPortoOf, WalletInv
<1> QED BY <1>1, <1>3 DEF InPortoOf, WalletInv

\* The wallet connects by itself.
LEMMA PortoOfWalletConnects ==
  ASSUME NEW p, NEW S, NEW Ch, InPortoOf(p, S, Ch), NEW s \in S, PortoOf(p)!WalletConnects(s)
  PROVE  WalletInv(S, Ch)'
<1>1. /\ PortoOf(p)!Start(s, "onConnect", chain) /\ link' = link /\ status' = status
      /\ chain' = chain /\ granted' \in BOOLEAN
  BY DEF PortoOf!WalletConnects, PortoOf!wallet, PortoOf!store
<1>2. StoreInv(S, Ch)'
  BY <1>1, PortoOfStore, StartKeeps
  DEF InPortoOf, OfPortoOf, WalletInv, Told, StoreInv, Places, SwitchPlaces, OtherPlaces
<1> QED BY <1>1, <1>2 DEF InPortoOf, WalletInv

\* onConnect has the accounts.
LEMMA PortoOfOnConnect ==
  ASSUME NEW p, NEW S, NEW Ch, InPortoOf(p, S, Ch), NEW s \in S, PortoOf(p)!OnConnect(s)
  PROVE  WalletInv(S, Ch)'
<1>1. /\ PortoOf(p)!End(s) /\ job[s].at = "onConnect" /\ chain' = chain /\ granted' = granted
      /\ PortoOf(p)!EmitConnect(job[s].chain, granted) \/ (link' = link /\ status' = status)
  BY DEF PortoOf!OnConnect, PortoOf!At, PortoOf!wallet, PortoOf!store
<1>2. job[s].chain \in Ch \cup {None} /\ granted \in BOOLEAN
  BY DEF InPortoOf, WalletInv, StoreInv, Jobs, JobOK, JobSet
<1>3. Told(Ch)
  BY <1>1, <1>2, PortoOfStore, HandlersTell DEF InPortoOf, OfPortoOf, WalletInv, Told, StoreInv
<1>4. ~ Works(job[s])
  BY <1>1 DEF Works, ConnectPlaces, SwitchPlaces
<1>5. StoreInv(S, Ch)'
  BY <1>1, <1>3, <1>4, PortoOfStore, EndKeeps DEF InPortoOf, OfPortoOf, WalletInv
<1> QED BY <1>1, <1>5 DEF InPortoOf, WalletInv

\* The wallet ends the connection.
LEMMA PortoOfWalletDisconnects ==
  ASSUME NEW p, NEW S, NEW Ch, InPortoOf(p, S, Ch), PortoOf(p)!WalletDisconnects
  PROVE  WalletInv(S, Ch)'
<1>1. /\ chain' = chain /\ granted' \in BOOLEAN /\ job' = job
      /\ PortoOf(p)!EmitDisconnect \/ (link' = link /\ status' = status)
  BY DEF PortoOf!WalletDisconnects, PortoOf!wallet, PortoOf!store
<1>2. Told(Ch)
  BY <1>1, PortoOfStore, HandlersTell DEF InPortoOf, OfPortoOf, WalletInv, Told, StoreInv
<1>3. StoreInv(S, Ch)'
  BY <1>1, <1>2, NothingMoves DEF InPortoOf, WalletInv
<1> QED BY <1>1, <1>3 DEF InPortoOf, WalletInv

\* Every step.
LEMMA PortoOfNext ==
  ASSUME NEW p, NEW S, NEW Ch, InPortoOf(p, S, Ch), PortoOf(p)!Next
  PROVE  WalletInv(S, Ch)'
<1>1. ASSUME NEW s \in S, PortoOf(p)!Answer(s)
      PROVE  WalletInv(S, Ch)'
  BY <1>1, PortoOfConnectReject, PortoOfConnectAccept, PortoOfAuthorized, PortoOfReconnected,
     PortoOfDisconnectDone, PortoOfDisconnectFail, PortoOfSwitchDone, PortoOfSwitchFail,
     PortoOfOnConnect
  DEF PortoOf!Answer
<1>2. ASSUME NEW s \in S, PortoOf(p)!Call(s)
      PROVE  WalletInv(S, Ch)'
  BY <1>2, PortoOfConnect, PortoOfDisconnect, PortoOfSwitchChain
  DEF PortoOf!Call, InPortoOf, OfPortoOf
<1>3. ASSUME PortoOf(p)!Wallet
      PROVE  WalletInv(S, Ch)'
  BY <1>3, PortoOfWalletChain, PortoOfWalletAccounts, PortoOfWalletConnects,
     PortoOfWalletDisconnects
  DEF PortoOf!Wallet, InPortoOf, OfPortoOf
<1> QED BY <1>1, <1>2, <1>3, PortoOfConnectStore, PortoOfLoad
        DEF PortoOf!Next, InPortoOf, OfPortoOf

-----------------------------------------------------------------------------
(* The connectors of the wallet SDKs: Coinbase Wallet, Gemini, Base Account. *)

\* The settings, named.
OfSdk(k, S, Ch) == S = Sdks[k].slots /\ Ch = Sdks[k].chains /\ Apart(Ch)

\* What it has of Connector is the same for every connector.
LEMMA SdkStore ==
  ASSUME NEW k, NEW S, NEW Ch, OfSdk(k, S, Ch)
  PROVE  /\ \A ch, jobs : Sdk(k)!EmitChange(ch, jobs) <=> Store(S, Ch)!EmitChange(ch, jobs)
         /\ \A ch, acc : Sdk(k)!EmitConnect(ch, acc) <=> Store(S, Ch)!EmitConnect(ch, acc)
         /\ \A ch, acc : Sdk(k)!Stored(ch, acc) <=> Store(S, Ch)!Stored(ch, acc)
         /\ Sdk(k)!EmitDisconnect <=> Store(S, Ch)!EmitDisconnect
         /\ Sdk(k)!Removed <=> Store(S, Ch)!Removed
         /\ Sdk(k)!Failed = Store(S, Ch)!Failed
         /\ \A j : Sdk(k)!Return(j) = Store(S, Ch)!Return(j)
         /\ \A s : Sdk(k)!Returns(s) <=> Store(S, Ch)!Returns(s)
         /\ \A s : Sdk(k)!ReturnsUnswitched(s) <=> Store(S, Ch)!ReturnsUnswitched(s)
         /\ \A jobs : Sdk(k)!Opened(jobs) <=> Store(S, Ch)!Opened(jobs)
         /\ Sdk(k)!IdleJob = Store(S, Ch)!IdleJob
         /\ \A at, ch : Sdk(k)!Job(at, ch) = Store(S, Ch)!Job(at, ch)
         /\ \A s, at, ch : Sdk(k)!Start(s, at, ch) <=> Store(S, Ch)!Start(s, at, ch)
         /\ \A s, at : Sdk(k)!Go(s, at) <=> Store(S, Ch)!Go(s, at)
         /\ \A s, at, acc, was :
              Sdk(k)!Take(s, at, acc, was) <=> Store(S, Ch)!Take(s, at, acc, was)
         /\ \A s : Sdk(k)!End(s) <=> Store(S, Ch)!End(s)
         /\ Sdk(k)!ConnectorInit <=> Store(S, Ch)!ConnectorInit
         /\ Sdk(k)!StatusIsConnection <=> Store(S, Ch)!StatusIsConnection
<1>1. \A at, ch : Sdk(k)!Job(at, ch) = Store(S, Ch)!Job(at, ch)
  BY DEF Sdk!Job, Store!Job
<1>2. Sdk(k)!IdleJob = Store(S, Ch)!IdleJob
  BY <1>1 DEF Sdk!IdleJob, Store!IdleJob
<1>3. \A j : Sdk(k)!Return(j) = Store(S, Ch)!Return(j)
  BY <1>2 DEF Sdk!Return, Store!Return
<1>17. \A s : Sdk(k)!Returns(s) <=> Store(S, Ch)!Returns(s)
  BY <1>3 DEF Sdk!Returns, Store!Returns
<1>18. \A s : Sdk(k)!ReturnsUnswitched(s) <=> Store(S, Ch)!ReturnsUnswitched(s)
  BY <1>3, Zenon DEF Sdk!ReturnsUnswitched, Store!ReturnsUnswitched
<1>4. \A ch, jobs : Sdk(k)!EmitChange(ch, jobs) <=> Store(S, Ch)!EmitChange(ch, jobs)
  BY <1>3 DEF Sdk!EmitChange, Store!EmitChange, OfSdk
<1>5. \A ch, acc : Sdk(k)!EmitConnect(ch, acc) <=> Store(S, Ch)!EmitConnect(ch, acc)
  BY DEF Sdk!EmitConnect, Store!EmitConnect, Sdk!Adopt, Store!Adopt, Sdk!store,
         Store!store
<1>6. \A ch, acc : Sdk(k)!Stored(ch, acc) <=> Store(S, Ch)!Stored(ch, acc)
  BY DEF Sdk!Stored, Store!Stored
<1>7. Sdk(k)!EmitDisconnect <=> Store(S, Ch)!EmitDisconnect
  BY DEF Sdk!EmitDisconnect, Store!EmitDisconnect, Sdk!store, Store!store
<1>8. Sdk(k)!Removed <=> Store(S, Ch)!Removed
  BY DEF Sdk!Removed, Store!Removed
<1>9. Sdk(k)!Failed = Store(S, Ch)!Failed
  BY DEF Sdk!Failed, Store!Failed
<1>10. \A jobs : Sdk(k)!Opened(jobs) <=> Store(S, Ch)!Opened(jobs)
  BY <1>2 DEF Sdk!Opened, Store!Opened, OfSdk
<1>11. \A s, at, ch : Sdk(k)!Start(s, at, ch) <=> Store(S, Ch)!Start(s, at, ch)
  BY <1>1 DEF Sdk!Start, Store!Start, Sdk!Turn, Store!Turn, Sdk!InFlight,
              Store!InFlight, OfSdk
<1>12. \A s, at : Sdk(k)!Go(s, at) <=> Store(S, Ch)!Go(s, at)
  BY DEF Sdk!Go, Store!Go
<1>13. \A s : Sdk(k)!End(s) <=> Store(S, Ch)!End(s)
  BY <1>2 DEF Sdk!End, Store!End
<1>14. Sdk(k)!ConnectorInit <=> Store(S, Ch)!ConnectorInit
  BY <1>2 DEF Sdk!ConnectorInit, Store!ConnectorInit, OfSdk
<1>15. \A s, at, acc, was :
         Sdk(k)!Take(s, at, acc, was) <=> Store(S, Ch)!Take(s, at, acc, was)
  BY DEF Sdk!Take, Store!Take
<1>16. Sdk(k)!StatusIsConnection <=> Store(S, Ch)!StatusIsConnection
  BY DEF Sdk!StatusIsConnection, Store!StatusIsConnection, Sdk!Calm, Store!Calm,
         Sdk!InFlight, Store!InFlight, OfSdk
<1> QED BY <1>1, <1>2, <1>3, <1>4, <1>5, <1>6, <1>7, <1>8, <1>9, <1>10, <1>11, <1>12, <1>13,
           <1>14, <1>15, <1>16, <1>17, <1>18

\* ... and the invariant.
InSdk(k, S, Ch) == OfSdk(k, S, Ch) /\ WalletInv(S, Ch)

\* connect() begins, with nobody connected.
LEMMA SdkConnect ==
  ASSUME NEW k, NEW S, NEW Ch, InSdk(k, S, Ch), NEW s \in S, NEW ch \in Ch \cup {None},
         Sdk(k)!Connect(s, ch)
  PROVE  WalletInv(S, Ch)'
<1>1. /\ Sdk(k)!Start(s, "connect.prompt", ch) /\ link' = None /\ status' = "connecting"
      /\ chain' = chain /\ granted' = granted
  BY DEF Sdk!Connect, Sdk!wallet, Sdk!store
<1>2. StoreInv(S, Ch)'
  BY <1>1, SdkStore, ConnectStarts DEF InSdk, OfSdk, WalletInv, ConnectPlaces, Places
<1> QED BY <1>1, <1>2 DEF InSdk, WalletInv

\* The user rejects: the status is settled.
LEMMA SdkConnectReject ==
  ASSUME NEW k, NEW S, NEW Ch, InSdk(k, S, Ch), NEW s \in S, Sdk(k)!ConnectReject(s)
  PROVE  WalletInv(S, Ch)'
<1>1. /\ Sdk(k)!End(s) /\ link' = link /\ status' = Sdk(k)!Failed
      /\ chain' = chain /\ granted' = granted
  BY DEF Sdk!ConnectReject, Sdk!Fail, Sdk!wallet, Sdk!store
<1>2. StoreInv(S, Ch)'
  BY <1>1, SdkStore, EndSettles DEF InSdk, OfSdk, WalletInv
<1> QED BY <1>1, <1>2 DEF InSdk, WalletInv

\* The connection is stored, and the status settled.
LEMMA SdkConnected ==
  ASSUME NEW k, NEW S, NEW Ch, InSdk(k, S, Ch), NEW s \in S, NEW ch \in Ch \cup {None},
         NEW acc \in BOOLEAN, Sdk(k)!Connected(s, ch, acc)
  PROVE  StoreInv(S, Ch)'
<1>1. Sdk(k)!End(s) /\ Sdk(k)!Stored(ch, acc)
  BY DEF Sdk!Connected
<1> QED BY <1>1, SdkStore, EndSettles DEF InSdk, OfSdk, WalletInv

\* The accounts are shared.
LEMMA SdkConnectAccept ==
  ASSUME NEW k, NEW S, NEW Ch, InSdk(k, S, Ch), NEW s \in S, Sdk(k)!ConnectAccept(s)
  PROVE  WalletInv(S, Ch)'
<1>1. PICK at \in ConnectPlaces, acc \in BOOLEAN, was \in Ch \cup {None} :
        /\ Sdk(k)!Take(s, at, acc, was) /\ link' = link /\ status' = status
        /\ chain' = chain /\ granted' = acc
  BY DEF Sdk!ConnectAccept, Sdk!store, ConnectPlaces, InSdk, WalletInv
<1>2. StoreInv(S, Ch)'
  BY <1>1, SdkStore, TakeKeeps DEF InSdk, OfSdk, WalletInv, Told, StoreInv, Places
<1> QED BY <1>1, <1>2 DEF InSdk, WalletInv

\* The rest of connect.
LEMMA SdkWithChain ==
  ASSUME NEW k, NEW S, NEW Ch, InSdk(k, S, Ch), NEW s \in S, NEW ch \in Ch, NEW acc \in BOOLEAN,
         Sdk(k)!WithChain(s, ch, acc)
  PROVE  StoreInv(S, Ch)' /\ chain' = chain /\ granted' = granted
<1>1. chain' = chain /\ granted' = granted
  BY DEF Sdk!WithChain, Sdk!Connected, Sdk!wallet
<1>2. CASE job[s].chain \in {None, ch}
  BY <1>1, <1>2, SdkConnected DEF Sdk!WithChain
<1>3. CASE job[s].chain \notin {None, ch}
  <2>1. Sdk(k)!Take(s, "switch.wallet", acc, ch) /\ link' = link /\ status' = status
    BY <1>3 DEF Sdk!WithChain, Sdk!store
  <2>2. job[s].chain \in Ch
    BY <1>3 DEF InSdk, WalletInv, StoreInv, Jobs, JobOK, JobSet
  <2> QED BY <1>1, <2>1, <2>2, SdkStore, TakeKeeps
          DEF InSdk, OfSdk, WalletInv, Told, StoreInv, Places, SwitchPlaces, Apart
<1> QED BY <1>2, <1>3

\* Base Account has the accounts again.
LEMMA SdkConnectAccounts ==
  ASSUME NEW k, NEW S, NEW Ch, InSdk(k, S, Ch), NEW s \in S, Sdk(k)!ConnectAccounts(s)
  PROVE  WalletInv(S, Ch)'
<1>1. CASE job[s].was # None
  <2>1. job[s].was \in Ch /\ granted \in BOOLEAN
    BY <1>1 DEF InSdk, WalletInv, StoreInv, Jobs, JobOK, JobSet
  <2> QED BY <1>1, <2>1, SdkWithChain DEF Sdk!ConnectAccounts, InSdk, WalletInv
<1>2. CASE job[s].was = None
  <2>1. /\ Sdk(k)!Take(s, "connect.chain", granted, None) /\ link' = link /\ status' = status
        /\ chain' = chain /\ granted' = granted
    BY <1>2 DEF Sdk!ConnectAccounts, Sdk!wallet, Sdk!store
  <2>2. StoreInv(S, Ch)'
    BY <2>1, SdkStore, TakeKeeps
    DEF InSdk, OfSdk, WalletInv, Told, StoreInv, Places, ConnectPlaces
  <2> QED BY <2>1, <2>2 DEF InSdk, WalletInv
<1> QED BY <1>1, <1>2

\* The chain came: a connection, or a switch that is part of connect.
LEMMA SdkConnectChain ==
  ASSUME NEW k, NEW S, NEW Ch, InSdk(k, S, Ch), NEW s \in S, Sdk(k)!ConnectChain(s)
  PROVE  WalletInv(S, Ch)'
<1>1. job[s].acc \in BOOLEAN
  BY DEF InSdk, WalletInv, StoreInv, Jobs, JobOK, JobSet
<1> QED BY <1>1, SdkWithChain DEF Sdk!ConnectChain, InSdk, WalletInv

\* The switch inside connect returned.
LEMMA SdkConnectStore ==
  ASSUME NEW k, NEW S, NEW Ch, InSdk(k, S, Ch), NEW s \in S, Sdk(k)!ConnectStore(s)
  PROVE  WalletInv(S, Ch)'
<1>1. job[s].chain \in Ch \cup {None} /\ job[s].acc \in BOOLEAN
  BY DEF InSdk, WalletInv, StoreInv, Jobs, JobOK, JobSet
<1>2. StoreInv(S, Ch)'
  BY <1>1, SdkConnected DEF Sdk!ConnectStore
<1>3. chain' = chain /\ granted' = granted
  BY DEF Sdk!ConnectStore, Sdk!Connected, Sdk!wallet, Sdk!store
<1> QED BY <1>2, <1>3 DEF InSdk, WalletInv

\* A page load: nobody is connected, a reconnect may be in flight.
LEMMA SdkLoad ==
  ASSUME NEW k, NEW S, NEW Ch, InSdk(k, S, Ch), Sdk(k)!Load
  PROVE  WalletInv(S, Ch)'
<1>1. PICK s \in S :
        Sdk(k)!Opened([x \in S |-> IF x = s THEN Sdk(k)!Job("reconnect.accounts", None)
                                  ELSE Sdk(k)!IdleJob])
  BY DEF Sdk!Load, InSdk, OfSdk
<1>2. chain' = chain /\ granted' = granted
  BY DEF Sdk!Load, Sdk!wallet, Sdk!store
<1> DEFINE j == Store(S, Ch)!Job("reconnect.accounts", None)
<1>3. Store(S, Ch)!Opened([x \in S |-> IF x = s THEN j ELSE Store(S, Ch)!IdleJob])
  <2>1. [x \in S |-> IF x = s THEN Sdk(k)!Job("reconnect.accounts", None) ELSE Sdk(k)!IdleJob]
          = [x \in S |-> IF x = s THEN j ELSE Store(S, Ch)!IdleJob]
    BY SdkStore DEF InSdk
  <2> QED BY <1>1, <2>1, SdkStore DEF InSdk
<1>4. j \in JobSet(Ch) /\ j.at = "reconnect.accounts"
  BY NewJob DEF Places, ConnectPlaces
<1>5. JobOK(j, Ch) /\ Works(j)
  BY <1>4 DEF JobOK, Works, ConnectPlaces, SwitchPlaces
<1> HIDE DEF j
<1>6. StoreInv(S, Ch)'
  BY <1>3, <1>5, OpenedKeeps
<1> QED BY <1>2, <1>6 DEF InSdk, WalletInv

\* isAuthorized: a reconnect that ends leaves no "connecting" behind.
LEMMA SdkAuthorized ==
  ASSUME NEW k, NEW S, NEW Ch, InSdk(k, S, Ch), NEW s \in S, Sdk(k)!Authorized(s)
  PROVE  WalletInv(S, Ch)'
<1>1. chain' = chain /\ granted' = granted
  BY DEF Sdk!Authorized, Sdk!wallet, Sdk!store
<1>2. CASE granted
  <2>1. PICK at \in ConnectPlaces : Sdk(k)!Go(s, at) /\ link' = link /\ status' = status
    BY <1>2 DEF Sdk!Authorized, ConnectPlaces
  <2>2. StoreInv(S, Ch)'
    BY <2>1, SdkStore, GoKeeps DEF InSdk, OfSdk, WalletInv, Told, StoreInv, Places
  <2> QED BY <1>1, <2>2 DEF InSdk, WalletInv
<1>3. CASE ~granted
  <2>1. /\ Sdk(k)!End(s)
        /\ IF status = "connecting" THEN link' = None /\ status' = "disconnected"
           ELSE link' = link /\ status' = status
    BY <1>3 DEF Sdk!Authorized
  <2>2. Settles(Ch)
    BY <2>1 DEF InSdk, WalletInv, StoreInv, Truthful, Settles, Settled
  <2>3. StoreInv(S, Ch)'
    BY <2>1, <2>2, SdkStore, EndSettles DEF InSdk, OfSdk, WalletInv
  <2> QED BY <1>1, <2>3 DEF InSdk, WalletInv
<1> QED BY <1>2, <1>3

\* A reconnect asks for the accounts, in a way that may prompt.
LEMMA SdkRequested ==
  ASSUME NEW k, NEW S, NEW Ch, InSdk(k, S, Ch), NEW s \in S, Sdk(k)!Requested(s)
  PROVE  WalletInv(S, Ch)'
<1>1. /\ link' = link /\ status' = status /\ chain' = chain /\ granted' = granted
      /\ \/ \E acc \in BOOLEAN : Sdk(k)!Take(s, "connect.chain", acc, job[s].was)
         \/ Sdk(k)!Go(s, "connect.prompt")
  BY DEF Sdk!Requested, Sdk!wallet, Sdk!store
<1>2. job[s].was \in Ch \cup {None}
  BY DEF InSdk, WalletInv, StoreInv, Jobs, JobOK, JobSet
<1>3. StoreInv(S, Ch)'
  BY <1>1, <1>2, SdkStore, TakeKeeps, GoKeeps
  DEF InSdk, OfSdk, WalletInv, Told, StoreInv, Places, ConnectPlaces
<1> QED BY <1>1, <1>3 DEF InSdk, WalletInv

\* disconnect() begins.
LEMMA SdkDisconnect ==
  ASSUME NEW k, NEW S, NEW Ch, InSdk(k, S, Ch), Sdk(k)!Disconnect
  PROVE  WalletInv(S, Ch)'
<1>1. chain' = chain /\ granted' \in BOOLEAN /\ job' = job /\ Sdk(k)!Removed
  BY DEF Sdk!Disconnect
<1>2. Told(Ch)
  BY <1>1, SdkStore, HandlersTell DEF InSdk, OfSdk, WalletInv, Told, Settles
<1>3. StoreInv(S, Ch)'
  BY <1>1, <1>2, NothingMoves DEF InSdk, WalletInv
<1> QED BY <1>1, <1>3 DEF InSdk, WalletInv

\* switchChain() begins.
LEMMA SdkSwitchChain ==
  ASSUME NEW k, NEW S, NEW Ch, InSdk(k, S, Ch), NEW s \in S, NEW ch \in Ch,
         Sdk(k)!SwitchChain(s, ch)
  PROVE  WalletInv(S, Ch)'
<1>1. /\ Sdk(k)!Start(s, "switch.wallet", ch) /\ link' = link /\ status' = status
      /\ chain' = chain /\ granted' = granted
  BY DEF Sdk!SwitchChain, Sdk!wallet, Sdk!store
<1>2. StoreInv(S, Ch)'
  BY <1>1, SdkStore, StartKeeps
  DEF InSdk, OfSdk, WalletInv, Told, StoreInv, Places, SwitchPlaces, OtherPlaces
<1> QED BY <1>1, <1>2 DEF InSdk, WalletInv

\* The switch returns, announced or not.
LEMMA SdkSwitchDone ==
  ASSUME NEW k, NEW S, NEW Ch, InSdk(k, S, Ch), NEW s \in S, Sdk(k)!SwitchDone(s)
  PROVE  WalletInv(S, Ch)'
<1>1. /\ chain' = job[s].chain /\ granted' = granted /\ job[s].at = "switch.wallet"
      /\ \/ Sdk(k)!EmitChange(job[s].chain, [job EXCEPT ![s] = Sdk(k)!Return(job[s])])
         \/ Sdk(k)!Returns(s) /\ link' = link /\ status' = status
  BY DEF Sdk!SwitchDone, Sdk!At, Sdk!Returns, Sdk!store
<1>2. job[s].chain \in Ch
  BY <1>1 DEF InSdk, WalletInv, StoreInv, Jobs, JobOK, SwitchPlaces
<1>3. CASE Sdk(k)!EmitChange(job[s].chain, [job EXCEPT ![s] = Sdk(k)!Return(job[s])])
  BY <1>1, <1>2, <1>3, SdkStore, ChangeReturns DEF InSdk, OfSdk, WalletInv, SwitchPlaces
<1>4. CASE Sdk(k)!Returns(s) /\ link' = link /\ status' = status
  <2>1. StoreInv(S, Ch)'
    BY <1>1, <1>4, SdkStore, SwitchReturns
    DEF InSdk, OfSdk, WalletInv, Told, StoreInv, SwitchPlaces
  <2> QED BY <1>1, <1>2, <2>1 DEF InSdk, WalletInv
<1> QED BY <1>1, <1>3, <1>4

\* The chain is only added.
LEMMA SdkSwitchAdded ==
  ASSUME NEW k, NEW S, NEW Ch, InSdk(k, S, Ch), NEW s \in S, Sdk(k)!SwitchAdded(s)
  PROVE  WalletInv(S, Ch)'
<1>1. /\ Sdk(k)!Returns(s) /\ link' = link /\ status' = status
      /\ chain' = chain /\ granted' = granted
      /\ job[s].at \in SwitchPlaces
  BY DEF Sdk!SwitchAdded, Sdk!At, SwitchPlaces, Sdk!wallet, Sdk!store
<1>2. StoreInv(S, Ch)'
  BY <1>1, SdkStore, SwitchReturns DEF InSdk, OfSdk, WalletInv, Told, StoreInv
<1> QED BY <1>1, <1>2 DEF InSdk, WalletInv

\* A rejected switch: a connect it is part of fails with it.
LEMMA SdkSwitchReject ==
  ASSUME NEW k, NEW S, NEW Ch, InSdk(k, S, Ch), NEW s \in S, Sdk(k)!SwitchReject(s)
  PROVE  WalletInv(S, Ch)'
<1>1. /\ Sdk(k)!End(s) /\ link' = link /\ chain' = chain /\ granted' = granted
      /\ status' = Sdk(k)!Failed \/ (status' = status /\ job[s].was = None)
      /\ job[s].at \in SwitchPlaces
  BY DEF Sdk!SwitchReject, Sdk!At, SwitchPlaces, Sdk!Fail, Sdk!wallet, Sdk!store
<1>2. CASE status' = Sdk(k)!Failed
  BY <1>1, <1>2, SdkStore, EndSettles DEF InSdk, OfSdk, WalletInv
<1>3. CASE status' = status /\ job[s].was = None
  <2>1. ~ Works(job[s]) /\ Told(Ch)
    BY <1>1, <1>3 DEF Works, ConnectPlaces, SwitchPlaces, Told, InSdk, WalletInv, StoreInv
  <2> QED BY <1>1, <2>1, SdkStore, EndKeeps DEF InSdk, OfSdk, WalletInv
<1> QED BY <1>1, <1>2, <1>3 DEF InSdk, WalletInv

\* A switch that failed returns.
LEMMA SdkSwitchFail ==
  ASSUME NEW k, NEW S, NEW Ch, InSdk(k, S, Ch), NEW s \in S, Sdk(k)!SwitchFail(s)
  PROVE  WalletInv(S, Ch)'
<1>1. /\ Sdk(k)!ReturnsUnswitched(s) /\ link' = link /\ status' = status
      /\ chain' = chain /\ granted' = granted
      /\ job[s].at \in SwitchPlaces
  BY DEF Sdk!SwitchFail, Sdk!At, SwitchPlaces, Sdk!wallet, Sdk!store
<1>2. StoreInv(S, Ch)'
  BY <1>1, SdkStore, SwitchReturns DEF InSdk, OfSdk, WalletInv, Told, StoreInv
<1> QED BY <1>1, <1>2 DEF InSdk, WalletInv

\* chainChanged.
LEMMA SdkWalletChain ==
  ASSUME NEW k, NEW S, NEW Ch, InSdk(k, S, Ch), NEW ch \in Ch, Sdk(k)!WalletChain(ch)
  PROVE  WalletInv(S, Ch)'
<1>1. /\ chain' = ch /\ granted' = granted
      /\ Sdk(k)!EmitChange(ch, job) \/ (job' = job /\ link' = link /\ status' = status)
  BY DEF Sdk!WalletChain, Sdk!wallet, Sdk!store
<1>2. StoreInv(S, Ch)'
  BY <1>1, SdkStore, ChangeComes, NothingMoves DEF InSdk, OfSdk, WalletInv, Told, StoreInv
<1> QED BY <1>1, <1>2 DEF InSdk, WalletInv

\* The wallet takes its accounts back.
LEMMA SdkWalletLeaves ==
  ASSUME NEW k, NEW S, NEW Ch, InSdk(k, S, Ch), Sdk(k)!WalletLeaves
  PROVE  WalletInv(S, Ch)'
<1>1. /\ chain' = chain /\ granted' \in BOOLEAN /\ job' = job
      /\ Sdk(k)!EmitDisconnect \/ (link' = link /\ status' = status)
  BY DEF Sdk!WalletLeaves, Sdk!OnDisconnect, Sdk!wallet, Sdk!store
<1>2. Told(Ch)
  BY <1>1, SdkStore, HandlersTell DEF InSdk, OfSdk, WalletInv, Told, StoreInv
<1>3. StoreInv(S, Ch)'
  BY <1>1, <1>2, NothingMoves DEF InSdk, WalletInv
<1> QED BY <1>1, <1>3 DEF InSdk, WalletInv

\* The wallet shares its accounts.
LEMMA SdkWalletShares ==
  ASSUME NEW k, NEW S, NEW Ch, InSdk(k, S, Ch), Sdk(k)!WalletShares
  PROVE  WalletInv(S, Ch)'
<1>1. /\ chain' = chain /\ granted' \in BOOLEAN /\ status' = status /\ job' = job
      /\ link' = link \/ (link # None /\ \E acc \in BOOLEAN : link' = [link EXCEPT !.acc = acc])
  BY DEF Sdk!WalletShares
<1>2. Told(Ch)
  BY <1>1, AccountsTell DEF InSdk, OfSdk, WalletInv, Told, StoreInv
<1>3. StoreInv(S, Ch)'
  BY <1>1, <1>2, NothingMoves DEF InSdk, WalletInv
<1> QED BY <1>1, <1>3 DEF InSdk, WalletInv

\* Every step.
LEMMA SdkNext ==
  ASSUME NEW k, NEW S, NEW Ch, InSdk(k, S, Ch), Sdk(k)!Next
  PROVE  WalletInv(S, Ch)'
<1>1. ASSUME NEW s \in S, Sdk(k)!Answer(s)
      PROVE  WalletInv(S, Ch)'
  BY <1>1, SdkConnectReject, SdkConnectAccept, SdkConnectAccounts, SdkConnectChain,
     SdkAuthorized, SdkRequested, SdkSwitchDone, SdkSwitchAdded, SdkSwitchReject, SdkSwitchFail
  DEF Sdk!Answer
<1>2. ASSUME NEW s \in S, Sdk(k)!Call(s)
      PROVE  WalletInv(S, Ch)'
  BY <1>2, SdkConnect, SdkSwitchChain
  DEF Sdk!Call, InSdk, OfSdk
<1>3. ASSUME Sdk(k)!Wallet
      PROVE  WalletInv(S, Ch)'
  BY <1>3, SdkWalletChain, SdkWalletLeaves, SdkWalletShares
  DEF Sdk!Wallet, InSdk, OfSdk
<1> QED BY <1>1, <1>2, <1>3, SdkConnectStore, SdkDisconnect, SdkLoad
        DEF Sdk!Next, InSdk, OfSdk

-----------------------------------------------------------------------------
(* The MetaMask SDK connector. *)

\* The settings, named.
OfMeta(m, S, Ch) == S = Metas[m].slots /\ Ch = Metas[m].chains /\ Apart(Ch)

\* What it has of Connector is the same for every connector.
LEMMA MetaStore ==
  ASSUME NEW m, NEW S, NEW Ch, OfMeta(m, S, Ch)
  PROVE  /\ \A ch, jobs : Meta(m)!EmitChange(ch, jobs) <=> Store(S, Ch)!EmitChange(ch, jobs)
         /\ \A ch, acc : Meta(m)!EmitConnect(ch, acc) <=> Store(S, Ch)!EmitConnect(ch, acc)
         /\ \A ch, acc : Meta(m)!Stored(ch, acc) <=> Store(S, Ch)!Stored(ch, acc)
         /\ Meta(m)!EmitDisconnect <=> Store(S, Ch)!EmitDisconnect
         /\ Meta(m)!Removed <=> Store(S, Ch)!Removed
         /\ Meta(m)!Failed = Store(S, Ch)!Failed
         /\ \A j : Meta(m)!Return(j) = Store(S, Ch)!Return(j)
         /\ \A s : Meta(m)!Returns(s) <=> Store(S, Ch)!Returns(s)
         /\ \A s : Meta(m)!ReturnsUnswitched(s) <=> Store(S, Ch)!ReturnsUnswitched(s)
         /\ \A jobs : Meta(m)!Opened(jobs) <=> Store(S, Ch)!Opened(jobs)
         /\ Meta(m)!IdleJob = Store(S, Ch)!IdleJob
         /\ \A at, ch : Meta(m)!Job(at, ch) = Store(S, Ch)!Job(at, ch)
         /\ \A s, at, ch : Meta(m)!Start(s, at, ch) <=> Store(S, Ch)!Start(s, at, ch)
         /\ \A s, at : Meta(m)!Go(s, at) <=> Store(S, Ch)!Go(s, at)
         /\ \A s, at, acc, was :
              Meta(m)!Take(s, at, acc, was) <=> Store(S, Ch)!Take(s, at, acc, was)
         /\ \A s : Meta(m)!End(s) <=> Store(S, Ch)!End(s)
         /\ Meta(m)!ConnectorInit <=> Store(S, Ch)!ConnectorInit
         /\ Meta(m)!StatusIsConnection <=> Store(S, Ch)!StatusIsConnection
<1>1. \A at, ch : Meta(m)!Job(at, ch) = Store(S, Ch)!Job(at, ch)
  BY DEF Meta!Job, Store!Job
<1>2. Meta(m)!IdleJob = Store(S, Ch)!IdleJob
  BY <1>1 DEF Meta!IdleJob, Store!IdleJob
<1>3. \A j : Meta(m)!Return(j) = Store(S, Ch)!Return(j)
  BY <1>2 DEF Meta!Return, Store!Return
<1>17. \A s : Meta(m)!Returns(s) <=> Store(S, Ch)!Returns(s)
  BY <1>3 DEF Meta!Returns, Store!Returns
<1>18. \A s : Meta(m)!ReturnsUnswitched(s) <=> Store(S, Ch)!ReturnsUnswitched(s)
  BY <1>3, Zenon DEF Meta!ReturnsUnswitched, Store!ReturnsUnswitched
<1>4. \A ch, jobs : Meta(m)!EmitChange(ch, jobs) <=> Store(S, Ch)!EmitChange(ch, jobs)
  BY <1>3 DEF Meta!EmitChange, Store!EmitChange, OfMeta
<1>5. \A ch, acc : Meta(m)!EmitConnect(ch, acc) <=> Store(S, Ch)!EmitConnect(ch, acc)
  BY DEF Meta!EmitConnect, Store!EmitConnect, Meta!Adopt, Store!Adopt, Meta!store,
         Store!store
<1>6. \A ch, acc : Meta(m)!Stored(ch, acc) <=> Store(S, Ch)!Stored(ch, acc)
  BY DEF Meta!Stored, Store!Stored
<1>7. Meta(m)!EmitDisconnect <=> Store(S, Ch)!EmitDisconnect
  BY DEF Meta!EmitDisconnect, Store!EmitDisconnect, Meta!store, Store!store
<1>8. Meta(m)!Removed <=> Store(S, Ch)!Removed
  BY DEF Meta!Removed, Store!Removed
<1>9. Meta(m)!Failed = Store(S, Ch)!Failed
  BY DEF Meta!Failed, Store!Failed
<1>10. \A jobs : Meta(m)!Opened(jobs) <=> Store(S, Ch)!Opened(jobs)
  BY <1>2 DEF Meta!Opened, Store!Opened, OfMeta
<1>11. \A s, at, ch : Meta(m)!Start(s, at, ch) <=> Store(S, Ch)!Start(s, at, ch)
  BY <1>1 DEF Meta!Start, Store!Start, Meta!Turn, Store!Turn, Meta!InFlight,
              Store!InFlight, OfMeta
<1>12. \A s, at : Meta(m)!Go(s, at) <=> Store(S, Ch)!Go(s, at)
  BY DEF Meta!Go, Store!Go
<1>13. \A s : Meta(m)!End(s) <=> Store(S, Ch)!End(s)
  BY <1>2 DEF Meta!End, Store!End
<1>14. Meta(m)!ConnectorInit <=> Store(S, Ch)!ConnectorInit
  BY <1>2 DEF Meta!ConnectorInit, Store!ConnectorInit, OfMeta
<1>15. \A s, at, acc, was :
         Meta(m)!Take(s, at, acc, was) <=> Store(S, Ch)!Take(s, at, acc, was)
  BY DEF Meta!Take, Store!Take
<1>16. Meta(m)!StatusIsConnection <=> Store(S, Ch)!StatusIsConnection
  BY DEF Meta!StatusIsConnection, Store!StatusIsConnection, Meta!Calm, Store!Calm,
         Meta!InFlight, Store!InFlight, OfMeta
<1> QED BY <1>1, <1>2, <1>3, <1>4, <1>5, <1>6, <1>7, <1>8, <1>9, <1>10, <1>11, <1>12, <1>13,
           <1>14, <1>15, <1>16, <1>17, <1>18

\* ... and the invariant.
InMeta(m, S, Ch) == OfMeta(m, S, Ch) /\ WalletInv(S, Ch)

\* connect() begins, with nobody connected.
LEMMA MetaConnect ==
  ASSUME NEW m, NEW S, NEW Ch, InMeta(m, S, Ch), NEW s \in S, NEW ch \in Ch \cup {None},
         Meta(m)!Connect(s, ch)
  PROVE  WalletInv(S, Ch)'
<1>1. /\ Meta(m)!Start(s, "connect.prompt", ch) /\ link' = None /\ status' = "connecting"
      /\ chain' = chain /\ granted' = granted
  BY DEF Meta!Connect, Meta!store
<1>2. StoreInv(S, Ch)'
  BY <1>1, MetaStore, ConnectStarts DEF InMeta, OfMeta, WalletInv, ConnectPlaces, Places
<1> QED BY <1>1, <1>2 DEF InMeta, WalletInv

\* The user rejects: the status is settled.
LEMMA MetaConnectReject ==
  ASSUME NEW m, NEW S, NEW Ch, InMeta(m, S, Ch), NEW s \in S, Meta(m)!ConnectReject(s)
  PROVE  WalletInv(S, Ch)'
<1>1. /\ Meta(m)!End(s) /\ link' = link /\ status' = Meta(m)!Failed
      /\ chain' = chain /\ granted' = granted
  BY DEF Meta!ConnectReject, Meta!Fail, Meta!store
<1>2. StoreInv(S, Ch)'
  BY <1>1, MetaStore, EndSettles DEF InMeta, OfMeta, WalletInv
<1> QED BY <1>1, <1>2 DEF InMeta, WalletInv

\* The connection is stored, and the status settled.
LEMMA MetaConnected ==
  ASSUME NEW m, NEW S, NEW Ch, InMeta(m, S, Ch), NEW s \in S, NEW ch \in Ch \cup {None},
         NEW acc \in BOOLEAN, Meta(m)!Connected(s, ch, acc)
  PROVE  StoreInv(S, Ch)'
<1>1. Meta(m)!End(s) /\ Meta(m)!Stored(ch, acc)
  BY DEF Meta!Connected
<1> QED BY <1>1, MetaStore, EndSettles DEF InMeta, OfMeta, WalletInv

\* The accounts are shared.
LEMMA MetaConnectAccept ==
  ASSUME NEW m, NEW S, NEW Ch, InMeta(m, S, Ch), NEW s \in S, Meta(m)!ConnectAccept(s)
  PROVE  WalletInv(S, Ch)'
<1>1. chain' = chain /\ granted' \in BOOLEAN
  BY DEF Meta!ConnectAccept, Meta!WithAccounts, Meta!Connected
<1>2. CASE job[s].chain \in {None, chain}
  <2>1. PICK acc \in BOOLEAN : Meta(m)!Connected(s, chain, acc)
    BY <1>2 DEF Meta!ConnectAccept, Meta!WithAccounts
  <2>2. StoreInv(S, Ch)'
    BY <2>1, MetaConnected DEF InMeta, WalletInv
  <2> QED BY <1>1, <2>2 DEF InMeta, WalletInv
<1>3. CASE job[s].chain \notin {None, chain}
  <2>1. PICK acc \in BOOLEAN :
          Meta(m)!Take(s, "switch.wallet", acc, chain) /\ link' = link /\ status' = status
    BY <1>3 DEF Meta!ConnectAccept, Meta!WithAccounts, Meta!store
  <2>2. job[s].chain \in Ch
    BY <1>3 DEF InMeta, WalletInv, StoreInv, Jobs, JobOK, JobSet
  <2>3. StoreInv(S, Ch)'
    BY <2>1, <2>2, MetaStore, TakeKeeps
    DEF InMeta, OfMeta, WalletInv, Told, StoreInv, Places, SwitchPlaces, Apart
  <2> QED BY <1>1, <2>3 DEF InMeta, WalletInv
<1> QED BY <1>2, <1>3

\* The switch inside connect returned.
LEMMA MetaConnectStore ==
  ASSUME NEW m, NEW S, NEW Ch, InMeta(m, S, Ch), NEW s \in S, Meta(m)!ConnectStore(s)
  PROVE  WalletInv(S, Ch)'
<1>1. job[s].chain \in Ch \cup {None} /\ job[s].acc \in BOOLEAN
  BY DEF InMeta, WalletInv, StoreInv, Jobs, JobOK, JobSet
<1>2. StoreInv(S, Ch)'
  BY <1>1, MetaConnected DEF Meta!ConnectStore
<1>3. chain' = chain /\ granted' = granted
  BY DEF Meta!ConnectStore, Meta!Connected, Meta!store
<1> QED BY <1>2, <1>3 DEF InMeta, WalletInv

\* A page load: nobody is connected, a reconnect may be in flight.
LEMMA MetaLoad ==
  ASSUME NEW m, NEW S, NEW Ch, InMeta(m, S, Ch), Meta(m)!Load
  PROVE  WalletInv(S, Ch)'
<1>1. PICK s \in S :
        Meta(m)!Opened([x \in S |-> IF x = s THEN Meta(m)!Job("reconnect.accounts", None)
                                  ELSE Meta(m)!IdleJob])
  BY DEF Meta!Load, InMeta, OfMeta
<1>2. chain' = chain /\ granted' = granted
  BY DEF Meta!Load, Meta!store
<1> DEFINE j == Store(S, Ch)!Job("reconnect.accounts", None)
<1>3. Store(S, Ch)!Opened([x \in S |-> IF x = s THEN j ELSE Store(S, Ch)!IdleJob])
  <2>1. [x \in S |-> IF x = s THEN Meta(m)!Job("reconnect.accounts", None) ELSE Meta(m)!IdleJob]
          = [x \in S |-> IF x = s THEN j ELSE Store(S, Ch)!IdleJob]
    BY MetaStore DEF InMeta
  <2> QED BY <1>1, <2>1, MetaStore DEF InMeta
<1>4. j \in JobSet(Ch) /\ j.at = "reconnect.accounts"
  BY NewJob DEF Places, ConnectPlaces
<1>5. JobOK(j, Ch) /\ Works(j)
  BY <1>4 DEF JobOK, Works, ConnectPlaces, SwitchPlaces
<1> HIDE DEF j
<1>6. StoreInv(S, Ch)'
  BY <1>3, <1>5, OpenedKeeps
<1> QED BY <1>2, <1>6 DEF InMeta, WalletInv

\* isAuthorized: a reconnect that ends leaves no "connecting" behind.
LEMMA MetaAuthorized ==
  ASSUME NEW m, NEW S, NEW Ch, InMeta(m, S, Ch), NEW s \in S, Meta(m)!Authorized(s)
  PROVE  WalletInv(S, Ch)'
<1>1. chain' = chain /\ granted' = granted
  BY DEF Meta!Authorized, Meta!store
<1>2. CASE granted
  <2>1. PICK at \in ConnectPlaces : Meta(m)!Go(s, at) /\ link' = link /\ status' = status
    BY <1>2 DEF Meta!Authorized, ConnectPlaces
  <2>2. StoreInv(S, Ch)'
    BY <2>1, MetaStore, GoKeeps DEF InMeta, OfMeta, WalletInv, Told, StoreInv, Places
  <2> QED BY <1>1, <2>2 DEF InMeta, WalletInv
<1>3. CASE ~granted
  <2>1. /\ Meta(m)!End(s)
        /\ IF status = "connecting" THEN link' = None /\ status' = "disconnected"
           ELSE link' = link /\ status' = status
    BY <1>3 DEF Meta!Authorized
  <2>2. Settles(Ch)
    BY <2>1 DEF InMeta, WalletInv, StoreInv, Truthful, Settles, Settled
  <2>3. StoreInv(S, Ch)'
    BY <2>1, <2>2, MetaStore, EndSettles DEF InMeta, OfMeta, WalletInv
  <2> QED BY <1>1, <2>3 DEF InMeta, WalletInv
<1> QED BY <1>2, <1>3

\* A reconnect has the accounts.
LEMMA MetaReconnected ==
  ASSUME NEW m, NEW S, NEW Ch, InMeta(m, S, Ch), NEW s \in S, Meta(m)!Reconnected(s)
  PROVE  WalletInv(S, Ch)'
<1>1. chain' = chain /\ granted' = granted
  BY DEF Meta!Reconnected, Meta!Connected
<1>2. CASE granted
  <2>1. Meta(m)!Connected(s, chain, granted)
    BY <1>2 DEF Meta!Reconnected
  <2>2. StoreInv(S, Ch)'
    BY <2>1, MetaConnected DEF InMeta, WalletInv
  <2> QED BY <1>1, <2>2 DEF InMeta, WalletInv
<1>3. CASE ~granted
  <2>1. Meta(m)!Go(s, "connect.prompt") /\ link' = link /\ status' = status
    BY <1>3 DEF Meta!Reconnected, Meta!store
  <2>2. StoreInv(S, Ch)'
    BY <2>1, MetaStore, GoKeeps
    DEF InMeta, OfMeta, WalletInv, Told, StoreInv, Places, ConnectPlaces
  <2> QED BY <1>1, <2>2 DEF InMeta, WalletInv
<1> QED BY <1>2, <1>3

\* disconnect() begins.
LEMMA MetaDisconnect ==
  ASSUME NEW m, NEW S, NEW Ch, InMeta(m, S, Ch), NEW s \in S, Meta(m)!Disconnect(s)
  PROVE  WalletInv(S, Ch)'
<1>1. /\ Meta(m)!Start(s, "disconnect.wallet", None) /\ link' = link /\ status' = status
      /\ chain' = chain /\ granted' = granted
  BY DEF Meta!Disconnect, Meta!store
<1>2. StoreInv(S, Ch)'
  BY <1>1, MetaStore, StartKeeps
  DEF InMeta, OfMeta, WalletInv, Told, StoreInv, Places, SwitchPlaces, OtherPlaces
<1> QED BY <1>1, <1>2 DEF InMeta, WalletInv

\* disconnect() removes the connection.
LEMMA MetaDisconnectDone ==
  ASSUME NEW m, NEW S, NEW Ch, InMeta(m, S, Ch), NEW s \in S, Meta(m)!DisconnectDone(s)
  PROVE  WalletInv(S, Ch)'
<1>1. /\ Meta(m)!End(s) /\ Meta(m)!Removed
      /\ chain' = chain /\ granted' \in BOOLEAN
  BY DEF Meta!DisconnectDone, Meta!store
<1>2. StoreInv(S, Ch)'
  BY <1>1, MetaStore, EndSettles DEF InMeta, OfMeta, WalletInv
<1> QED BY <1>1, <1>2 DEF InMeta, WalletInv

\* disconnect() fails: the connection stays, and its status.
LEMMA MetaDisconnectFail ==
  ASSUME NEW m, NEW S, NEW Ch, InMeta(m, S, Ch), NEW s \in S, Meta(m)!DisconnectFail(s)
  PROVE  WalletInv(S, Ch)'
<1>1. /\ Meta(m)!End(s) /\ job[s].at = "disconnect.wallet" /\ link' = link /\ status' = status
      /\ chain' = chain /\ granted' = granted
  BY DEF Meta!DisconnectFail, Meta!At, Meta!store
<1>2. Told(Ch) /\ ~ Works(job[s])
  BY <1>1 DEF InMeta, WalletInv, Told, StoreInv, Works, ConnectPlaces, SwitchPlaces
<1>3. StoreInv(S, Ch)'
  BY <1>1, <1>2, MetaStore, EndKeeps DEF InMeta, OfMeta, WalletInv
<1> QED BY <1>1, <1>3 DEF InMeta, WalletInv

\* switchChain() begins.
LEMMA MetaSwitchChain ==
  ASSUME NEW m, NEW S, NEW Ch, InMeta(m, S, Ch), NEW s \in S, NEW ch \in Ch,
         Meta(m)!SwitchChain(s, ch)
  PROVE  WalletInv(S, Ch)'
<1>1. /\ Meta(m)!Start(s, "switch.wallet", ch) /\ link' = link /\ status' = status
      /\ chain' = chain /\ granted' = granted
  BY DEF Meta!SwitchChain, Meta!store
<1>2. StoreInv(S, Ch)'
  BY <1>1, MetaStore, StartKeeps
  DEF InMeta, OfMeta, WalletInv, Told, StoreInv, Places, SwitchPlaces, OtherPlaces
<1> QED BY <1>1, <1>2 DEF InMeta, WalletInv

\* A rejected switch: a connect it is part of fails with it.
LEMMA MetaSwitchReject ==
  ASSUME NEW m, NEW S, NEW Ch, InMeta(m, S, Ch), NEW s \in S, Meta(m)!SwitchReject(s)
  PROVE  WalletInv(S, Ch)'
<1>1. /\ Meta(m)!End(s) /\ link' = link /\ chain' = chain /\ granted' = granted
      /\ status' = Meta(m)!Failed \/ (status' = status /\ job[s].was = None)
      /\ job[s].at \in SwitchPlaces
  BY DEF Meta!SwitchReject, Meta!At, SwitchPlaces, Meta!Fail, Meta!store
<1>2. CASE status' = Meta(m)!Failed
  BY <1>1, <1>2, MetaStore, EndSettles DEF InMeta, OfMeta, WalletInv
<1>3. CASE status' = status /\ job[s].was = None
  <2>1. ~ Works(job[s]) /\ Told(Ch)
    BY <1>1, <1>3 DEF Works, ConnectPlaces, SwitchPlaces, Told, InMeta, WalletInv, StoreInv
  <2> QED BY <1>1, <2>1, MetaStore, EndKeeps DEF InMeta, OfMeta, WalletInv
<1> QED BY <1>1, <1>2, <1>3 DEF InMeta, WalletInv

\* The wallet answers the switch, with an event or without.
LEMMA MetaSwitchAnswer ==
  ASSUME NEW m, NEW S, NEW Ch, InMeta(m, S, Ch), NEW s \in S, Meta(m)!SwitchAnswer(s)
  PROVE  WalletInv(S, Ch)'
<1>1. /\ granted' = granted /\ job[s].at = "switch.wallet"
      /\ chain' \in {job[s].chain, chain}
      /\ \/ Meta(m)!EmitChange(job[s].chain, [job EXCEPT ![s].at = "switch.confirm"])
         \/ Meta(m)!Go(s, "switch.confirm") /\ link' = link /\ status' = status
  BY DEF Meta!SwitchAnswer, Meta!At, Meta!store
<1>2. job[s].chain \in Ch
  BY <1>1 DEF InMeta, WalletInv, StoreInv, Jobs, JobOK, SwitchPlaces
<1>3. CASE Meta(m)!EmitChange(job[s].chain, [job EXCEPT ![s].at = "switch.confirm"])
  <2>1. StoreInv(S, Ch)'
    BY <1>1, <1>2, <1>3, MetaStore, ChangeGoes, ZenonT(60)
    DEF InMeta, OfMeta, WalletInv, SwitchPlaces
  <2> QED BY <1>1, <1>2, <2>1 DEF InMeta, WalletInv
<1>4. CASE Meta(m)!Go(s, "switch.confirm") /\ link' = link /\ status' = status
  <2>1. StoreInv(S, Ch)'
    BY <1>1, <1>4, MetaStore, GoKeeps
    DEF InMeta, OfMeta, WalletInv, Told, StoreInv, SwitchPlaces, Places
  <2> QED BY <1>1, <1>2, <2>1 DEF InMeta, WalletInv
<1> QED BY <1>1, <1>3, <1>4

\* The connector announces the chain itself.
LEMMA MetaSwitchConfirm ==
  ASSUME NEW m, NEW S, NEW Ch, InMeta(m, S, Ch), NEW s \in S, Meta(m)!SwitchConfirm(s)
  PROVE  WalletInv(S, Ch)'
<1>1. /\ chain' = chain /\ granted' = granted /\ job[s].at = "switch.confirm"
      /\ Meta(m)!EmitChange(chain, [job EXCEPT ![s] = Meta(m)!Return(job[s])])
  BY DEF Meta!SwitchConfirm, Meta!At
<1>2. StoreInv(S, Ch)'
  BY <1>1, MetaStore, ChangeReturns DEF InMeta, OfMeta, WalletInv, SwitchPlaces
<1> QED BY <1>1, <1>2 DEF InMeta, WalletInv

\* A switch that failed returns.
LEMMA MetaSwitchFail ==
  ASSUME NEW m, NEW S, NEW Ch, InMeta(m, S, Ch), NEW s \in S, Meta(m)!SwitchFail(s)
  PROVE  WalletInv(S, Ch)'
<1>1. /\ Meta(m)!ReturnsUnswitched(s) /\ link' = link /\ status' = status
      /\ chain' = chain /\ granted' = granted
      /\ job[s].at \in SwitchPlaces
  BY DEF Meta!SwitchFail, Meta!At, SwitchPlaces, Meta!store
<1>2. StoreInv(S, Ch)'
  BY <1>1, MetaStore, SwitchReturns DEF InMeta, OfMeta, WalletInv, Told, StoreInv
<1> QED BY <1>1, <1>2 DEF InMeta, WalletInv

\* chainChanged.
LEMMA MetaWalletChain ==
  ASSUME NEW m, NEW S, NEW Ch, InMeta(m, S, Ch), NEW ch \in Ch, Meta(m)!WalletChain(ch)
  PROVE  WalletInv(S, Ch)'
<1>1. /\ chain' = ch /\ granted' = granted
      /\ Meta(m)!EmitChange(ch, job) \/ (job' = job /\ link' = link /\ status' = status)
  BY DEF Meta!WalletChain, Meta!store
<1>2. StoreInv(S, Ch)'
  BY <1>1, MetaStore, ChangeComes, NothingMoves DEF InMeta, OfMeta, WalletInv, Told, StoreInv
<1> QED BY <1>1, <1>2 DEF InMeta, WalletInv

\* accountsChanged without accounts.
LEMMA MetaWalletLock ==
  ASSUME NEW m, NEW S, NEW Ch, InMeta(m, S, Ch), Meta(m)!WalletLock
  PROVE  WalletInv(S, Ch)'
<1>1. /\ chain' = chain /\ granted' \in BOOLEAN /\ job' = job
      /\ Meta(m)!EmitDisconnect \/ (link' = link /\ status' = status)
  BY DEF Meta!WalletLock, Meta!OnDisconnect, Meta!store
<1>2. Told(Ch)
  BY <1>1, MetaStore, HandlersTell DEF InMeta, OfMeta, WalletInv, Told, StoreInv
<1>3. StoreInv(S, Ch)'
  BY <1>1, <1>2, NothingMoves DEF InMeta, WalletInv
<1> QED BY <1>1, <1>3 DEF InMeta, WalletInv

\* accountsChanged.
LEMMA MetaWalletAccounts ==
  ASSUME NEW m, NEW S, NEW Ch, InMeta(m, S, Ch), NEW s \in S, Meta(m)!WalletAccounts(s)
  PROVE  WalletInv(S, Ch)'
<1>1. /\ chain' = chain /\ granted' \in BOOLEAN /\ status' = status
      /\ \/ Meta(m)!Start(s, "onConnect", chain) /\ link' = link
         \/ /\ job' = job
            /\ \/ link' = link
               \/ link # None /\ \E acc \in BOOLEAN : link' = [link EXCEPT !.acc = acc]
  BY DEF Meta!WalletAccounts
<1>2. Told(Ch)
  BY <1>1, AccountsTell DEF InMeta, OfMeta, WalletInv, Told, StoreInv, Meta!Start
<1>3. StoreInv(S, Ch)'
  BY <1>1, <1>2, MetaStore, StartKeeps, NothingMoves
  DEF InMeta, OfMeta, WalletInv, Places, OtherPlaces, SwitchPlaces
<1> QED BY <1>1, <1>3 DEF InMeta, WalletInv

\* The wallet connects by itself.
LEMMA MetaWalletConnects ==
  ASSUME NEW m, NEW S, NEW Ch, InMeta(m, S, Ch), NEW s \in S, Meta(m)!WalletConnects(s)
  PROVE  WalletInv(S, Ch)'
<1>1. /\ Meta(m)!Start(s, "onConnect", chain) /\ link' = link /\ status' = status
      /\ chain' = chain /\ granted' \in BOOLEAN
  BY DEF Meta!WalletConnects, Meta!store
<1>2. StoreInv(S, Ch)'
  BY <1>1, MetaStore, StartKeeps
  DEF InMeta, OfMeta, WalletInv, Told, StoreInv, Places, SwitchPlaces, OtherPlaces
<1> QED BY <1>1, <1>2 DEF InMeta, WalletInv

\* onConnect has the accounts.
LEMMA MetaOnConnect ==
  ASSUME NEW m, NEW S, NEW Ch, InMeta(m, S, Ch), NEW s \in S, Meta(m)!OnConnect(s)
  PROVE  WalletInv(S, Ch)'
<1>1. /\ Meta(m)!End(s) /\ job[s].at = "onConnect" /\ chain' = chain /\ granted' = granted
      /\ Meta(m)!EmitConnect(job[s].chain, granted) \/ (link' = link /\ status' = status)
  BY DEF Meta!OnConnect, Meta!At, Meta!store
<1>2. job[s].chain \in Ch \cup {None} /\ granted \in BOOLEAN
  BY DEF InMeta, WalletInv, StoreInv, Jobs, JobOK, JobSet
<1>3. Told(Ch)
  BY <1>1, <1>2, MetaStore, HandlersTell DEF InMeta, OfMeta, WalletInv, Told, StoreInv
<1>4. ~ Works(job[s])
  BY <1>1 DEF Works, ConnectPlaces, SwitchPlaces
<1>5. StoreInv(S, Ch)'
  BY <1>1, <1>3, <1>4, MetaStore, EndKeeps DEF InMeta, OfMeta, WalletInv
<1> QED BY <1>1, <1>5 DEF InMeta, WalletInv

\* The wallet ends the connection.
LEMMA MetaWalletDisconnects ==
  ASSUME NEW m, NEW S, NEW Ch, InMeta(m, S, Ch), Meta(m)!WalletDisconnects
  PROVE  WalletInv(S, Ch)'
<1>1. /\ chain' = chain /\ granted' \in BOOLEAN /\ job' = job
      /\ Meta(m)!EmitDisconnect \/ (link' = link /\ status' = status)
  BY DEF Meta!WalletDisconnects, Meta!OnDisconnect, Meta!store
<1>2. Told(Ch)
  BY <1>1, MetaStore, HandlersTell DEF InMeta, OfMeta, WalletInv, Told, StoreInv
<1>3. StoreInv(S, Ch)'
  BY <1>1, <1>2, NothingMoves DEF InMeta, WalletInv
<1> QED BY <1>1, <1>3 DEF InMeta, WalletInv

\* The provider asks for the accounts before it believes a disconnect.
LEMMA MetaWalletBlinks ==
  ASSUME NEW m, NEW S, NEW Ch, InMeta(m, S, Ch), NEW s \in S, Meta(m)!WalletBlinks(s)
  PROVE  WalletInv(S, Ch)'
<1>1. /\ Meta(m)!Start(s, "onDisconnect", None) /\ link' = link /\ status' = status
      /\ chain' = chain /\ granted' = granted
  BY DEF Meta!WalletBlinks, Meta!store
<1>2. StoreInv(S, Ch)'
  BY <1>1, MetaStore, StartKeeps
  DEF InMeta, OfMeta, WalletInv, Told, StoreInv, Places, SwitchPlaces, OtherPlaces
<1> QED BY <1>1, <1>2 DEF InMeta, WalletInv

\* The accounts tell whether it did.
LEMMA MetaOnDisconnect1013 ==
  ASSUME NEW m, NEW S, NEW Ch, InMeta(m, S, Ch), NEW s \in S, Meta(m)!OnDisconnect1013(s)
  PROVE  WalletInv(S, Ch)'
<1>1. /\ Meta(m)!End(s) /\ chain' = chain /\ granted' = granted /\ job[s].at = "onDisconnect"
      /\ Meta(m)!EmitDisconnect \/ (link' = link /\ status' = status)
  BY DEF Meta!OnDisconnect1013, Meta!OnDisconnect, Meta!At, Meta!store
<1>2. Told(Ch) /\ ~ Works(job[s])
  BY <1>1, MetaStore, HandlersTell
  DEF InMeta, OfMeta, WalletInv, Told, StoreInv, Works, ConnectPlaces, SwitchPlaces
<1>3. StoreInv(S, Ch)'
  BY <1>1, <1>2, MetaStore, EndKeeps DEF InMeta, OfMeta, WalletInv
<1> QED BY <1>1, <1>3 DEF InMeta, WalletInv

\* Every step.
LEMMA MetaNext ==
  ASSUME NEW m, NEW S, NEW Ch, InMeta(m, S, Ch), Meta(m)!Next
  PROVE  WalletInv(S, Ch)'
<1>1. ASSUME NEW s \in S, Meta(m)!Answer(s)
      PROVE  WalletInv(S, Ch)'
  BY <1>1, MetaConnectReject, MetaConnectAccept, MetaAuthorized, MetaReconnected,
     MetaDisconnectDone, MetaDisconnectFail, MetaSwitchReject, MetaSwitchAnswer,
     MetaSwitchConfirm, MetaSwitchFail, MetaOnConnect, MetaOnDisconnect1013
  DEF Meta!Answer
<1>2. ASSUME NEW s \in S, Meta(m)!Call(s)
      PROVE  WalletInv(S, Ch)'
  BY <1>2, MetaConnect, MetaDisconnect, MetaSwitchChain
  DEF Meta!Call, InMeta, OfMeta
<1>3. ASSUME Meta(m)!Wallet
      PROVE  WalletInv(S, Ch)'
  BY <1>3, MetaWalletChain, MetaWalletLock, MetaWalletAccounts, MetaWalletConnects,
     MetaWalletBlinks, MetaWalletDisconnects
  DEF Meta!Wallet, InMeta, OfMeta
<1> QED BY <1>1, <1>2, <1>3, MetaConnectStore, MetaLoad
        DEF Meta!Next, InMeta, OfMeta

-----------------------------------------------------------------------------
(* WalletConnect. *)

\* The chains of the provider are those of the settings.
RelayInv(S, Ch) == StoreInv(S, Ch) /\ chain \in Ch /\ session \subseteq Ch /\ configured \subseteq Ch

\* The settings, named.
OfRelay(r, S, Ch) == S = Relays[r].slots /\ Ch = Relays[r].chains /\ Apart(Ch)
                   /\ Relays[r].pages \subseteq SUBSET Ch

\* What it has of Connector is the same for every connector.
LEMMA RelayStore ==
  ASSUME NEW r, NEW S, NEW Ch, OfRelay(r, S, Ch)
  PROVE  /\ \A ch, jobs : Relay(r)!EmitChange(ch, jobs) <=> Store(S, Ch)!EmitChange(ch, jobs)
         /\ \A ch, acc : Relay(r)!EmitConnect(ch, acc) <=> Store(S, Ch)!EmitConnect(ch, acc)
         /\ \A ch, acc : Relay(r)!Stored(ch, acc) <=> Store(S, Ch)!Stored(ch, acc)
         /\ Relay(r)!EmitDisconnect <=> Store(S, Ch)!EmitDisconnect
         /\ Relay(r)!Removed <=> Store(S, Ch)!Removed
         /\ Relay(r)!Failed = Store(S, Ch)!Failed
         /\ \A j : Relay(r)!Return(j) = Store(S, Ch)!Return(j)
         /\ \A s : Relay(r)!Returns(s) <=> Store(S, Ch)!Returns(s)
         /\ \A s : Relay(r)!ReturnsUnswitched(s) <=> Store(S, Ch)!ReturnsUnswitched(s)
         /\ \A jobs : Relay(r)!Opened(jobs) <=> Store(S, Ch)!Opened(jobs)
         /\ Relay(r)!IdleJob = Store(S, Ch)!IdleJob
         /\ \A at, ch : Relay(r)!Job(at, ch) = Store(S, Ch)!Job(at, ch)
         /\ \A s, at, ch : Relay(r)!Start(s, at, ch) <=> Store(S, Ch)!Start(s, at, ch)
         /\ \A s, at : Relay(r)!Go(s, at) <=> Store(S, Ch)!Go(s, at)
         /\ \A s, at, acc, was :
              Relay(r)!Take(s, at, acc, was) <=> Store(S, Ch)!Take(s, at, acc, was)
         /\ \A s : Relay(r)!End(s) <=> Store(S, Ch)!End(s)
         /\ Relay(r)!ConnectorInit <=> Store(S, Ch)!ConnectorInit
         /\ Relay(r)!StatusIsConnection <=> Store(S, Ch)!StatusIsConnection
<1>1. \A at, ch : Relay(r)!Job(at, ch) = Store(S, Ch)!Job(at, ch)
  BY DEF Relay!Job, Store!Job
<1>2. Relay(r)!IdleJob = Store(S, Ch)!IdleJob
  BY <1>1 DEF Relay!IdleJob, Store!IdleJob
<1>3. \A j : Relay(r)!Return(j) = Store(S, Ch)!Return(j)
  BY <1>2 DEF Relay!Return, Store!Return
<1>17. \A s : Relay(r)!Returns(s) <=> Store(S, Ch)!Returns(s)
  BY <1>3 DEF Relay!Returns, Store!Returns
<1>18. \A s : Relay(r)!ReturnsUnswitched(s) <=> Store(S, Ch)!ReturnsUnswitched(s)
  BY <1>3, Zenon DEF Relay!ReturnsUnswitched, Store!ReturnsUnswitched
<1>4. \A ch, jobs : Relay(r)!EmitChange(ch, jobs) <=> Store(S, Ch)!EmitChange(ch, jobs)
  BY <1>3 DEF Relay!EmitChange, Store!EmitChange, OfRelay
<1>5. \A ch, acc : Relay(r)!EmitConnect(ch, acc) <=> Store(S, Ch)!EmitConnect(ch, acc)
  BY DEF Relay!EmitConnect, Store!EmitConnect, Relay!Adopt, Store!Adopt, Relay!store,
         Store!store
<1>6. \A ch, acc : Relay(r)!Stored(ch, acc) <=> Store(S, Ch)!Stored(ch, acc)
  BY DEF Relay!Stored, Store!Stored
<1>7. Relay(r)!EmitDisconnect <=> Store(S, Ch)!EmitDisconnect
  BY DEF Relay!EmitDisconnect, Store!EmitDisconnect, Relay!store, Store!store
<1>8. Relay(r)!Removed <=> Store(S, Ch)!Removed
  BY DEF Relay!Removed, Store!Removed
<1>9. Relay(r)!Failed = Store(S, Ch)!Failed
  BY DEF Relay!Failed, Store!Failed
<1>10. \A jobs : Relay(r)!Opened(jobs) <=> Store(S, Ch)!Opened(jobs)
  BY <1>2 DEF Relay!Opened, Store!Opened, OfRelay
<1>11. \A s, at, ch : Relay(r)!Start(s, at, ch) <=> Store(S, Ch)!Start(s, at, ch)
  BY <1>1 DEF Relay!Start, Store!Start, Relay!Turn, Store!Turn, Relay!InFlight,
              Store!InFlight, OfRelay
<1>12. \A s, at : Relay(r)!Go(s, at) <=> Store(S, Ch)!Go(s, at)
  BY DEF Relay!Go, Store!Go
<1>13. \A s : Relay(r)!End(s) <=> Store(S, Ch)!End(s)
  BY <1>2 DEF Relay!End, Store!End
<1>14. Relay(r)!ConnectorInit <=> Store(S, Ch)!ConnectorInit
  BY <1>2 DEF Relay!ConnectorInit, Store!ConnectorInit, OfRelay
<1>15. \A s, at, acc, was :
         Relay(r)!Take(s, at, acc, was) <=> Store(S, Ch)!Take(s, at, acc, was)
  BY DEF Relay!Take, Store!Take
<1>16. Relay(r)!StatusIsConnection <=> Store(S, Ch)!StatusIsConnection
  BY DEF Relay!StatusIsConnection, Store!StatusIsConnection, Relay!Calm, Store!Calm,
         Relay!InFlight, Store!InFlight, OfRelay
<1> QED BY <1>1, <1>2, <1>3, <1>4, <1>5, <1>6, <1>7, <1>8, <1>9, <1>10, <1>11, <1>12, <1>13,
           <1>14, <1>15, <1>16, <1>17, <1>18

\* ... and the invariant.
InRelay(r, S, Ch) == OfRelay(r, S, Ch) /\ RelayInv(S, Ch)

\* connect() begins, with nobody connected.
LEMMA RelayConnect ==
  ASSUME NEW r, NEW S, NEW Ch, InRelay(r, S, Ch), NEW s \in S, NEW ch \in Ch \cup {None},
         Relay(r)!Connect(s, ch)
  PROVE  RelayInv(S, Ch)'
<1>1. /\ Relay(r)!Start(s, "connect.begin", ch) /\ link' = None /\ status' = "connecting"
      /\ chain' = chain /\ session' = session /\ configured' = configured
  BY DEF Relay!Connect, Relay!store, Relay!provider
<1>2. StoreInv(S, Ch)'
  BY <1>1, RelayStore, ConnectStarts DEF InRelay, OfRelay, RelayInv, ConnectPlaces, Places
<1> QED BY <1>1, <1>2 DEF InRelay, RelayInv

\* The connection is stored, and the status settled.
LEMMA RelayConnected ==
  ASSUME NEW r, NEW S, NEW Ch, InRelay(r, S, Ch), NEW s \in S, NEW ch \in Ch \cup {None},
         Relay(r)!Connected(s, ch)
  PROVE  StoreInv(S, Ch)'
<1>1. Relay(r)!End(s) /\ \E acc \in BOOLEAN : Relay(r)!Stored(ch, acc)
  BY DEF Relay!Connected
<1> QED BY <1>1, RelayStore, EndSettles DEF InRelay, OfRelay, RelayInv

\* Accounts are enabled: a connection, or a switch first.
LEMMA RelayProceed ==
  ASSUME NEW r, NEW S, NEW Ch, InRelay(r, S, Ch), NEW s \in S, NEW ch \in Ch,
         Relay(r)!Proceed(s, ch)
  PROVE  StoreInv(S, Ch)'
<1>1. CASE job[s].chain \in {None, ch}
  BY <1>1, RelayConnected DEF Relay!Proceed
<1>2. CASE job[s].chain \notin {None, ch}
  <2>1. Relay(r)!Take(s, "switch.wallet", job[s].acc, ch) /\ link' = link /\ status' = status
    BY <1>2 DEF Relay!Proceed, Relay!store
  <2>2. job[s].chain \in Ch /\ job[s].acc \in BOOLEAN
    BY <1>2 DEF InRelay, RelayInv, StoreInv, Jobs, JobOK, JobSet
  <2> QED BY <2>1, <2>2, RelayStore, TakeKeeps
          DEF InRelay, OfRelay, RelayInv, Told, StoreInv, Places, SwitchPlaces, Apart
<1> QED BY <1>1, <1>2

\* connect() looks at the session.
LEMMA RelayBegin ==
  ASSUME NEW r, NEW S, NEW Ch, InRelay(r, S, Ch), NEW s \in S, Relay(r)!Begin(s)
  PROVE  RelayInv(S, Ch)'
<1>1. chain' = chain /\ session' = session /\ configured' = configured /\ job[s].at = "connect.begin"
  BY DEF Relay!Begin, Relay!provider, Relay!At
<1>2. CASE Relay(r)!Proceed(s, chain)
  <2>1. StoreInv(S, Ch)'
    BY <1>2, RelayProceed DEF InRelay, RelayInv
  <2> QED BY <1>1, <2>1 DEF InRelay, RelayInv
<1>3. CASE /\ Relay(r)!Go(s, "connect.end") \/ Relay(r)!Go(s, "connect.pair")
           /\ link' = link /\ status' = status
  <2>1. StoreInv(S, Ch)'
    BY <1>3, RelayStore, GoKeeps
    DEF InRelay, OfRelay, RelayInv, Told, StoreInv, Places, ConnectPlaces
  <2> QED BY <1>1, <2>1 DEF InRelay, RelayInv
<1> QED BY <1>2, <1>3 DEF Relay!Begin, Relay!store

\* A stale session is over.
LEMMA RelayEndStale ==
  ASSUME NEW r, NEW S, NEW Ch, InRelay(r, S, Ch), NEW s \in S, Relay(r)!EndStale(s)
  PROVE  RelayInv(S, Ch)'
<1>1. /\ Relay(r)!Go(s, "connect.pair") /\ link' = link /\ status' = status
      /\ chain' = chain /\ session' = {} /\ configured' = configured
  BY DEF Relay!EndStale, Relay!store
<1>2. StoreInv(S, Ch)'
  BY <1>1, RelayStore, GoKeeps
  DEF InRelay, OfRelay, RelayInv, Told, StoreInv, Places, ConnectPlaces
<1> QED BY <1>1, <1>2 DEF InRelay, RelayInv

\* The user declines.
LEMMA RelayDecline ==
  ASSUME NEW r, NEW S, NEW Ch, InRelay(r, S, Ch), NEW s \in S, Relay(r)!Decline(s)
  PROVE  RelayInv(S, Ch)'
<1>1. /\ Relay(r)!End(s) /\ link' = link /\ status' = Relay(r)!Failed
      /\ chain' = chain /\ session' = session /\ configured' = configured
  BY DEF Relay!Decline, Relay!store, Relay!provider
<1>2. StoreInv(S, Ch)'
  BY <1>1, RelayStore, EndSettles DEF InRelay, OfRelay, RelayInv
<1> QED BY <1>1, <1>2 DEF InRelay, RelayInv

\* The user approves a session.
LEMMA RelayPair ==
  ASSUME NEW r, NEW S, NEW Ch, InRelay(r, S, Ch), NEW s \in S, Relay(r)!Pair(s)
  PROVE  RelayInv(S, Ch)'
<1>1. PICK ch \in Ch :
        Relay(r)!Proceed(s, ch) /\ chain' = ch /\ session' \subseteq Ch /\ configured' = configured
  BY DEF Relay!Pair, InRelay, RelayInv
<1>2. StoreInv(S, Ch)'
  BY <1>1, RelayProceed
<1> QED BY <1>1, <1>2 DEF InRelay, RelayInv

\* The switch inside connect returned.
LEMMA RelayConnectStore ==
  ASSUME NEW r, NEW S, NEW Ch, InRelay(r, S, Ch), NEW s \in S, Relay(r)!ConnectStore(s)
  PROVE  RelayInv(S, Ch)'
<1>1. job[s].chain \in Ch \cup {None}
  BY DEF InRelay, RelayInv, StoreInv, Jobs, JobOK, JobSet
<1>2. Relay(r)!Connected(s, job[s].chain) /\ chain' = chain /\ session' = session /\ configured' = configured
  BY DEF Relay!ConnectStore, Relay!provider
<1>3. StoreInv(S, Ch)'
  BY <1>1, <1>2, RelayConnected
<1> QED BY <1>2, <1>3 DEF InRelay, RelayInv

\* A page load: nobody is connected, a reconnect may be in flight.
LEMMA RelayLoad ==
  ASSUME NEW r, NEW S, NEW Ch, InRelay(r, S, Ch), NEW conf \in Relays[r].pages,
         Relay(r)!Load(conf)
  PROVE  RelayInv(S, Ch)'
<1>1. PICK s \in S :
        Relay(r)!Opened([x \in S |-> IF x = s THEN Relay(r)!Job("reconnect", None)
                                  ELSE Relay(r)!IdleJob])
  BY DEF Relay!Load, InRelay, OfRelay
<1>2. chain' = chain /\ session' = session /\ configured' = conf
  BY DEF Relay!Load, Relay!store, Relay!provider
<1> DEFINE j == Store(S, Ch)!Job("reconnect", None)
<1>3. Store(S, Ch)!Opened([x \in S |-> IF x = s THEN j ELSE Store(S, Ch)!IdleJob])
  <2>1. [x \in S |-> IF x = s THEN Relay(r)!Job("reconnect", None) ELSE Relay(r)!IdleJob]
          = [x \in S |-> IF x = s THEN j ELSE Store(S, Ch)!IdleJob]
    BY RelayStore DEF InRelay
  <2> QED BY <1>1, <2>1, RelayStore DEF InRelay
<1>4. j \in JobSet(Ch) /\ j.at = "reconnect"
  BY NewJob DEF Places, ConnectPlaces
<1>5. JobOK(j, Ch) /\ Works(j)
  BY <1>4 DEF JobOK, Works, ConnectPlaces, SwitchPlaces
<1> HIDE DEF j
<1>6. StoreInv(S, Ch)'
  BY <1>3, <1>5, OpenedKeeps
<1> QED BY <1>2, <1>6 DEF InRelay, OfRelay, RelayInv

\* A reconnect finds a session, or ends.
LEMMA RelayReconnect ==
  ASSUME NEW r, NEW S, NEW Ch, InRelay(r, S, Ch), NEW s \in S, Relay(r)!Reconnect(s)
  PROVE  RelayInv(S, Ch)'
<1>1. chain' = chain /\ session' \subseteq session /\ configured' = configured
  BY DEF Relay!Reconnect, Relay!provider
<1>2. CASE Relay(r)!Connected(s, chain)
  <2>1. StoreInv(S, Ch)'
    BY <1>2, RelayConnected DEF InRelay, RelayInv
  <2> QED BY <1>1, <2>1 DEF InRelay, RelayInv
<1>3. CASE Relay(r)!End(s) /\ link' = link /\ status' = Relay(r)!Failed
  <2>1. StoreInv(S, Ch)'
    BY <1>3, RelayStore, EndSettles DEF InRelay, OfRelay, RelayInv
  <2> QED BY <1>1, <2>1 DEF InRelay, RelayInv
<1> QED BY <1>2, <1>3 DEF Relay!Reconnect

\* disconnect() begins.
LEMMA RelayDisconnect ==
  ASSUME NEW r, NEW S, NEW Ch, InRelay(r, S, Ch), NEW s \in S, Relay(r)!Disconnect(s)
  PROVE  RelayInv(S, Ch)'
<1>1. /\ Relay(r)!Start(s, "disconnect", None) /\ link' = link /\ status' = status
      /\ chain' = chain /\ session' = session /\ configured' = configured
  BY DEF Relay!Disconnect, Relay!store, Relay!provider
<1>2. StoreInv(S, Ch)'
  BY <1>1, RelayStore, StartKeeps
  DEF InRelay, OfRelay, RelayInv, Told, StoreInv, Places, SwitchPlaces, OtherPlaces
<1> QED BY <1>1, <1>2 DEF InRelay, RelayInv

\* disconnect() removes the connection.
LEMMA RelayDisconnectDone ==
  ASSUME NEW r, NEW S, NEW Ch, InRelay(r, S, Ch), NEW s \in S, Relay(r)!DisconnectDone(s)
  PROVE  RelayInv(S, Ch)'
<1>1. /\ Relay(r)!End(s) /\ Relay(r)!Removed
      /\ chain' = chain /\ session' = {} /\ configured' = configured
  BY DEF Relay!DisconnectDone, Relay!store, Relay!provider
<1>2. StoreInv(S, Ch)'
  BY <1>1, RelayStore, EndSettles DEF InRelay, OfRelay, RelayInv
<1> QED BY <1>1, <1>2 DEF InRelay, RelayInv

\* disconnect() fails: the connection stays, and its status.
LEMMA RelayDisconnectFail ==
  ASSUME NEW r, NEW S, NEW Ch, InRelay(r, S, Ch), NEW s \in S, Relay(r)!DisconnectFail(s)
  PROVE  RelayInv(S, Ch)'
<1>1. /\ Relay(r)!End(s) /\ job[s].at = "disconnect" /\ link' = link /\ status' = status
      /\ chain' = chain /\ session' = session /\ configured' = configured
  BY DEF Relay!DisconnectFail, Relay!At, Relay!store, Relay!provider
<1>2. Told(Ch) /\ ~ Works(job[s])
  BY <1>1 DEF InRelay, RelayInv, Told, StoreInv, Works, ConnectPlaces, SwitchPlaces
<1>3. StoreInv(S, Ch)'
  BY <1>1, <1>2, RelayStore, EndKeeps DEF InRelay, OfRelay, RelayInv
<1> QED BY <1>1, <1>3 DEF InRelay, RelayInv

\* switchChain() begins.
LEMMA RelaySwitchChain ==
  ASSUME NEW r, NEW S, NEW Ch, InRelay(r, S, Ch), NEW s \in S, NEW ch \in Ch,
         Relay(r)!SwitchChain(s, ch)
  PROVE  RelayInv(S, Ch)'
<1>1. /\ Relay(r)!Start(s, "switch.wallet", ch) /\ link' = link /\ status' = status
      /\ chain' = chain /\ session' = session /\ configured' = configured
  BY DEF Relay!SwitchChain, Relay!store, Relay!provider
<1>2. StoreInv(S, Ch)'
  BY <1>1, RelayStore, StartKeeps
  DEF InRelay, OfRelay, RelayInv, Told, StoreInv, Places, SwitchPlaces, OtherPlaces
<1> QED BY <1>1, <1>2 DEF InRelay, RelayInv

\* The wallet is on the chain.
LEMMA RelaySwitched ==
  ASSUME NEW r, NEW S, NEW Ch, InRelay(r, S, Ch), NEW s \in S, Relay(r)!Switched(s)
  PROVE  RelayInv(S, Ch)'
<1>1. /\ job[s].at = "switch.wallet" /\ session' = session /\ configured' = configured
      /\ chain' = job[s].chain
      /\ \/ Relay(r)!EmitChange(job[s].chain, [job EXCEPT ![s].at = "switch.event"])
         \/ Relay(r)!Go(s, "switch.event") /\ link' = link /\ status' = status
  BY DEF Relay!Switched, Relay!At, Relay!store
<1>2. job[s].chain \in Ch
  BY <1>1 DEF InRelay, RelayInv, StoreInv, Jobs, JobOK, SwitchPlaces
<1>3. CASE Relay(r)!EmitChange(job[s].chain, [job EXCEPT ![s].at = "switch.event"])
  <2>1. Store(S, Ch)!EmitChange(job[s].chain, [job EXCEPT ![s].at = "switch.event"])
    BY <1>3, RelayStore DEF InRelay
  <2>2. StoreInv(S, Ch)'
    BY <1>1, <1>2, <2>1, ChangeGoes DEF InRelay, OfRelay, RelayInv, SwitchPlaces
  <2> QED BY <1>1, <1>2, <2>2 DEF InRelay, RelayInv
<1>4. CASE Relay(r)!Go(s, "switch.event") /\ link' = link /\ status' = status
  <2>1. StoreInv(S, Ch)'
    BY <1>1, <1>4, RelayStore, GoKeeps
    DEF InRelay, OfRelay, RelayInv, Told, StoreInv, SwitchPlaces, Places
  <2> QED BY <1>1, <1>2, <2>1 DEF InRelay, RelayInv
<1> QED BY <1>1, <1>3, <1>4

\* A rejected switch: a connect it is part of fails with it.
LEMMA RelaySwitchReject ==
  ASSUME NEW r, NEW S, NEW Ch, InRelay(r, S, Ch), NEW s \in S, Relay(r)!SwitchReject(s)
  PROVE  RelayInv(S, Ch)'
<1>1. /\ Relay(r)!End(s) /\ link' = link /\ chain' = chain /\ session' = session /\ configured' = configured
      /\ status' = Relay(r)!Failed \/ (status' = status /\ job[s].was = None)
      /\ job[s].at \in SwitchPlaces
  BY DEF Relay!SwitchReject, Relay!At, SwitchPlaces, Relay!store, Relay!provider
<1>2. CASE status' = Relay(r)!Failed
  BY <1>1, <1>2, RelayStore, EndSettles DEF InRelay, OfRelay, RelayInv
<1>3. CASE status' = status /\ job[s].was = None
  <2>1. ~ Works(job[s]) /\ Told(Ch)
    BY <1>1, <1>3 DEF Works, ConnectPlaces, SwitchPlaces, Told, InRelay, RelayInv, StoreInv
  <2> QED BY <1>1, <2>1, RelayStore, EndKeeps DEF InRelay, OfRelay, RelayInv
<1> QED BY <1>1, <1>2, <1>3 DEF InRelay, RelayInv

\* The wallet is to add the chain first.
LEMMA RelaySwitchUnknown ==
  ASSUME NEW r, NEW S, NEW Ch, InRelay(r, S, Ch), NEW s \in S, Relay(r)!SwitchUnknown(s)
  PROVE  RelayInv(S, Ch)'
<1>1. /\ Relay(r)!Go(s, "switch.add") /\ link' = link /\ status' = status
      /\ chain' = chain /\ session' = session /\ configured' = configured /\ job[s].at = "switch.wallet"
  BY DEF Relay!SwitchUnknown, Relay!At, Relay!store, Relay!provider
<1>2. StoreInv(S, Ch)'
  BY <1>1, RelayStore, GoKeeps
  DEF InRelay, OfRelay, RelayInv, SwitchPlaces, Told, StoreInv, Places
<1> QED BY <1>1, <1>2 DEF InRelay, RelayInv

\* The chain cannot be added, the connect goes on without.
LEMMA RelaySwitchUnadded ==
  ASSUME NEW r, NEW S, NEW Ch, InRelay(r, S, Ch), NEW s \in S, Relay(r)!SwitchUnadded(s)
  PROVE  RelayInv(S, Ch)'
<1>1. /\ Relay(r)!ReturnsUnswitched(s) /\ link' = link /\ status' = status
      /\ chain' = chain /\ session' = session /\ configured' = configured
      /\ job[s].at = "switch.add"
  BY DEF Relay!SwitchUnadded, Relay!At, Relay!store, Relay!provider
<1>2. StoreInv(S, Ch)'
  BY <1>1, RelayStore, SwitchReturns
  DEF InRelay, OfRelay, RelayInv, Told, StoreInv, SwitchPlaces
<1> QED BY <1>1, <1>2 DEF InRelay, RelayInv

\* The chain is in the session, the switch returns.
LEMMA RelayAdded ==
  ASSUME NEW r, NEW S, NEW Ch, InRelay(r, S, Ch), NEW s \in S, Relay(r)!Added(s)
  PROVE  RelayInv(S, Ch)'
<1>1. /\ Relay(r)!Returns(s) /\ link' = link /\ status' = status /\ job[s].at = "switch.add"
      /\ chain' = chain /\ session' = session \cup {job[s].chain} /\ configured' = configured
  BY DEF Relay!Added, Relay!At, Relay!store
<1>2. job[s].chain \in Ch
  BY <1>1 DEF InRelay, RelayInv, StoreInv, Jobs, JobOK, SwitchPlaces
<1>3. StoreInv(S, Ch)'
  BY <1>1, RelayStore, SwitchReturns
  DEF InRelay, OfRelay, RelayInv, Told, StoreInv, SwitchPlaces
<1> QED BY <1>1, <1>2, <1>3 DEF InRelay, RelayInv

\* chainChanged.
LEMMA RelayWalletChain ==
  ASSUME NEW r, NEW S, NEW Ch, InRelay(r, S, Ch), NEW ch \in Ch, Relay(r)!WalletChain(ch)
  PROVE  RelayInv(S, Ch)'
<1>1. /\ chain' = ch /\ session' = session /\ configured' = configured
      /\ Relay(r)!EmitChange(ch, job) \/ (job' = job /\ link' = link /\ status' = status)
  BY DEF Relay!WalletChain, Relay!connector, Relay!store
<1>2. StoreInv(S, Ch)'
  BY <1>1, RelayStore, ChangeComes, NothingMoves DEF InRelay, OfRelay, RelayInv, Told, StoreInv
<1> QED BY <1>1, <1>2 DEF InRelay, RelayInv

\* The wallet ends the session.
LEMMA RelayWalletEnds ==
  ASSUME NEW r, NEW S, NEW Ch, InRelay(r, S, Ch), Relay(r)!WalletEnds
  PROVE  RelayInv(S, Ch)'
<1>1. /\ chain' = chain /\ session' = {} /\ configured' = configured /\ job' = job
      /\ Relay(r)!EmitDisconnect \/ (link' = link /\ status' = status)
  BY DEF Relay!WalletEnds, Relay!OnDisconnect, Relay!store, Relay!provider
<1>2. Told(Ch)
  BY <1>1, RelayStore, HandlersTell DEF InRelay, OfRelay, RelayInv, Told, StoreInv
<1>3. StoreInv(S, Ch)'
  BY <1>1, <1>2, NothingMoves DEF InRelay, RelayInv
<1> QED BY <1>1, <1>3 DEF InRelay, RelayInv

\* Every step.
LEMMA RelayNext ==
  ASSUME NEW r, NEW S, NEW Ch, InRelay(r, S, Ch), Relay(r)!Next
  PROVE  RelayInv(S, Ch)'
<1>1. ASSUME NEW s \in S, Relay(r)!Answer(s)
      PROVE  RelayInv(S, Ch)'
  BY <1>1, RelayBegin, RelayEndStale, RelayDecline, RelayPair, RelayReconnect,
     RelayDisconnectDone, RelayDisconnectFail, RelaySwitched, RelaySwitchReject,
     RelaySwitchUnknown, RelaySwitchUnadded, RelayAdded
  DEF Relay!Answer
<1>2. ASSUME NEW s \in S, Relay(r)!Call(s)
      PROVE  RelayInv(S, Ch)'
  BY <1>2, RelayConnect, RelayDisconnect, RelaySwitchChain
  DEF Relay!Call, InRelay, OfRelay
<1> QED BY <1>1, <1>2, RelayConnectStore, RelayWalletChain, RelayWalletEnds, RelayLoad
        DEF Relay!Next, InRelay, OfRelay

-----------------------------------------------------------------------------
(* Whatever the scene. *)

\* The invariant, of whichever connector the scene has.
SceneInv ==
  /\ \A b \in DOMAIN Browsers : scene = b => WalletInv(Browsers[b].slots, Browsers[b].chains)
  /\ \A r \in DOMAIN Relays : scene = r => RelayInv(Relays[r].slots, Relays[r].chains)
  /\ \A p \in DOMAIN Portos : scene = p => WalletInv(Portos[p].slots, Portos[p].chains)
  /\ \A k \in DOMAIN Sdks : scene = k => WalletInv(Sdks[k].slots, Sdks[k].chains)
  /\ \A m \in DOMAIN Metas : scene = m => WalletInv(Metas[m].slots, Metas[m].chains)

\* The settings of a connector are as it needs them.
LEMMA SettingsAreRight ==
  /\ \A b \in DOMAIN Browsers : OfBrowser(b, Browsers[b].slots, Browsers[b].chains)
  /\ \A r \in DOMAIN Relays : OfRelay(r, Relays[r].slots, Relays[r].chains)
  /\ \A p \in DOMAIN Portos : OfPortoOf(p, Portos[p].slots, Portos[p].chains)
  /\ \A k \in DOMAIN Sdks : OfSdk(k, Sdks[k].slots, Sdks[k].chains)
  /\ \A m \in DOMAIN Metas : OfMeta(m, Metas[m].slots, Metas[m].chains)
<1>1. \A b \in DOMAIN Browsers : OfBrowser(b, Browsers[b].slots, Browsers[b].chains)
  BY SettingsAssumption DEF OfBrowser, Apart, Conns, Browser!ConnectorAssumption
<1>2. \A r \in DOMAIN Relays : OfRelay(r, Relays[r].slots, Relays[r].chains)
  BY SettingsAssumption
  DEF OfRelay, Apart, Conns, Relay!ConnectorAssumption, Relay!WalletConnectAssumption
<1>3. \A p \in DOMAIN Portos : OfPortoOf(p, Portos[p].slots, Portos[p].chains)
  BY SettingsAssumption
  DEF OfPortoOf, Apart, Conns, PortoOf!ConnectorAssumption, PortoOf!PortoAssumption
<1>4. \A k \in DOMAIN Sdks : OfSdk(k, Sdks[k].slots, Sdks[k].chains)
  BY SettingsAssumption DEF OfSdk, Apart, Conns, Sdk!ConnectorAssumption
<1>5. \A m \in DOMAIN Metas : OfMeta(m, Metas[m].slots, Metas[m].chains)
  BY SettingsAssumption DEF OfMeta, Apart, Conns, Meta!ConnectorAssumption
<1> QED BY <1>1, <1>2, <1>3, <1>4, <1>5

\* A scene is of one kind.
LEMMA OneKind ==
  ASSUME NEW i \in 1..7, NEW j \in 1..7, scene \in Kinds[i], scene \in Kinds[j]
  PROVE  i = j
  BY SettingsAssumption

\* The kinds by their number.
LEMMA KindsByNumber ==
  /\ Kinds[1] = DOMAIN Browsers /\ Kinds[2] = DOMAIN Relays /\ Kinds[3] = DOMAIN Portos
  /\ Kinds[4] = DOMAIN Sdks /\ Kinds[5] = DOMAIN Metas /\ Kinds[6] = DOMAIN Passkeys
  /\ Kinds[7] = {"keys"}
  BY DEF Kinds

\* A step of this kind of scene leaves the others alone.
LEMMA BrowserSceneKeeps ==
  ASSUME SceneInv, NEW b \in DOMAIN Browsers, BrowserStep(b)
  PROVE  SceneInv'
<1>1. scene = b /\ scene' = b /\ Browser(b)!Next
  BY DEF BrowserStep, BrowserRest, NoKeys
<1>2. WalletInv(Browsers[b].slots, Browsers[b].chains)'
  BY <1>1, SettingsAreRight, BrowserNext DEF SceneInv, InBrowser
<1>3. scene \in Kinds[1]
  BY <1>1, KindsByNumber
<1>4. \A j \in 1..7 : j # 1 => scene \notin Kinds[j]
  BY <1>3, OneKind
<1>5. b \notin DOMAIN Relays /\ b \notin DOMAIN Portos /\ b \notin DOMAIN Sdks /\ b \notin DOMAIN Metas
  BY <1>1, <1>4, KindsByNumber
<1> QED BY <1>1, <1>2, <1>5 DEF SceneInv

\* A step of this kind of scene leaves the others alone.
LEMMA RelaySceneKeeps ==
  ASSUME SceneInv, NEW r \in DOMAIN Relays, RelayStep(r)
  PROVE  SceneInv'
<1>1. scene = r /\ scene' = r /\ Relay(r)!Next
  BY DEF RelayStep, RelayRest, NoKeys
<1>2. RelayInv(Relays[r].slots, Relays[r].chains)'
  BY <1>1, SettingsAreRight, RelayNext DEF SceneInv, InRelay
<1>3. scene \in Kinds[2]
  BY <1>1, KindsByNumber
<1>4. \A j \in 1..7 : j # 2 => scene \notin Kinds[j]
  BY <1>3, OneKind
<1>5. r \notin DOMAIN Browsers /\ r \notin DOMAIN Portos /\ r \notin DOMAIN Sdks /\ r \notin DOMAIN Metas
  BY <1>1, <1>4, KindsByNumber
<1> QED BY <1>1, <1>2, <1>5 DEF SceneInv

\* A step of this kind of scene leaves the others alone.
LEMMA PortoOfSceneKeeps ==
  ASSUME SceneInv, NEW p \in DOMAIN Portos, PortoStep(p)
  PROVE  SceneInv'
<1>1. scene = p /\ scene' = p /\ PortoOf(p)!Next
  BY DEF PortoStep, SdkRest, NoKeys
<1>2. WalletInv(Portos[p].slots, Portos[p].chains)'
  BY <1>1, SettingsAreRight, PortoOfNext DEF SceneInv, InPortoOf
<1>3. scene \in Kinds[3]
  BY <1>1, KindsByNumber
<1>4. \A j \in 1..7 : j # 3 => scene \notin Kinds[j]
  BY <1>3, OneKind
<1>5. p \notin DOMAIN Browsers /\ p \notin DOMAIN Relays /\ p \notin DOMAIN Sdks /\ p \notin DOMAIN Metas
  BY <1>1, <1>4, KindsByNumber
<1> QED BY <1>1, <1>2, <1>5 DEF SceneInv

\* A step of this kind of scene leaves the others alone.
LEMMA SdkSceneKeeps ==
  ASSUME SceneInv, NEW k \in DOMAIN Sdks, SdkStep(k)
  PROVE  SceneInv'
<1>1. scene = k /\ scene' = k /\ Sdk(k)!Next
  BY DEF SdkStep, SdkRest, NoKeys
<1>2. WalletInv(Sdks[k].slots, Sdks[k].chains)'
  BY <1>1, SettingsAreRight, SdkNext DEF SceneInv, InSdk
<1>3. scene \in Kinds[4]
  BY <1>1, KindsByNumber
<1>4. \A j \in 1..7 : j # 4 => scene \notin Kinds[j]
  BY <1>3, OneKind
<1>5. k \notin DOMAIN Browsers /\ k \notin DOMAIN Relays /\ k \notin DOMAIN Portos /\ k \notin DOMAIN Metas
  BY <1>1, <1>4, KindsByNumber
<1> QED BY <1>1, <1>2, <1>5 DEF SceneInv

\* A step of this kind of scene leaves the others alone.
LEMMA MetaSceneKeeps ==
  ASSUME SceneInv, NEW m \in DOMAIN Metas, MetaStep(m)
  PROVE  SceneInv'
<1>1. scene = m /\ scene' = m /\ Meta(m)!Next
  BY DEF MetaStep, SdkRest, NoKeys
<1>2. WalletInv(Metas[m].slots, Metas[m].chains)'
  BY <1>1, SettingsAreRight, MetaNext DEF SceneInv, InMeta
<1>3. scene \in Kinds[5]
  BY <1>1, KindsByNumber
<1>4. \A j \in 1..7 : j # 5 => scene \notin Kinds[j]
  BY <1>3, OneKind
<1>5. m \notin DOMAIN Browsers /\ m \notin DOMAIN Relays /\ m \notin DOMAIN Portos /\ m \notin DOMAIN Sdks
  BY <1>1, <1>4, KindsByNumber
<1> QED BY <1>1, <1>2, <1>5 DEF SceneInv

\* ... nor does what is not about a wallet.
LEMMA OthersKeep ==
  ASSUME SceneInv, scene' = scene,
         storeVars' = storeVars, walletVars' = walletVars, sessionVars' = sessionVars
  PROVE  SceneInv'
<1>1. ASSUME NEW S, NEW Ch, StoreInv(S, Ch)
      PROVE  StoreInv(S, Ch)'
  <2>1. job' = job /\ Told(Ch)
    BY <1>1 DEF storeVars, Told, StoreInv
  <2> QED BY <1>1, <2>1, NothingMoves
<1>2. \A S, Ch : WalletInv(S, Ch) => WalletInv(S, Ch)'
  BY <1>1 DEF WalletInv, walletVars
<1>3. \A S, Ch : RelayInv(S, Ch) => RelayInv(S, Ch)'
  BY <1>1 DEF RelayInv, walletVars, sessionVars
<1> QED BY <1>2, <1>3 DEF SceneInv

\* The first state of a page.
LEMMA SceneInit == WalletInit \/ PasskeyInit \/ KeyInit => SceneInv
<1>1. ASSUME NEW b \in DOMAIN Browsers, Browser(b)!Init
      PROVE  WalletInv(Browsers[b].slots, Browsers[b].chains)
  <2>1. OfBrowser(b, Browsers[b].slots, Browsers[b].chains)
    BY SettingsAreRight
  <2>2. Browser(b)!ConnectorInit
    BY <1>1 DEF Browser!Init
  <2>3. StoreInv(Browsers[b].slots, Browsers[b].chains)
    BY <2>1, <2>2, BrowserStore, StoreInit
  <2> QED BY <1>1, <2>1, <2>3 DEF Browser!Init, WalletInv, OfBrowser
<1>2. ASSUME NEW r \in DOMAIN Relays, Relay(r)!Init
      PROVE  RelayInv(Relays[r].slots, Relays[r].chains)
  <2>1. OfRelay(r, Relays[r].slots, Relays[r].chains)
    BY SettingsAreRight
  <2>2. Relay(r)!ConnectorInit
    BY <1>2 DEF Relay!Init
  <2>3. StoreInv(Relays[r].slots, Relays[r].chains)
    BY <2>1, <2>2, RelayStore, StoreInit
  <2> QED BY <1>2, <2>1, <2>3 DEF Relay!Init, RelayInv, OfRelay
<1>3. ASSUME NEW p \in DOMAIN Portos, PortoOf(p)!Init
      PROVE  WalletInv(Portos[p].slots, Portos[p].chains)
  <2>1. OfPortoOf(p, Portos[p].slots, Portos[p].chains)
    BY SettingsAreRight
  <2>2. PortoOf(p)!ConnectorInit
    BY <1>3 DEF PortoOf!Init
  <2>3. StoreInv(Portos[p].slots, Portos[p].chains)
    BY <2>1, <2>2, PortoOfStore, StoreInit
  <2> QED BY <1>3, <2>1, <2>3 DEF PortoOf!Init, WalletInv, OfPortoOf
<1>4. ASSUME NEW k \in DOMAIN Sdks, Sdk(k)!Init
      PROVE  WalletInv(Sdks[k].slots, Sdks[k].chains)
  <2>1. OfSdk(k, Sdks[k].slots, Sdks[k].chains)
    BY SettingsAreRight
  <2>2. Sdk(k)!ConnectorInit
    BY <1>4 DEF Sdk!Init
  <2>3. StoreInv(Sdks[k].slots, Sdks[k].chains)
    BY <2>1, <2>2, SdkStore, StoreInit
  <2> QED BY <1>4, <2>1, <2>3 DEF Sdk!Init, WalletInv, OfSdk
<1>5. ASSUME NEW m \in DOMAIN Metas, Meta(m)!Init
      PROVE  WalletInv(Metas[m].slots, Metas[m].chains)
  <2>1. OfMeta(m, Metas[m].slots, Metas[m].chains)
    BY SettingsAreRight
  <2>2. Meta(m)!ConnectorInit
    BY <1>5 DEF Meta!Init
  <2>3. StoreInv(Metas[m].slots, Metas[m].chains)
    BY <2>1, <2>2, MetaStore, StoreInit
  <2> QED BY <1>5, <2>1, <2>3 DEF Meta!Init, WalletInv, OfMeta
<1>6. ASSUME NEW i \in 1..7, scene \in Kinds[i]
      PROVE  \A j \in 1..7 : j # i => scene \notin Kinds[j]
  BY <1>6, OneKind
<1>7. ASSUME scene \in DOMAIN Browsers, \A b \in DOMAIN Browsers : scene = b => Browser(b)!Init
      PROVE  SceneInv
  BY <1>1, <1>6, <1>7, KindsByNumber DEF SceneInv
<1>8. ASSUME scene \in DOMAIN Relays, \A r \in DOMAIN Relays : scene = r => Relay(r)!Init
      PROVE  SceneInv
  BY <1>2, <1>6, <1>8, KindsByNumber DEF SceneInv
<1>9. ASSUME scene \in DOMAIN Portos, \A p \in DOMAIN Portos : scene = p => PortoOf(p)!Init
      PROVE  SceneInv
  BY <1>3, <1>6, <1>9, KindsByNumber DEF SceneInv
<1>10. ASSUME scene \in DOMAIN Sdks, \A k \in DOMAIN Sdks : scene = k => Sdk(k)!Init
      PROVE  SceneInv
  BY <1>4, <1>6, <1>10, KindsByNumber DEF SceneInv
<1>11. ASSUME scene \in DOMAIN Metas, \A m \in DOMAIN Metas : scene = m => Meta(m)!Init
      PROVE  SceneInv
  BY <1>5, <1>6, <1>11, KindsByNumber DEF SceneInv
<1>12. WalletInit => SceneInv
  BY <1>7, <1>8, <1>9, <1>10, <1>11 DEF WalletInit
<1>13. PasskeyInit \/ KeyInit => SceneInv
  BY <1>6, KindsByNumber DEF PasskeyInit, KeyInit, SceneInv
<1> QED BY <1>12, <1>13

\* Every step of the composition.
LEMMA SceneNext ==
  ASSUME SceneInv, [ConnectorsNext]_allVars
  PROVE  SceneInv'
<1>1. ASSUME NEW k, PasskeyStep(k)
      PROVE  SceneInv'
  BY <1>1, OthersKeep DEF PasskeyStep, NoWallet
<1>2. CASE KeyStep
  BY <1>2, OthersKeep DEF KeyStep, NoWallet
<1>3. CASE UNCHANGED allVars
  BY <1>3, OthersKeep DEF allVars
<1> QED BY <1>1, <1>2, <1>3, BrowserSceneKeeps, RelaySceneKeeps, PortoOfSceneKeeps,
           SdkSceneKeeps, MetaSceneKeeps
        DEF ConnectorsNext

\* The status of the store says whether there is a connection, once nothing is in
\* flight, whatever the connector, its settings, the wallet and the number of calls.
THEOREM StatusIsTrue == ConnectorsSpec => []StatusIsConnection
<1>1. ConnectorsSpec => []SceneInv
  <2>1. SceneInv /\ [ConnectorsNext]_allVars => SceneInv'
    BY SceneNext
  <2> QED BY <2>1, SceneInit, PTL DEF ConnectorsSpec
<1>2. SceneInv => StatusIsConnection
  <2>1. ASSUME SceneInv, NEW b \in DOMAIN Browsers, scene = b
        PROVE  Browser(b)!StatusIsConnection
    BY <2>1, SettingsAreRight, BrowserStore, CalmIsSettled DEF SceneInv, WalletInv
  <2>2. ASSUME SceneInv, NEW r \in DOMAIN Relays, scene = r
        PROVE  Relay(r)!StatusIsConnection
    BY <2>2, SettingsAreRight, RelayStore, CalmIsSettled DEF SceneInv, RelayInv
  <2>3. ASSUME SceneInv, NEW p \in DOMAIN Portos, scene = p
        PROVE  PortoOf(p)!StatusIsConnection
    BY <2>3, SettingsAreRight, PortoOfStore, CalmIsSettled DEF SceneInv, WalletInv
  <2>4. ASSUME SceneInv, NEW k \in DOMAIN Sdks, scene = k
        PROVE  Sdk(k)!StatusIsConnection
    BY <2>4, SettingsAreRight, SdkStore, CalmIsSettled DEF SceneInv, WalletInv
  <2>5. ASSUME SceneInv, NEW m \in DOMAIN Metas, scene = m
        PROVE  Meta(m)!StatusIsConnection
    BY <2>5, SettingsAreRight, MetaStore, CalmIsSettled DEF SceneInv, WalletInv
  <2> QED BY <2>1, <2>2, <2>3, <2>4, <2>5 DEF StatusIsConnection
<1> QED BY <1>1, <1>2, PTL

-----------------------------------------------------------------------------
(* Who disconnected stays disconnected. *)

\* A page that was left has no connection, the shim in storage, and nothing in flight
\* that would connect without the user.
BrowserLeft(S) ==
  left => /\ link = None /\ disconnected
          /\ \A s \in S : job[s].at \in {"idle", "connect.prompt", "onDisconnect"}

\* ... nor a session.
RelayLeft(S) ==
  left => /\ link = None /\ session = {}
          /\ \A s \in S : job[s].at \in {"idle", "reconnect"}

\* The one job changes its place.
LEMMA PlaceMoves ==
  ASSUME NEW S, NEW Ch, StoreInv(S, Ch), Single(S), NEW s \in S
  PROVE  /\ \A at \in Places, ch \in Ch \cup {None} :
              Store(S, Ch)!Start(s, at, ch) => \A t \in S : job'[t].at = at
         /\ Store(S, Ch)!End(s) => \A t \in S : job'[t].at = "idle"
<1>1. \A t \in S : t = s
  BY DEF Single
<1>2. ASSUME NEW at \in Places, NEW ch \in Ch \cup {None}, Store(S, Ch)!Start(s, at, ch)
      PROVE  job'[s].at = at
  <2>1. job' = [job EXCEPT ![s] = Store(S, Ch)!Job(at, ch)] /\ s \in DOMAIN job
    BY <1>2 DEF Store!Start, StoreInv, Jobs
  <2>2. job'[s] = Store(S, Ch)!Job(at, ch)
    BY <2>1
  <2> QED BY <2>2, NewJob
<1>3. ASSUME Store(S, Ch)!End(s)
      PROVE  job'[s].at = "idle"
  <2>1. job'[s] = Store(S, Ch)!IdleJob
    BY <1>3 DEF Store!End, StoreInv, Jobs
  <2> QED BY <2>1, IdleIsOK
<1> QED BY <1>1, <1>2, <1>3

\* Without a connection the handlers leave it so.
LEMMA NobodyConnects ==
  ASSUME NEW S, NEW Ch, StoreInv(S, Ch), link = None
  PROVE  /\ Store(S, Ch)!EmitDisconnect => link' = None
         /\ \A ch : Store(S, Ch)!EmitChange(ch, job) => link' = None
  BY DEF Store!EmitDisconnect, Store!store, Store!EmitChange

\* An event leaves the jobs that wait for none.
LEMMA ChangeLeavesJobs ==
  ASSUME NEW S, NEW Ch, StoreInv(S, Ch), NEW ch, Store(S, Ch)!EmitChange(ch, job),
         \A s \in S : job[s].at # "switch.event"
  PROVE  \A s \in S : job'[s] = job[s]
  BY DEF Store!EmitChange

\* A page that was left stays so, if the page makes one call at a time, with the shim
\* and a provider that does not connect by itself.
LEMMA BrowserStaysLeft ==
  ASSUME NEW b, NEW S, NEW Ch, InBrowser(b, S, Ch), Single(S), BrowserLeft(S),
         Browsers[b].shim, ~ Browsers[b].greets, Browser(b)!Next
  PROVE  BrowserLeft(S)'
<1> SUFFICES ASSUME left'
             PROVE  /\ link' = None /\ disconnected'
                    /\ \A s \in S : job'[s].at \in {"idle", "connect.prompt", "onDisconnect"}
  BY DEF BrowserLeft
<1>s. StoreInv(S, Ch) /\ S = Browsers[b].slots /\ Ch = Browsers[b].chains
  BY DEF InBrowser, OfBrowser, WalletInv
<1>1. ASSUME NEW s \in S,
             \/ Browser(b)!ConnectStore(s) \/ Browser(b)!ConnectChain(s)
             \/ Browser(b)!Authorized(s) \/ Browser(b)!Reconnected(s)
             \/ Browser(b)!SwitchReject(s) \/ Browser(b)!SwitchFail(s)
             \/ Browser(b)!SwitchLoud(s) \/ Browser(b)!SwitchSilent(s)
             \/ Browser(b)!SwitchConfirm(s) \/ Browser(b)!AccountsChain(s)
             \/ Browser(b)!OnConnect(s)
      PROVE  FALSE
  <2>1. job[s].at \notin {"idle", "connect.prompt", "onDisconnect"} /\ left' = left
    BY <1>1 DEF Browser!ConnectStore, Browser!ConnectChain, Browser!Connected,
      Browser!Authorized, Browser!Reconnected, Browser!SwitchReject, Browser!Fail,
      Browser!SwitchFail, Browser!SwitchLoud, Browser!SwitchSilent, Browser!SwitchConfirm,
      Browser!AccountsChain, Browser!OnConnect, Browser!At
  <2> QED BY <2>1 DEF BrowserLeft
<1>2. ASSUME NEW s \in S, Browser(b)!ConnectAccept(s) \/ Browser(b)!WalletAccounts(s)
      PROVE  FALSE
  BY <1>2 DEF Browser!ConnectAccept, Browser!WalletAccounts
<1>3. ASSUME NEW s \in S, Browser(b)!Disconnect(s) \/ \E ch \in Ch : Browser(b)!SwitchChain(s, ch)
      PROVE  FALSE
  BY <1>3 DEF Browser!Disconnect, Browser!SwitchChain, BrowserLeft
<1>4. ASSUME NEW s \in S, Browser(b)!ProviderConnect(s)
      PROVE  FALSE
  BY <1>4 DEF Browser!ProviderConnect
<1>5. ASSUME NEW s \in S, Browser(b)!DisconnectDone(s)
      PROVE  /\ link' = None /\ disconnected'
             /\ \A t \in S : job'[t].at = "idle"
  <2>1. Browser(b)!End(s) /\ link' = None /\ disconnected'
    BY <1>5 DEF Browser!DisconnectDone, Browser!Removed
  <2> QED BY <1>s, <2>1, PlaceMoves, BrowserStore DEF InBrowser
<1>6. ASSUME NEW s \in S, NEW ch \in Ch \cup {None}, Browser(b)!Connect(s, ch)
      PROVE  /\ link' = None /\ disconnected'
             /\ \A t \in S : job'[t].at = "connect.prompt"
  <2>1. /\ Browser(b)!Start(s, "connect.prompt", ch) /\ link' = link /\ left' = left
        /\ disconnected' = disconnected
    BY <1>6 DEF Browser!Connect, Browser!flags
  <2>2. \A t \in S : job'[t].at = "connect.prompt"
    <3>1. Store(S, Ch)!Start(s, "connect.prompt", ch)
      BY <2>1, BrowserStore DEF InBrowser
    <3>2. "connect.prompt" \in Places
      BY DEF Places, ConnectPlaces
    <3> QED BY <1>s, <3>1, <3>2, PlaceMoves
  <2> QED BY <2>1, <2>2 DEF BrowserLeft
<1>7. ASSUME NEW s \in S, Browser(b)!ConnectReject(s) \/ Browser(b)!OnDisconnect1013(s)
      PROVE  /\ link' = None /\ disconnected'
             /\ \A t \in S : job'[t].at = "idle"
  <2>1. /\ Browser(b)!End(s) /\ left' = left /\ disconnected' = disconnected
        /\ link' = link \/ Browser(b)!EmitDisconnect
    BY <1>7 DEF Browser!ConnectReject, Browser!Fail, Browser!OnDisconnect1013,
                Browser!OnDisconnect, Browser!flags, Browser!store
  <2>2. \A t \in S : job'[t].at = "idle"
    BY <1>s, <2>1, PlaceMoves, BrowserStore DEF InBrowser
  <2> QED BY <1>s, <2>1, <2>2, NobodyConnects, BrowserStore DEF InBrowser, BrowserLeft
<1>8. ASSUME Browser(b)!WalletLock \/ Browser(b)!ProviderDisconnect
      PROVE  /\ link' = None /\ disconnected'
             /\ \A s \in S : job'[s].at \in {"idle", "connect.prompt", "onDisconnect"}
  <2>1. /\ job' = job /\ left' = left /\ disconnected' = disconnected
        /\ link' = link \/ Browser(b)!EmitDisconnect
    BY <1>8 DEF Browser!WalletLock, Browser!ProviderDisconnect, Browser!OnDisconnect,
                Browser!flags, Browser!store
  <2> QED BY <1>s, <2>1, NobodyConnects, BrowserStore DEF InBrowser, BrowserLeft
<1>9. ASSUME NEW ch \in Ch, Browser(b)!WalletChain(ch)
      PROVE  /\ link' = None /\ disconnected'
             /\ \A s \in S : job'[s].at \in {"idle", "connect.prompt", "onDisconnect"}
  <2>1. /\ left' = left /\ disconnected' = disconnected
        /\ (job' = job /\ link' = link) \/ Browser(b)!EmitChange(ch, job)
    BY <1>9 DEF Browser!WalletChain, Browser!flags, Browser!store
  <2>2. link' = None
    BY <1>s, <2>1, NobodyConnects, BrowserStore DEF InBrowser, BrowserLeft
  <2>3. \A s \in S : job'[s].at \in {"idle", "connect.prompt", "onDisconnect"}
    BY <1>s, <2>1, ChangeLeavesJobs, BrowserStore DEF InBrowser, BrowserLeft
  <2> QED BY <2>1, <2>2, <2>3 DEF BrowserLeft
<1>10. ASSUME NEW s \in S, Browser(b)!ProviderDisconnect1013(s)
       PROVE  /\ link' = None /\ disconnected'
              /\ \A t \in S : job'[t].at = "onDisconnect"
  <2>1. /\ Browser(b)!Start(s, "onDisconnect", None) /\ link' = link /\ left' = left
        /\ disconnected' = disconnected
    BY <1>10 DEF Browser!ProviderDisconnect1013, Browser!flags, Browser!store
  <2>2. \A t \in S : job'[t].at = "onDisconnect"
    <3>1. Store(S, Ch)!Start(s, "onDisconnect", None)
      BY <2>1, BrowserStore DEF InBrowser
    <3>2. "onDisconnect" \in Places /\ None \in Ch \cup {None}
      BY DEF Places, OtherPlaces
    <3> QED BY <1>s, <3>1, <3>2, PlaceMoves
  <2> QED BY <2>1, <2>2 DEF BrowserLeft
<1>11. ASSUME Browser(b)!Load
       PROVE  /\ link' = None /\ disconnected'
              /\ \A t \in S : job'[t].at = "idle"
  <2>1. left' = left /\ disconnected' = disconnected
    BY <1>11 DEF Browser!Load, Browser!flags
  <2>2. disconnected /\ ~ Browser(b)!MayReconnect
    BY <2>1 DEF BrowserLeft, Browser!MayReconnect
  <2>3. /\ link' = None
        /\ job' = [x \in S |-> Browser(b)!IdleJob]
    BY <1>s, <1>11, <2>2 DEF Browser!Load, Browser!Opened
  <2>4. \A t \in S : job'[t] = Store(S, Ch)!IdleJob
    BY <2>3, BrowserStore DEF InBrowser
  <2> QED BY <2>1, <2>2, <2>3, <2>4, IdleIsOK
<1>12. ASSUME NEW s \in S, Browser(b)!Answer(s)
       PROVE  /\ link' = None /\ disconnected'
              /\ \A t \in S : job'[t].at \in {"idle", "connect.prompt", "onDisconnect"}
  BY <1>1, <1>2, <1>5, <1>7, <1>12 DEF Browser!Answer
<1>13. ASSUME NEW s \in S, Browser(b)!Call(s)
       PROVE  /\ link' = None /\ disconnected'
              /\ \A t \in S : job'[t].at \in {"idle", "connect.prompt", "onDisconnect"}
  BY <1>s, <1>3, <1>6, <1>13 DEF Browser!Call
<1>14. ASSUME Browser(b)!Wallet
       PROVE  /\ link' = None /\ disconnected'
              /\ \A t \in S : job'[t].at \in {"idle", "connect.prompt", "onDisconnect"}
  BY <1>s, <1>2, <1>4, <1>8, <1>9, <1>10, <1>14 DEF Browser!Wallet
<1> QED BY <1>s, <1>1, <1>11, <1>12, <1>13, <1>14 DEF Browser!Next

\* A page that was left has no session for a page load to find, nor a call that would
\* get one, if it makes one call at a time.
LEMMA RelayStaysLeft ==
  ASSUME NEW r, NEW S, NEW Ch, InRelay(r, S, Ch), Single(S), RelayLeft(S), Relay(r)!Next
  PROVE  RelayLeft(S)'
<1> SUFFICES ASSUME left'
             PROVE  /\ link' = None /\ session' = {}
                    /\ \A s \in S : job'[s].at \in {"idle", "reconnect"}
  BY DEF RelayLeft
<1>s. StoreInv(S, Ch) /\ S = Relays[r].slots /\ Ch = Relays[r].chains
  BY DEF InRelay, OfRelay, RelayInv
<1>1. ASSUME NEW s \in S,
             \/ Relay(r)!ConnectStore(s) \/ Relay(r)!Begin(s) \/ Relay(r)!EndStale(s)
             \/ Relay(r)!Decline(s) \/ Relay(r)!Pair(s) \/ Relay(r)!DisconnectFail(s)
             \/ Relay(r)!Switched(s) \/ Relay(r)!SwitchReject(s)
             \/ Relay(r)!SwitchUnknown(s) \/ Relay(r)!SwitchUnadded(s) \/ Relay(r)!Added(s)
      PROVE  FALSE
  <2>1. job[s].at \notin {"idle", "reconnect"} /\ left' = left
    BY <1>1 DEF Relay!ConnectStore, Relay!Begin, Relay!EndStale, Relay!Decline, Relay!Pair,
      Relay!DisconnectFail, Relay!Switched, Relay!SwitchReject, Relay!SwitchUnknown,
      Relay!SwitchUnadded, Relay!Added, Relay!At
  <2> QED BY <2>1 DEF RelayLeft
<1>2. ASSUME NEW s \in S,
             \/ Relay(r)!Disconnect(s)
             \/ \E ch \in Ch \cup {None} : Relay(r)!Connect(s, ch) \/ Relay(r)!SwitchChain(s, ch)
      PROVE  FALSE
  BY <1>2 DEF Relay!Connect, Relay!Disconnect, Relay!SwitchChain, RelayLeft
<1>3. ASSUME Relay(r)!WalletEnds \/ \E ch \in Ch : Relay(r)!WalletChain(ch)
      PROVE  FALSE
  BY <1>3 DEF Relay!WalletEnds, Relay!WalletChain, Relay!WalletActs, RelayLeft
<1>4. ASSUME NEW s \in S, Relay(r)!DisconnectDone(s)
      PROVE  /\ link' = None /\ session' = {}
             /\ \A t \in S : job'[t].at = "idle"
  <2>1. Relay(r)!End(s) /\ link' = None /\ session' = {}
    BY <1>4 DEF Relay!DisconnectDone, Relay!Removed
  <2> QED BY <1>s, <2>1, PlaceMoves, RelayStore DEF InRelay
<1>5. ASSUME NEW s \in S, Relay(r)!Reconnect(s)
      PROVE  /\ link' = None /\ session' = {}
             /\ \A t \in S : job'[t].at = "idle"
  <2>1. link = None /\ session = {}
    BY <1>5 DEF Relay!Reconnect, RelayLeft
  <2>2. Relay(r)!End(s) /\ link' = link /\ session' = {}
    BY <1>5, <2>1 DEF Relay!Reconnect
  <2> QED BY <1>s, <2>1, <2>2, PlaceMoves, RelayStore DEF InRelay
<1>6. ASSUME NEW conf \in Relays[r].pages, Relay(r)!Load(conf)
      PROVE  /\ link' = None /\ session' = {}
             /\ \A t \in S : job'[t].at \in {"idle", "reconnect"}
  <2>1. PICK s \in S :
          Relay(r)!Opened([x \in S |-> IF x = s THEN Relay(r)!Job("reconnect", None)
                                    ELSE Relay(r)!IdleJob])
    BY <1>s, <1>6 DEF Relay!Load
  <2>2. session' = session /\ left' = left
    BY <1>6 DEF Relay!Load, Relay!provider
  <2>3. /\ link' = None
        /\ job' = [x \in S |-> IF x = s THEN Store(S, Ch)!Job("reconnect", None)
                               ELSE Store(S, Ch)!IdleJob]
    BY <2>1, RelayStore DEF Relay!Opened, InRelay
  <2>4. Store(S, Ch)!Job("reconnect", None).at = "reconnect"
    BY NewJob DEF Places, ConnectPlaces
  <2>5. ASSUME NEW t \in S
        PROVE  job'[t].at \in {"idle", "reconnect"}
    BY <2>3, <2>4, IdleIsOK
  <2> QED BY <2>2, <2>3, <2>5 DEF RelayLeft
<1>7. ASSUME NEW s \in S, Relay(r)!Answer(s)
      PROVE  /\ link' = None /\ session' = {}
             /\ \A t \in S : job'[t].at \in {"idle", "reconnect"}
  BY <1>1, <1>4, <1>5, <1>7 DEF Relay!Answer
<1>8. ASSUME NEW s \in S, Relay(r)!Call(s)
      PROVE  FALSE
  BY <1>s, <1>2, <1>8 DEF Relay!Call
<1> QED BY <1>s, <1>1, <1>3, <1>6, <1>7, <1>8 DEF Relay!Next

\* The invariant of the pages that were left.
LeftInv ==
  /\ SceneInv
  /\ \A b \in DOMAIN Browsers :
       /\ scene = b /\ Single(Browsers[b].slots)
       /\ Browsers[b].shim /\ ~ Browsers[b].greets
       => BrowserLeft(Browsers[b].slots)
  /\ \A r \in CalmRelays : scene = r => RelayLeft(Relays[r].slots)

\* No page is left yet.
LEMMA LeftInit == WalletInit \/ PasskeyInit \/ KeyInit => LeftInv
<1>1. WalletInit => left = FALSE
  BY DEF WalletInit, NoSdkInit, Browser!Init, Relay!Init
<1>2. PasskeyInit \/ KeyInit => left = FALSE
  BY DEF PasskeyInit, KeyInit, NoWalletInit, NoSdkInit
<1> QED BY <1>1, <1>2, SceneInit DEF LeftInv, BrowserLeft, RelayLeft

\* The relays one call at a time is made over are relays.
LEMMA CalmIsSingle ==
  ASSUME NEW r \in CalmRelays
  PROVE  r \in DOMAIN Relays /\ Single(Relays[r].slots)
  BY DEF CalmRelays, Calm

\* A step of one kind of scene: the others have none of its pages.
LEMMA LeftNext ==
  ASSUME LeftInv, [ConnectorsNext]_allVars
  PROVE  LeftInv'
<1>s. SceneInv /\ SceneInv'
  BY SceneNext DEF LeftInv
<1>k. ASSUME NEW i \in 1..7, scene \in Kinds[i]
      PROVE  \A j \in 1..7 : j # i => scene \notin Kinds[j]
  BY <1>k, OneKind
<1>1. ASSUME NEW b \in DOMAIN Browsers, BrowserStep(b)
      PROVE  LeftInv'
  <2>1. scene = b /\ scene' = b /\ Browser(b)!Next
    BY <1>1 DEF BrowserStep, BrowserRest, NoKeys
  <2>2. b \notin DOMAIN Relays
    BY <1>k, <2>1, KindsByNumber
  <2>3. InBrowser(b, Browsers[b].slots, Browsers[b].chains)
    BY <1>s, <2>1, SettingsAreRight DEF SceneInv, InBrowser
  <2>4. Single(Browsers[b].slots) /\ Browsers[b].shim /\ ~ Browsers[b].greets
        => BrowserLeft(Browsers[b].slots)'
    BY <2>1, <2>3, BrowserStaysLeft DEF LeftInv
  <2> QED BY <1>s, <2>1, <2>2, <2>4, CalmIsSingle DEF LeftInv
<1>2. ASSUME NEW r \in DOMAIN Relays, RelayStep(r)
      PROVE  LeftInv'
  <2>1. scene = r /\ scene' = r /\ Relay(r)!Next
    BY <1>2 DEF RelayStep, RelayRest, NoKeys
  <2>2. r \notin DOMAIN Browsers
    BY <1>k, <2>1, KindsByNumber
  <2>3. InRelay(r, Relays[r].slots, Relays[r].chains)
    BY <1>s, <2>1, SettingsAreRight DEF SceneInv, InRelay
  <2>4. r \in CalmRelays => RelayLeft(Relays[r].slots)'
    BY <2>1, <2>3, RelayStaysLeft, CalmIsSingle DEF LeftInv
  <2> QED BY <1>s, <2>1, <2>2, <2>4 DEF LeftInv
<1>3. ASSUME NEW i \in 3..5, scene \in Kinds[i], scene' = scene
      PROVE  LeftInv'
  <2>1. scene \notin DOMAIN Browsers /\ scene \notin DOMAIN Relays
    BY <1>3, <1>k, KindsByNumber
  <2> QED BY <1>s, <1>3, <2>1, CalmIsSingle DEF LeftInv
<1>4. ASSUME NEW p \in DOMAIN Portos, PortoStep(p)
      PROVE  LeftInv'
  BY <1>3, <1>4, KindsByNumber DEF PortoStep, SdkRest, NoKeys
<1>5. ASSUME NEW k \in DOMAIN Sdks, SdkStep(k)
      PROVE  LeftInv'
  BY <1>3, <1>5, KindsByNumber DEF SdkStep, SdkRest, NoKeys
<1>6. ASSUME NEW m \in DOMAIN Metas, MetaStep(m)
      PROVE  LeftInv'
  BY <1>3, <1>6, KindsByNumber DEF MetaStep, SdkRest, NoKeys
<1>7. ASSUME scene' = scene, left' = left, link' = link, job' = job,
             disconnected' = disconnected, session' = session
      PROVE  LeftInv'
  BY <1>s, <1>7 DEF LeftInv, BrowserLeft, RelayLeft
<1>8. ASSUME NEW k, PasskeyStep(k) \/ KeyStep
      PROVE  LeftInv'
  BY <1>7, <1>8 DEF PasskeyStep, KeyStep, NoWallet, storeVars, flagVars, sessionVars
<1>9. CASE UNCHANGED allVars
  BY <1>7, <1>9 DEF allVars, storeVars, flagVars, sessionVars
<1> QED BY <1>1, <1>2, <1>4, <1>5, <1>6, <1>8, <1>9 DEF ConnectorsNext

\* After disconnect() no page load and no event connects until the user does: with an
\* injected wallet that has the shim and does not connect by itself, and over a relay
\* that ends sessions when it is told to, whatever their chains and versions.
THEOREM DisconnectedStays == ConnectorsSpec => []StaysDisconnected
<1>1. ConnectorsSpec => []LeftInv
  <2>1. LeftInv /\ [ConnectorsNext]_allVars => LeftInv'
    BY LeftNext
  <2> QED BY <2>1, LeftInit, PTL DEF ConnectorsSpec
<1>2. LeftInv => StaysDisconnected
  BY DEF LeftInv, StaysDisconnected, BrowserLeft, RelayLeft, Browser!StaysDisconnected,
         Relay!LeavesNoSession
<1> QED BY <1>1, <1>2, PTL

-----------------------------------------------------------------------------
(* What the calls do one at a time. *)

\* Where a call is now, what it is about and what it knows.
Becomes(s, at, ch, acc, was) ==
  job'[s].at = at /\ job'[s].chain = ch /\ job'[s].acc = acc /\ job'[s].was = was

\* ... once it returned, on a chain.
HasReturned(s, ch) ==
  IF job[s].was = None THEN Becomes(s, "idle", None, FALSE, None)
  ELSE Becomes(s, "connect.store", ch, job[s].acc, job[s].was)

\* What a call does to itself.
LEMMA CallBecomes ==
  ASSUME NEW S, NEW Ch, StoreInv(S, Ch), NEW s \in S
  PROVE  /\ \A at, ch : Store(S, Ch)!Start(s, at, ch) =>
              job[s].at = "idle" /\ Becomes(s, at, ch, FALSE, None)
         /\ \A at : Store(S, Ch)!Go(s, at) => Becomes(s, at, job[s].chain, job[s].acc, job[s].was)
         /\ \A at, acc, was :
              Store(S, Ch)!Take(s, at, acc, was) => Becomes(s, at, job[s].chain, acc, was)
         /\ Store(S, Ch)!End(s) => Becomes(s, "idle", None, FALSE, None)
         /\ Store(S, Ch)!Returns(s) => HasReturned(s, job[s].chain)
         /\ Store(S, Ch)!ReturnsUnswitched(s) => HasReturned(s, job[s].was)
<1>j. s \in DOMAIN job /\ job[s] \in JobSet(Ch)
  BY DEF StoreInv, Jobs, JobOK
<1>1. ASSUME NEW at, NEW ch, Store(S, Ch)!Start(s, at, ch)
      PROVE  job[s].at = "idle" /\ Becomes(s, at, ch, FALSE, None)
  BY <1>j, <1>1 DEF Store!Start, Store!InFlight, Store!Job, Becomes
<1>2. ASSUME NEW at, Store(S, Ch)!Go(s, at)
      PROVE  Becomes(s, at, job[s].chain, job[s].acc, job[s].was)
  BY <1>j, <1>2 DEF Store!Go, Becomes, JobSet
<1>3. ASSUME NEW at, NEW acc, NEW was, Store(S, Ch)!Take(s, at, acc, was)
      PROVE  Becomes(s, at, job[s].chain, acc, was)
  BY <1>j, <1>3 DEF Store!Take, Becomes
<1>4. ASSUME Store(S, Ch)!End(s)
      PROVE  Becomes(s, "idle", None, FALSE, None)
  BY <1>j, <1>4 DEF Store!End, Store!IdleJob, Store!Job, Becomes
<1>5. ASSUME Store(S, Ch)!Returns(s)
      PROVE  HasReturned(s, job[s].chain)
  BY <1>j, <1>5 DEF Store!Returns, Store!Return, Store!IdleJob, Store!Job, Becomes, HasReturned,
                    JobSet
<1>6. ASSUME Store(S, Ch)!ReturnsUnswitched(s)
      PROVE  HasReturned(s, job[s].was)
  <2> DEFINE j == [job[s] EXCEPT !.chain = job[s].was]
  <2>1. /\ j.at = job[s].at /\ j.chain = job[s].was /\ j.acc = job[s].acc /\ j.was = job[s].was
        /\ j \in JobSet(Ch)
    BY <1>j DEF JobSet
  <2>2. job'[s] = Store(S, Ch)!Return(j)
    BY <1>j, <1>6 DEF Store!ReturnsUnswitched
  <2> HIDE DEF j
  <2> QED BY <2>1, <2>2 DEF Store!Return, Store!IdleJob, Store!Job, Becomes, HasReturned, JobSet
<1> QED BY <1>1, <1>2, <1>3, <1>4, <1>5, <1>6

\* ... and nothing to another.
LEMMA CallLeavesOthers ==
  ASSUME NEW S, NEW Ch, StoreInv(S, Ch), NEW s \in S, NEW t \in S, t # s
  PROVE  /\ \A at, ch : Store(S, Ch)!Start(s, at, ch) => job'[t] = job[t]
         /\ \A at : Store(S, Ch)!Go(s, at) => job'[t] = job[t]
         /\ \A at, acc, was : Store(S, Ch)!Take(s, at, acc, was) => job'[t] = job[t]
         /\ Store(S, Ch)!End(s) => job'[t] = job[t]
         /\ Store(S, Ch)!Returns(s) => job'[t] = job[t]
         /\ Store(S, Ch)!ReturnsUnswitched(s) => job'[t] = job[t]
<1>1. ASSUME NEW j, job' = [job EXCEPT ![s] = j]
      PROVE  job'[t] = job[t]
  BY <1>1 DEF StoreInv, Jobs
<1> QED BY <1>1 DEF Store!Start, Store!Go, Store!Take, Store!End, Store!Returns,
                    Store!ReturnsUnswitched

\* emit('change') reaches the connection, if the Config listens.
ChangeIsHeard(ch) ==
  /\ on' = on /\ temps' = {x \in temps : x[2] # ch}
  /\ link' = None <=> link = None
  /\ "change" \notin on => link' = link
  /\ link # None => link'.acc = link.acc
  /\ link # None /\ "change" \in on => link'.chain = ch

LEMMA ChangeReaches ==
  ASSUME NEW S, NEW Ch, Apart(Ch), StoreInv(S, Ch), NEW ch \in Ch, NEW jobs,
         Store(S, Ch)!EmitChange(ch, jobs)
  PROVE  ChangeIsHeard(ch)
<1>1. CASE "change" \in on /\ link # None
  <2>1. link' = [link EXCEPT !.chain = ch] /\ link \in Conns(Ch)
    BY <1>1 DEF Store!EmitChange, StoreInv
  <2>2. link' # None
    BY <2>1, EditConnection
  <2>3. link'.acc = link.acc /\ link'.chain = ch
    BY <2>1 DEF Conns
  <2> QED BY <1>1, <2>2, <2>3 DEF Store!EmitChange, ChangeIsHeard
<1>2. CASE ~("change" \in on /\ link # None)
  BY <1>2 DEF Store!EmitChange, ChangeIsHeard
<1> QED BY <1>1, <1>2

\* ... and a call that waits for it returns.
LEMMA ChangeBecomes ==
  ASSUME NEW S, NEW Ch, StoreInv(S, Ch), NEW s \in S, NEW ch
  PROVE  /\ \A at : /\ Store(S, Ch)!EmitChange(ch, [job EXCEPT ![s].at = at])
                    /\ at # "switch.event"
                    => Becomes(s, at, job[s].chain, job[s].acc, job[s].was)
         /\ /\ Store(S, Ch)!EmitChange(ch, [job EXCEPT ![s].at = "switch.event"])
            /\ job[s].chain = ch
            => HasReturned(s, ch)
         /\ Store(S, Ch)!EmitChange(ch, [job EXCEPT ![s] = Store(S, Ch)!Return(job[s])])
            => HasReturned(s, job[s].chain)
         /\ Store(S, Ch)!EmitChange(ch, job) /\ job[s].at # "switch.event" => job'[s] = job[s]
<1>j. s \in DOMAIN job /\ job[s] \in JobSet(Ch)
  BY DEF StoreInv, Jobs, JobOK
<1>1. ASSUME NEW j, Store(S, Ch)!EmitChange(ch, [job EXCEPT ![s] = j])
      PROVE  job'[s] = IF j.at = "switch.event" /\ j.chain = ch THEN Store(S, Ch)!Return(j) ELSE j
  BY <1>j, <1>1 DEF Store!EmitChange
<1>2. ASSUME NEW at
      PROVE  /\ [job EXCEPT ![s].at = at] = [job EXCEPT ![s] = [job[s] EXCEPT !.at = at]]
             /\ [job[s] EXCEPT !.at = at].at = at
             /\ [job[s] EXCEPT !.at = at].chain = job[s].chain
             /\ [job[s] EXCEPT !.at = at].acc = job[s].acc
             /\ [job[s] EXCEPT !.at = at].was = job[s].was
             /\ [[job[s] EXCEPT !.at = at] EXCEPT !.at = "connect.store"]
                  = [job[s] EXCEPT !.at = "connect.store"]
  BY <1>j DEF JobSet
<1>3. ASSUME NEW at, Store(S, Ch)!EmitChange(ch, [job EXCEPT ![s].at = at]), at # "switch.event"
      PROVE  Becomes(s, at, job[s].chain, job[s].acc, job[s].was)
  <2> DEFINE j == [job[s] EXCEPT !.at = at]
  <2>1. Store(S, Ch)!EmitChange(ch, [job EXCEPT ![s] = j])
    BY <1>2, <1>3, Zenon
  <2>2. /\ j.at = at /\ j.chain = job[s].chain /\ j.acc = job[s].acc /\ j.was = job[s].was
    BY <1>2
  <2> HIDE DEF j
  <2>3. job'[s] = j
    BY <1>1, <1>3, <2>1, <2>2
  <2> QED BY <2>2, <2>3 DEF Becomes
<1>4. ASSUME Store(S, Ch)!EmitChange(ch, [job EXCEPT ![s].at = "switch.event"]), job[s].chain = ch
      PROVE  HasReturned(s, ch)
  <2> DEFINE j == [job[s] EXCEPT !.at = "switch.event"]
  <2>1. Store(S, Ch)!EmitChange(ch, [job EXCEPT ![s] = j])
    BY <1>2, <1>4, Zenon
  <2>2. /\ j.at = "switch.event" /\ j.chain = ch /\ j.was = job[s].was
        /\ [j EXCEPT !.at = "connect.store"] = [job[s] EXCEPT !.at = "connect.store"]
    BY <1>2, <1>4
  <2> HIDE DEF j
  <2>3. job'[s] = IF job[s].was # None THEN [job[s] EXCEPT !.at = "connect.store"]
                  ELSE Store(S, Ch)!IdleJob
    BY <1>1, <2>1, <2>2 DEF Store!Return
  <2>4. CASE job[s].was = None
    BY <2>3, <2>4 DEF Store!IdleJob, Store!Job, Becomes, HasReturned
  <2>5. CASE job[s].was # None
    BY <1>j, <1>4, <2>3, <2>5 DEF Becomes, HasReturned, JobSet
  <2> QED BY <2>4, <2>5
<1>5. ASSUME Store(S, Ch)!EmitChange(ch, [job EXCEPT ![s] = Store(S, Ch)!Return(job[s])])
      PROVE  HasReturned(s, job[s].chain)
  <2> DEFINE j == Store(S, Ch)!Return(job[s])
  <2>1. /\ job[s].was = None => j.at = "idle" /\ j.chain = None /\ j.acc = FALSE /\ j.was = None
        /\ job[s].was # None => /\ j.at = "connect.store" /\ j.chain = job[s].chain
                                /\ j.acc = job[s].acc /\ j.was = job[s].was
    BY <1>2 DEF Store!Return, Store!IdleJob, Store!Job
  <2>2. job'[s] = j
    BY <1>1, <1>5, <2>1
  <2> QED BY <2>1, <2>2 DEF Becomes, HasReturned
<1>6. ASSUME Store(S, Ch)!EmitChange(ch, job), job[s].at # "switch.event"
      PROVE  job'[s] = job[s]
  BY <1>6 DEF Store!EmitChange
<1> QED BY <1>3, <1>4, <1>5, <1>6

\* ... and another one does not notice.
LEMMA ChangeSpares ==
  ASSUME NEW S, NEW Ch, StoreInv(S, Ch), NEW s \in S, NEW t \in S, t # s, NEW ch,
         job[t].at # "switch.event"
  PROVE  /\ \A at : Store(S, Ch)!EmitChange(ch, [job EXCEPT ![s].at = at]) => job'[t] = job[t]
         /\ \A j : Store(S, Ch)!EmitChange(ch, [job EXCEPT ![s] = j]) => job'[t] = job[t]
<1>1. ASSUME NEW jobs, Store(S, Ch)!EmitChange(ch, jobs), jobs[t] = job[t]
      PROVE  job'[t] = job[t]
  BY <1>1 DEF Store!EmitChange
<1>2. /\ \A at : [job EXCEPT ![s].at = at][t] = job[t]
      /\ \A j : [job EXCEPT ![s] = j][t] = job[t]
  BY DEF StoreInv, Jobs
<1>3. ASSUME NEW at, Store(S, Ch)!EmitChange(ch, [job EXCEPT ![s].at = at])
      PROVE  job'[t] = job[t]
  BY <1>1, <1>2, <1>3
<1>4. ASSUME NEW j, Store(S, Ch)!EmitChange(ch, [job EXCEPT ![s] = j])
      PROVE  job'[t] = job[t]
  BY <1>1, <1>2, <1>4
<1> QED BY <1>3, <1>4

-----------------------------------------------------------------------------
(* An injected wallet. *)

\* What a call and an event of this connector do to a call.
BrowserDoes(b, s) ==
  /\ \A at, ch : Browser(b)!Start(s, at, ch) =>
                   job[s].at = "idle" /\ Becomes(s, at, ch, FALSE, None)
  /\ \A at : Browser(b)!Go(s, at) => Becomes(s, at, job[s].chain, job[s].acc, job[s].was)
  /\ \A at, acc, was : Browser(b)!Take(s, at, acc, was) => Becomes(s, at, job[s].chain, acc, was)
  /\ Browser(b)!End(s) => Becomes(s, "idle", None, FALSE, None)
  /\ Browser(b)!Returns(s) => HasReturned(s, job[s].chain)
  /\ Browser(b)!ReturnsUnswitched(s) => HasReturned(s, job[s].was)

\* ... which are those of Connector.
LEMMA BrowserCalls ==
  ASSUME NEW b, NEW S, NEW Ch, InBrowser(b, S, Ch), NEW s \in S
  PROVE  BrowserDoes(b, s)
<1>1. StoreInv(S, Ch)
  BY DEF InBrowser, WalletInv
<1>2. /\ \A at, ch : Browser(b)!Start(s, at, ch) <=> Store(S, Ch)!Start(s, at, ch)
      /\ \A at : Browser(b)!Go(s, at) <=> Store(S, Ch)!Go(s, at)
      /\ \A at, acc, was : Browser(b)!Take(s, at, acc, was) <=> Store(S, Ch)!Take(s, at, acc, was)
      /\ Browser(b)!End(s) <=> Store(S, Ch)!End(s)
      /\ Browser(b)!Returns(s) <=> Store(S, Ch)!Returns(s)
      /\ Browser(b)!ReturnsUnswitched(s) <=> Store(S, Ch)!ReturnsUnswitched(s)
  BY BrowserStore DEF InBrowser
<1> QED BY <1>1, <1>2, CallBecomes DEF BrowserDoes

\* An event of its reaches the connection,
LEMMA BrowserHears ==
  ASSUME NEW b, NEW S, NEW Ch, InBrowser(b, S, Ch), NEW ch \in Ch, NEW jobs,
         Browser(b)!EmitChange(ch, jobs)
  PROVE  ChangeIsHeard(ch)
<1>1. Store(S, Ch)!EmitChange(ch, jobs)
  BY BrowserStore DEF InBrowser
<1> QED BY <1>1, ChangeReaches DEF InBrowser, OfBrowser, WalletInv

\* ... and the calls.
LEMMA BrowserChanges ==
  ASSUME NEW b, NEW S, NEW Ch, InBrowser(b, S, Ch), NEW s \in S, NEW ch \in Ch
  PROVE  /\ \A at : /\ Browser(b)!EmitChange(ch, [job EXCEPT ![s].at = at])
                    /\ at # "switch.event"
                    => Becomes(s, at, job[s].chain, job[s].acc, job[s].was)
         /\ /\ Browser(b)!EmitChange(ch, [job EXCEPT ![s].at = "switch.event"])
            /\ job[s].chain = ch
            => HasReturned(s, ch)
         /\ Browser(b)!EmitChange(ch, [job EXCEPT ![s] = Browser(b)!Return(job[s])])
            => HasReturned(s, job[s].chain)
         /\ Browser(b)!EmitChange(ch, job) /\ job[s].at # "switch.event" => job'[s] = job[s]
<1>1. Browser(b)!Return(job[s]) = Store(S, Ch)!Return(job[s])
  BY BrowserStore DEF InBrowser
<1>2. \A jobs : Browser(b)!EmitChange(ch, jobs) <=> Store(S, Ch)!EmitChange(ch, jobs)
  BY BrowserStore DEF InBrowser
<1> QED BY <1>1, <1>2, ChangeBecomes DEF InBrowser, OfBrowser, WalletInv

\* Accounts of an injected wallet reach a connection with a call that has them.
BrowserAccount(S) ==
  /\ link # None => link.acc
  /\ \A s \in S :
       /\ job[s].at = "reconnect.connect" => granted
       /\ job[s].at \in {"connect.chain", "connect.store"} \/ job[s].was # None => job[s].acc

\* A call that was begun by whom is connected, or by the wallet.
BrowserPlaces ==
  {"idle", "disconnect.revoke", "switch.wallet", "switch.confirm", "accounts.chain", "onConnect",
   "onDisconnect"}

\* ... and its connection is the one the wallet has.
BrowserTracks(S) ==
  /\ link # None =>
       /\ granted /\ {"change", "disconnect"} \subseteq on
       /\ link.chain = chain \/ \E s \in S : job[s].at = "switch.confirm"
       /\ {"accountsChanged", "chainChanged"} \subseteq listening
          \/ \E s \in S : job[s].at = "disconnect.revoke"
  /\ \A s \in S :
       /\ link # None => job[s].at \in BrowserPlaces /\ job[s].was = None
       /\ job[s].at \in {"connect.chain", "connect.store"} \/ job[s].was # None =>
            granted /\ {"accountsChanged", "chainChanged"} \subseteq listening
       /\ job[s].at = "reconnect.connect" => granted
       /\ job[s].at \in {"connect.store", "switch.confirm", "onConnect"} => job[s].chain = chain
       /\ job[s].at # "switch.event" /\ (job[s].at = "idle" => job[s].was = None)
       /\ \A x \in temps : job[s].at \in {"switch.wallet", "switch.confirm"} /\ x[2] = job[s].chain

\* A call keeps that a connection has an account,
LEMMA BrowserAccountCall ==
  ASSUME NEW b, NEW S, NEW Ch, InBrowser(b, S, Ch), Single(S), Browsers[b].patient,
         BrowserAccount(S), NEW s \in S,
         \/ Browser(b)!ConnectStore(s) \/ Browser(b)!Answer(s) \/ Browser(b)!Call(s)
         \/ Browser(b)!WalletAccounts(s) \/ Browser(b)!ProviderConnect(s)
         \/ Browser(b)!ProviderDisconnect1013(s)
  PROVE  BrowserAccount(S)'
<1>s. S = Browsers[b].slots /\ \A t \in S : t = s
  BY DEF Single, InBrowser, OfBrowser
<1>t. /\ job = [t \in S |-> job[t]] /\ job[s] \in JobSet(Ch) /\ None \notin Ch /\ chain \in Ch
      /\ job[s].at \in SwitchPlaces => job[s].chain \in Ch/\ granted \in BOOLEAN
      /\ link # None => link \in Conns(Ch)
  BY DEF InBrowser, OfBrowser, WalletInv, StoreInv, Jobs, JobOK, Apart
<1>c. BrowserDoes(b, s)
  BY BrowserCalls
<1>1. ASSUME Browser(b)!ConnectReject(s)
      PROVE  BrowserAccount(S)'
  BY <1>s, <1>t, <1>c, <1>1
  DEF Browser!ConnectReject, Browser!At, Browser!Fail, Browser!Turn, Browser!Failed,
      Browser!wallet, Browser!flags, Browser!store, BrowserDoes, Becomes, BrowserAccount
<1>2. ASSUME Browser(b)!ConnectAccept(s)
      PROVE  BrowserAccount(S)'
  <2>1. /\ granted' = TRUE /\ link' = link
        /\ Becomes(s, "connect.chain", job[s].chain, TRUE, job[s].was)
    BY <1>c, <1>2 DEF Browser!ConnectAccept, Browser!store, BrowserDoes
  <2> QED BY <1>s, <2>1 DEF Becomes, BrowserAccount
<1>3. ASSUME Browser(b)!ConnectChain(s)
      PROVE  BrowserAccount(S)'
  BY <1>s, <1>t, <1>c, <1>3
  DEF Browser!ConnectChain, Browser!At, Browser!Connected, Browser!wallet, Browser!flags,
      Browser!store, Browser!Turn, Browser!Stored, BrowserDoes, Becomes, BrowserAccount
<1>4. ASSUME Browser(b)!Authorized(s)
      PROVE  BrowserAccount(S)'
  BY <1>s, <1>t, <1>c, <1>4
  DEF Browser!Authorized, Browser!At, Browser!wallet, Browser!flags, Browser!Turn,
      Browser!store, BrowserDoes, Becomes, BrowserAccount
<1>5. ASSUME Browser(b)!Reconnected(s)
      PROVE  BrowserAccount(S)'
  BY <1>s, <1>t, <1>c, <1>5
  DEF Browser!Reconnected, Browser!At, Browser!WhenConnected, Browser!wallet, Browser!flags,
      Browser!store, Browser!Turn, BrowserDoes, Becomes, BrowserAccount
<1>6. ASSUME Browser(b)!DisconnectDone(s)
      PROVE  BrowserAccount(S)'
  BY <1>s, <1>t, <1>c, <1>6
  DEF Browser!DisconnectDone, Browser!At, Browser!Removed, Browser!Turn, Browser!store,
      BrowserDoes, Becomes, BrowserAccount
<1>7. ASSUME Browser(b)!SwitchReject(s)
      PROVE  BrowserAccount(S)'
  BY <1>s, <1>t, <1>c, <1>7
  DEF Browser!SwitchReject, Browser!At, Browser!wallet, Browser!Forgotten, Browser!Fail,
      Browser!flags, Browser!store, Browser!Turn, Browser!Failed, BrowserDoes, Becomes,
      BrowserAccount
<1>8. ASSUME Browser(b)!SwitchFail(s)
      PROVE  BrowserAccount(S)'
  BY <1>s, <1>t, <1>c, <1>8
  DEF Browser!SwitchFail, Browser!At, Browser!wallet, Browser!Forgotten, Browser!flags,
      Browser!store, Browser!Turn, BrowserDoes, Becomes, HasReturned, BrowserAccount
<1>9. ASSUME Browser(b)!SwitchLoud(s)
      PROVE  BrowserAccount(S)'
  <2>1. /\ job[s].at = "switch.wallet" /\ "chainChanged" \in listening
        /\ chain' = job[s].chain /\ granted' = granted /\ listening' = listening
        /\ Browser(b)!EmitChange(job[s].chain, [job EXCEPT ![s].at = "switch.confirm"])
    BY <1>9 DEF Browser!SwitchLoud, Browser!At
  <2>2. job[s].chain \in Ch
    BY <1>t, <2>1 DEF SwitchPlaces
  <2>3. /\ ChangeIsHeard(job[s].chain)
        /\ Becomes(s, "switch.confirm", job[s].chain, job[s].acc, job[s].was)
    BY <2>1, <2>2, BrowserHears, BrowserChanges
  <2> QED BY <1>s, <2>1, <2>3 DEF ChangeIsHeard, Becomes, BrowserAccount
<1>10. ASSUME Browser(b)!SwitchSilent(s)
      PROVE  BrowserAccount(S)'
  BY <1>s, <1>t, <1>c, <1>10
  DEF Browser!SwitchSilent, Browser!At, Browser!wallet, Browser!flags, Browser!store,
      Browser!Turn, BrowserDoes, Becomes, BrowserAccount
<1>11. ASSUME Browser(b)!SwitchConfirm(s)
      PROVE  BrowserAccount(S)'
  <2>1. /\ job[s].at = "switch.confirm" /\ chain' = chain /\ granted' = granted
        /\ listening' = listening
    BY <1>11 DEF Browser!SwitchConfirm, Browser!At, Browser!wallet
  <2>2. CASE chain = job[s].chain
    <3>1. Browser(b)!EmitChange(chain, [job EXCEPT ![s].at = "switch.event"])
      BY <2>2, <1>11 DEF Browser!SwitchConfirm
    <3>2. ChangeIsHeard(chain) /\ HasReturned(s, chain)
      BY <1>t, <2>2, <3>1, BrowserHears, BrowserChanges
    <3> QED BY <1>s, <1>t, <2>1, <2>2, <3>2 DEF ChangeIsHeard, HasReturned, Becomes, BrowserAccount
  <2>3. CASE chain # job[s].chain
    <3>1. /\ link' = link
          /\ job' = [job EXCEPT ![s] = IF <<s, job[s].chain>> \in temps
                                   THEN [job[s] EXCEPT !.at = "switch.event"]
                                   ELSE Browser(b)!Return(job[s])]
      BY <2>3, <1>11 DEF Browser!SwitchConfirm, Browser!AwaitEvent, Browser!store
    <3>2. \/ Becomes(s, "switch.event", job[s].chain, job[s].acc, job[s].was)
          \/ HasReturned(s, job[s].chain)
      BY <1>t, <1>c, <3>1 DEF BrowserDoes, Browser!Returns, Becomes, JobSet
    <3> QED BY <1>s, <2>1, <3>1, <3>2 DEF HasReturned, Becomes, BrowserAccount
  <2> QED BY <2>2, <2>3
<1>12. ASSUME Browser(b)!AccountsChain(s)
      PROVE  BrowserAccount(S)'
  BY <1>s, <1>t, <1>12
  DEF Browser!AccountsChain, Browser!At, Browser!Job, Browser!wallet, Browser!store,
      Browser!Turn, BrowserAccount
<1>13. ASSUME Browser(b)!OnConnect(s)
      PROVE  BrowserAccount(S)'
  BY <1>s, <1>t, <1>c, <1>13
  DEF Browser!OnConnect, Browser!At, Browser!EmitConnect, Browser!WhenConnected, Browser!store,
      Browser!wallet, Browser!flags, Browser!Turn, Browser!Adopt, BrowserDoes, Becomes,
      BrowserAccount
<1>14. ASSUME Browser(b)!OnDisconnect1013(s)
      PROVE  BrowserAccount(S)'
  BY <1>s, <1>t, <1>c, <1>14
  DEF Browser!OnDisconnect1013, Browser!At, Browser!store, Browser!OnDisconnect, Browser!wallet,
      Browser!flags, Browser!Turn, Browser!EmitDisconnect, Browser!WhenDisconnected,
      BrowserDoes, Becomes, BrowserAccount
<1>15. ASSUME Browser(b)!ConnectStore(s)
      PROVE  BrowserAccount(S)'
  BY <1>s, <1>t, <1>c, <1>15
  DEF Browser!ConnectStore, Browser!store, Browser!Connected, Browser!Stored, Browser!wallet,
      BrowserDoes, Becomes, BrowserAccount
<1>16. ASSUME Browser(b)!Disconnect(s)
      PROVE  BrowserAccount(S)'
  BY <1>s, <1>t, <1>c, <1>16
  DEF Browser!Disconnect, Browser!WhenDisconnected, Browser!wallet, Browser!flags,
      Browser!store, BrowserDoes, Becomes, BrowserAccount
<1>17. ASSUME Browser(b)!WalletAccounts(s)
      PROVE  BrowserAccount(S)'
  <2>1. /\ job[s].at = "idle" /\ granted' = TRUE /\ chain' = chain /\ listening' = listening
        /\ on' = on /\ temps' = temps
    BY <1>s, <1>17 DEF Browser!WalletAccounts, Browser!WalletActs, Browser!Calm, Browser!InFlight
  <2>2. CASE "accountsChanged" \in listening /\ "connect" \in on
    <3>1. link' = link /\ Becomes(s, "accounts.chain", None, FALSE, None)
      BY <1>c, <2>2, <1>17 DEF Browser!WalletAccounts, BrowserDoes
    <3> QED BY <1>s, <2>1, <3>1 DEF Becomes, BrowserAccount
  <2>3. CASE ~("accountsChanged" \in listening /\ "connect" \in on)
    <3>1. job' = job /\ (link' = link \/ (link # None /\ link' = [link EXCEPT !.acc = TRUE]))
      BY <2>3, <1>17 DEF Browser!WalletAccounts
    <3>2. link # None =>
            [link EXCEPT !.acc = TRUE].chain = link.chain /\ [link EXCEPT !.acc = TRUE].acc
      BY <1>t DEF Conns
    <3> QED BY <1>s, <2>1, <3>1, <3>2 DEF BrowserAccount
  <2> QED BY <2>2, <2>3
<1>18. ASSUME Browser(b)!ProviderConnect(s)
      PROVE  BrowserAccount(S)'
  BY <1>s, <1>t, <1>c, <1>18
  DEF Browser!ProviderConnect, Browser!WalletActs, Browser!wallet, Browser!flags, Browser!store,
      Browser!Turn, Browser!Calm, Browser!InFlight, BrowserDoes, Becomes, BrowserAccount
<1>19. ASSUME Browser(b)!ProviderDisconnect1013(s)
      PROVE  BrowserAccount(S)'
  BY <1>s, <1>t, <1>c, <1>19
  DEF Browser!ProviderDisconnect1013, Browser!WalletActs, Browser!wallet, Browser!flags,
      Browser!store, Browser!Turn, Browser!Calm, Browser!InFlight, BrowserDoes, Becomes,
      BrowserAccount
<1>20. ASSUME NEW ch \in Ch \cup {None}, Browser(b)!Connect(s, ch)
      PROVE  BrowserAccount(S)'
  BY <1>s, <1>t, <1>c, <1>20
  DEF Browser!Connect, Browser!wallet, Browser!flags, BrowserDoes, Becomes, BrowserAccount
<1>21. ASSUME NEW ch \in Ch, Browser(b)!SwitchChain(s, ch)
      PROVE  BrowserAccount(S)'
  BY <1>s, <1>t, <1>c, <1>21
  DEF Browser!SwitchChain, Browser!wallet, Browser!flags, Browser!store, BrowserDoes, Becomes,
      BrowserAccount
<1> QED BY <1>1, <1>2, <1>3, <1>4, <1>5, <1>6, <1>7, <1>8, <1>9, <1>10, <1>11, <1>12, <1>13, <1>14,
           <1>15, <1>16, <1>17, <1>18, <1>19, <1>20, <1>21, <1>s
        DEF Browser!Answer, Browser!Call, InBrowser, OfBrowser

\* ... and every step does.
LEMMA BrowserAccountNext ==
  ASSUME NEW b, NEW S, NEW Ch, InBrowser(b, S, Ch), Single(S), Browsers[b].patient,
         BrowserAccount(S), Browser(b)!Next
  PROVE  BrowserAccount(S)'
<1>s. S = Browsers[b].slots /\ Ch = Browsers[b].chains
  BY DEF InBrowser, OfBrowser
<1>t. /\ job = [t \in S |-> job[t]] /\ None \notin Ch /\ chain \in Ch
      /\ link # None => link \in Conns(Ch) /\ None \notin Conns(Ch)
      /\ \A t \in S : job[t] \in JobSet(Ch)
  BY DEF InBrowser, OfBrowser, WalletInv, StoreInv, Jobs, JobOK, Apart
<1>1. ASSUME Browser(b)!WalletLock
      PROVE  BrowserAccount(S)'
  BY <1>s, <1>t, <1>1
  DEF Browser!WalletLock, Browser!WalletActs, Browser!OnDisconnect, Browser!store,
      Browser!flags, Browser!Turn, Browser!Calm, Browser!EmitDisconnect,
      Browser!WhenDisconnected, Browser!InFlight, BrowserAccount
<1>2. ASSUME Browser(b)!ProviderDisconnect
      PROVE  BrowserAccount(S)'
  BY <1>s, <1>t, <1>2
  DEF Browser!ProviderDisconnect, Browser!WalletActs, Browser!OnDisconnect, Browser!wallet,
      Browser!flags, Browser!Turn, Browser!Calm, Browser!EmitDisconnect,
      Browser!WhenDisconnected, Browser!store, Browser!InFlight, BrowserAccount
<1>3. ASSUME NEW ch \in Ch, Browser(b)!WalletChain(ch)
      PROVE  BrowserAccount(S)'
  <2>1. /\ (\A s \in S : job[s].at = "idle") /\ granted' = granted
        /\ chain' = ch /\ listening' = listening
    BY <1>s, <1>3 DEF Browser!WalletChain, Browser!WalletActs, Browser!Calm, Browser!InFlight,
                      Browser!wallet
  <2>2. CASE "chainChanged" \in listening
    <3>1. Browser(b)!EmitChange(ch, job)
      BY <2>2, <1>3 DEF Browser!WalletChain
    <3>2. ChangeIsHeard(ch) /\ \A s \in S : job'[s] = job[s]
      BY <2>1, <3>1, BrowserChanges, BrowserHears
    <3> QED BY <2>1, <2>2, <3>2 DEF ChangeIsHeard, BrowserAccount
  <2>3. CASE ~("chainChanged" \in listening)
    <3>1. link' = link /\ on' = on /\ temps' = temps /\ job' = job
      BY <2>3, <1>3 DEF Browser!WalletChain, Browser!store
    <3> QED BY <2>1, <2>3, <3>1 DEF BrowserAccount
  <2> QED BY <2>2, <2>3
<1>4. ASSUME Browser(b)!Load
      PROVE  BrowserAccount(S)'
  <2>1. PICK s \in S : job' = [t \in S |-> IF t = s /\ Browser(b)!MayReconnect
                                              THEN Browser(b)!Job("reconnect.accounts", None)
                                              ELSE Browser(b)!IdleJob]
    BY <1>4, <1>s DEF Browser!Load, Browser!Opened
  <2>2. link' = None /\ temps' = {}
    BY <1>4 DEF Browser!Load, Browser!Opened
  <2> QED BY <2>1, <2>2 DEF Browser!Job, Browser!IdleJob, BrowserAccount
<1> QED BY <1>1, <1>2, <1>3, <1>4, <1>s, BrowserAccountCall DEF Browser!Next, Browser!Wallet

\* A call keeps the connection at the wallet's,
LEMMA BrowserTracksCall ==
  ASSUME NEW b, NEW S, NEW Ch, InBrowser(b, S, Ch), Single(S), Browsers[b].patient,
         ~ Browsers[b].rejects,
         BrowserTracks(S), NEW s \in S,
         \/ Browser(b)!ConnectStore(s) \/ Browser(b)!Answer(s) \/ Browser(b)!Call(s)
         \/ Browser(b)!WalletAccounts(s) \/ Browser(b)!ProviderConnect(s)
         \/ Browser(b)!ProviderDisconnect1013(s)
  PROVE  BrowserTracks(S)'
<1>s. S = Browsers[b].slots /\ \A t \in S : t = s
  BY DEF Single, InBrowser, OfBrowser
<1>t. /\ job = [t \in S |-> job[t]] /\ job[s] \in JobSet(Ch) /\ None \notin Ch /\ chain \in Ch
      /\ job[s].at \in SwitchPlaces => job[s].chain \in Ch/\ granted \in BOOLEAN
      /\ link # None => link \in Conns(Ch)
  BY DEF InBrowser, OfBrowser, WalletInv, StoreInv, Jobs, JobOK, Apart
<1>c. BrowserDoes(b, s)
  BY BrowserCalls
<1>1. ASSUME Browser(b)!ConnectReject(s)
      PROVE  BrowserTracks(S)'
  BY <1>s, <1>t, <1>c, <1>1
  DEF Browser!ConnectReject, Browser!At, Browser!Fail, Browser!Turn, Browser!Failed,
      Browser!wallet, Browser!flags, Browser!store, BrowserDoes, Becomes, BrowserTracks,
      BrowserPlaces
<1>2. ASSUME Browser(b)!ConnectAccept(s)
      PROVE  BrowserTracks(S)'
  <2>1. /\ job[s].at = "connect.prompt" /\ granted' /\ link' = link /\ temps' = temps
        /\ Becomes(s, "connect.chain", job[s].chain, TRUE, job[s].was)
    BY <1>c, <1>2 DEF Browser!ConnectAccept, Browser!At, Browser!store, BrowserDoes
  <2>2. {"accountsChanged", "chainChanged"} \subseteq listening'
    BY <1>2 DEF Browser!ConnectAccept, Browser!WhenConnected
  <2>3. link = None /\ temps = {}
    BY <2>1 DEF BrowserTracks, BrowserPlaces
  <2> QED BY <1>s, <2>1, <2>2, <2>3 DEF Becomes, BrowserTracks, BrowserPlaces
<1>3. ASSUME Browser(b)!ConnectChain(s)
      PROVE  BrowserTracks(S)'
  BY <1>s, <1>t, <1>c, <1>3
  DEF Browser!ConnectChain, Browser!At, Browser!Connected, Browser!wallet, Browser!flags,
      Browser!store, Browser!Turn, Browser!Stored, BrowserDoes, Becomes, BrowserTracks,
      BrowserPlaces
<1>4. ASSUME Browser(b)!Authorized(s)
      PROVE  BrowserTracks(S)'
  BY <1>s, <1>t, <1>c, <1>4, SMTT(30)
  DEF Browser!Authorized, Browser!At, Browser!wallet, Browser!flags, Browser!Turn,
      Browser!store, BrowserDoes, Becomes, BrowserTracks, BrowserPlaces
<1>5. ASSUME Browser(b)!Reconnected(s)
      PROVE  BrowserTracks(S)'
  BY <1>s, <1>t, <1>c, <1>5
  DEF Browser!Reconnected, Browser!At, Browser!WhenConnected, Browser!wallet, Browser!flags,
      Browser!store, Browser!Turn, BrowserDoes, Becomes, BrowserTracks, BrowserPlaces
<1>6. ASSUME Browser(b)!DisconnectDone(s)
      PROVE  BrowserTracks(S)'
  BY <1>s, <1>t, <1>c, <1>6
  DEF Browser!DisconnectDone, Browser!At, Browser!Removed, Browser!Turn, Browser!store,
      BrowserDoes, Becomes, BrowserTracks, BrowserPlaces
<1>7. ASSUME Browser(b)!SwitchReject(s)
      PROVE  BrowserTracks(S)'
  BY <1>s, <1>t, <1>c, <1>7
  DEF Browser!SwitchReject, Browser!At, Browser!wallet, Browser!Forgotten, Browser!Fail,
      Browser!flags, Browser!store, Browser!Turn, Browser!Failed, BrowserDoes, Becomes,
      BrowserTracks, BrowserPlaces
<1>8. ASSUME Browser(b)!SwitchFail(s)
      PROVE  BrowserTracks(S)'
  BY <1>s, <1>t, <1>c, <1>8
  DEF Browser!SwitchFail, Browser!At, Browser!wallet, Browser!Forgotten, Browser!flags,
      Browser!store, Browser!Turn, BrowserDoes, Becomes, HasReturned, BrowserTracks,
      BrowserPlaces
<1>9. ASSUME Browser(b)!SwitchLoud(s)
      PROVE  BrowserTracks(S)'
  <2>1. /\ job[s].at = "switch.wallet" /\ "chainChanged" \in listening
        /\ chain' = job[s].chain /\ granted' = granted /\ listening' = listening
        /\ Browser(b)!EmitChange(job[s].chain, [job EXCEPT ![s].at = "switch.confirm"])
    BY <1>9 DEF Browser!SwitchLoud, Browser!At
  <2>2. job[s].chain \in Ch
    BY <1>t, <2>1 DEF SwitchPlaces
  <2>3. /\ ChangeIsHeard(job[s].chain)
        /\ Becomes(s, "switch.confirm", job[s].chain, job[s].acc, job[s].was)
    BY <2>1, <2>2, BrowserHears, BrowserChanges
  <2> QED BY <1>s, <2>1, <2>3 DEF ChangeIsHeard, Becomes, BrowserTracks, BrowserPlaces
<1>10. ASSUME Browser(b)!SwitchSilent(s)
      PROVE  BrowserTracks(S)'
  BY <1>s, <1>t, <1>c, <1>10
  DEF Browser!SwitchSilent, Browser!At, Browser!wallet, Browser!flags, Browser!store,
      Browser!Turn, BrowserDoes, Becomes, BrowserTracks, BrowserPlaces
<1>11. ASSUME Browser(b)!SwitchConfirm(s)
      PROVE  BrowserTracks(S)'
  <2>1. /\ job[s].at = "switch.confirm" /\ chain' = chain /\ granted' = granted
        /\ listening' = listening
    BY <1>11 DEF Browser!SwitchConfirm, Browser!At, Browser!wallet
  <2>2. CASE chain = job[s].chain
    <3>1. Browser(b)!EmitChange(chain, [job EXCEPT ![s].at = "switch.event"])
      BY <2>2, <1>11 DEF Browser!SwitchConfirm
    <3>2. ChangeIsHeard(chain) /\ HasReturned(s, chain)
      BY <1>t, <2>2, <3>1, BrowserHears, BrowserChanges
    <3> QED BY <1>s, <1>t, <2>1, <2>2, <3>2
            DEF ChangeIsHeard, HasReturned, Becomes, BrowserTracks, BrowserPlaces
  <2>3. chain = job[s].chain
    BY <2>1 DEF BrowserTracks, BrowserPlaces
  <2> QED BY <2>2, <2>3
<1>12. ASSUME Browser(b)!AccountsChain(s)
      PROVE  BrowserTracks(S)'
  BY <1>s, <1>t, <1>12
  DEF Browser!AccountsChain, Browser!At, Browser!Job, Browser!wallet, Browser!store,
      Browser!Turn, BrowserTracks, BrowserPlaces
<1>13. ASSUME Browser(b)!OnConnect(s)
      PROVE  BrowserTracks(S)'
  BY <1>s, <1>t, <1>c, <1>13
  DEF Browser!OnConnect, Browser!At, Browser!EmitConnect, Browser!WhenConnected, Browser!store,
      Browser!wallet, Browser!flags, Browser!Turn, Browser!Adopt, BrowserDoes, Becomes,
      BrowserTracks, BrowserPlaces
<1>14. ASSUME Browser(b)!OnDisconnect1013(s)
      PROVE  BrowserTracks(S)'
  BY <1>s, <1>t, <1>c, <1>14, SMTT(30)
  DEF Browser!OnDisconnect1013, Browser!At, Browser!store, Browser!OnDisconnect, Browser!wallet,
      Browser!flags, Browser!Turn, Browser!EmitDisconnect, Browser!WhenDisconnected,
      BrowserDoes, Becomes, BrowserTracks, BrowserPlaces
<1>15. ASSUME Browser(b)!ConnectStore(s)
      PROVE  BrowserTracks(S)'
  BY <1>s, <1>t, <1>c, <1>15, SMTT(30)
  DEF Browser!ConnectStore, Browser!store, Browser!Connected, Browser!Stored, Browser!wallet,
      BrowserDoes, Becomes, BrowserTracks, BrowserPlaces
<1>16. ASSUME Browser(b)!Disconnect(s)
      PROVE  BrowserTracks(S)'
  BY <1>s, <1>t, <1>c, <1>16
  DEF Browser!Disconnect, Browser!WhenDisconnected, Browser!wallet, Browser!flags,
      Browser!store, BrowserDoes, Becomes, BrowserTracks, BrowserPlaces
<1>17. ASSUME Browser(b)!WalletAccounts(s)
      PROVE  BrowserTracks(S)'
  <2>1. /\ job[s].at = "idle" /\ granted' = TRUE /\ chain' = chain /\ listening' = listening
        /\ on' = on /\ temps' = temps
    BY <1>s, <1>17 DEF Browser!WalletAccounts, Browser!WalletActs, Browser!Calm, Browser!InFlight
  <2>2. CASE "accountsChanged" \in listening /\ "connect" \in on
    <3>1. link' = link /\ Becomes(s, "accounts.chain", None, FALSE, None)
      BY <1>c, <2>2, <1>17 DEF Browser!WalletAccounts, BrowserDoes
    <3> QED BY <1>s, <2>1, <3>1 DEF Becomes, BrowserTracks, BrowserPlaces
  <2>3. CASE ~("accountsChanged" \in listening /\ "connect" \in on)
    <3>1. job' = job /\ (link' = link \/ (link # None /\ link' = [link EXCEPT !.acc = TRUE]))
      BY <2>3, <1>17 DEF Browser!WalletAccounts
    <3>2. link # None =>
            [link EXCEPT !.acc = TRUE].chain = link.chain /\ [link EXCEPT !.acc = TRUE].acc
      BY <1>t, SMTT(30) DEF Conns
    <3> QED BY <1>s, <2>1, <3>1, <3>2 DEF BrowserTracks, BrowserPlaces
  <2> QED BY <2>2, <2>3
<1>18. ASSUME Browser(b)!ProviderConnect(s)
      PROVE  BrowserTracks(S)'
  BY <1>s, <1>t, <1>c, <1>18, SMTT(30)
  DEF Browser!ProviderConnect, Browser!WalletActs, Browser!wallet, Browser!flags, Browser!store,
      Browser!Turn, Browser!Calm, Browser!InFlight, BrowserDoes, Becomes, BrowserTracks,
      BrowserPlaces
<1>19. ASSUME Browser(b)!ProviderDisconnect1013(s)
      PROVE  BrowserTracks(S)'
  BY <1>s, <1>t, <1>c, <1>19
  DEF Browser!ProviderDisconnect1013, Browser!WalletActs, Browser!wallet, Browser!flags,
      Browser!store, Browser!Turn, Browser!Calm, Browser!InFlight, BrowserDoes, Becomes,
      BrowserTracks, BrowserPlaces
<1>20. ASSUME NEW ch \in Ch \cup {None}, Browser(b)!Connect(s, ch)
      PROVE  BrowserTracks(S)'
  BY <1>s, <1>t, <1>c, <1>20, SMTT(30)
  DEF Browser!Connect, Browser!wallet, Browser!flags, BrowserDoes, Becomes, BrowserTracks,
      BrowserPlaces
<1>21. ASSUME NEW ch \in Ch, Browser(b)!SwitchChain(s, ch)
      PROVE  BrowserTracks(S)'
  BY <1>s, <1>t, <1>c, <1>21
  DEF Browser!SwitchChain, Browser!wallet, Browser!flags, Browser!store, BrowserDoes, Becomes,
      BrowserTracks, BrowserPlaces
<1> QED BY <1>1, <1>2, <1>3, <1>4, <1>5, <1>6, <1>7, <1>8, <1>9, <1>10, <1>11, <1>12, <1>13, <1>14,
           <1>15, <1>16, <1>17, <1>18, <1>19, <1>20, <1>21, <1>s
        DEF Browser!Answer, Browser!Call, InBrowser, OfBrowser

\* ... and every step does.
LEMMA BrowserTracksNext ==
  ASSUME NEW b, NEW S, NEW Ch, InBrowser(b, S, Ch), Single(S), Browsers[b].patient,
         ~ Browsers[b].rejects,
         BrowserTracks(S), Browser(b)!Next
  PROVE  BrowserTracks(S)'
<1>s. S = Browsers[b].slots /\ Ch = Browsers[b].chains
  BY DEF InBrowser, OfBrowser
<1>t. /\ job = [t \in S |-> job[t]] /\ None \notin Ch /\ chain \in Ch
      /\ link # None => link \in Conns(Ch) /\ None \notin Conns(Ch)
      /\ \A t \in S : job[t] \in JobSet(Ch)
  BY DEF InBrowser, OfBrowser, WalletInv, StoreInv, Jobs, JobOK, Apart
<1>1. ASSUME Browser(b)!WalletLock
      PROVE  BrowserTracks(S)'
  BY <1>s, <1>t, <1>1
  DEF Browser!WalletLock, Browser!WalletActs, Browser!OnDisconnect, Browser!store,
      Browser!flags, Browser!Turn, Browser!Calm, Browser!EmitDisconnect,
      Browser!WhenDisconnected, Browser!InFlight, BrowserTracks, BrowserPlaces
<1>2. ASSUME Browser(b)!ProviderDisconnect
      PROVE  BrowserTracks(S)'
  BY <1>s, <1>t, <1>2, ZenonT(60)
  DEF Browser!ProviderDisconnect, Browser!WalletActs, Browser!OnDisconnect, Browser!wallet,
      Browser!flags, Browser!Turn, Browser!Calm, Browser!EmitDisconnect,
      Browser!WhenDisconnected, Browser!store, Browser!InFlight, BrowserTracks, BrowserPlaces
<1>3. ASSUME NEW ch \in Ch, Browser(b)!WalletChain(ch)
      PROVE  BrowserTracks(S)'
  <2>1. /\ (\A s \in S : job[s].at = "idle") /\ granted' = granted
        /\ chain' = ch /\ listening' = listening
    BY <1>s, <1>3 DEF Browser!WalletChain, Browser!WalletActs, Browser!Calm, Browser!InFlight,
                      Browser!wallet
  <2>2. CASE "chainChanged" \in listening
    <3>1. Browser(b)!EmitChange(ch, job)
      BY <2>2, <1>3 DEF Browser!WalletChain
    <3>2. ChangeIsHeard(ch) /\ \A s \in S : job'[s] = job[s]
      BY <2>1, <3>1, BrowserChanges, BrowserHears
    <3> QED BY <2>1, <2>2, <3>2 DEF ChangeIsHeard, BrowserTracks, BrowserPlaces
  <2>3. CASE ~("chainChanged" \in listening)
    <3>1. link' = link /\ on' = on /\ temps' = temps /\ job' = job
      BY <2>3, <1>3 DEF Browser!WalletChain, Browser!store
    <3> QED BY <2>1, <2>3, <3>1 DEF BrowserTracks, BrowserPlaces
  <2> QED BY <2>2, <2>3
<1>4. ASSUME Browser(b)!Load
      PROVE  BrowserTracks(S)'
  <2>1. PICK s \in S : job' = [t \in S |-> IF t = s /\ Browser(b)!MayReconnect
                                              THEN Browser(b)!Job("reconnect.accounts", None)
                                              ELSE Browser(b)!IdleJob]
    BY <1>4, <1>s DEF Browser!Load, Browser!Opened
  <2>2. link' = None /\ temps' = {}
    BY <1>4 DEF Browser!Load, Browser!Opened
  <2> QED BY <2>1, <2>2 DEF Browser!Job, Browser!IdleJob, BrowserTracks, BrowserPlaces
<1> QED BY <1>1, <1>2, <1>3, <1>4, <1>s, BrowserTracksCall DEF Browser!Next, Browser!Wallet

-----------------------------------------------------------------------------
(* Porto. *)

\* What a call and an event of this connector do to a call.
PortoOfDoes(p, s) ==
  /\ \A at, ch : PortoOf(p)!Start(s, at, ch) =>
                   job[s].at = "idle" /\ Becomes(s, at, ch, FALSE, None)
  /\ \A at : PortoOf(p)!Go(s, at) => Becomes(s, at, job[s].chain, job[s].acc, job[s].was)
  /\ \A at, acc, was : PortoOf(p)!Take(s, at, acc, was) => Becomes(s, at, job[s].chain, acc, was)
  /\ PortoOf(p)!End(s) => Becomes(s, "idle", None, FALSE, None)
  /\ PortoOf(p)!Returns(s) => HasReturned(s, job[s].chain)
  /\ PortoOf(p)!ReturnsUnswitched(s) => HasReturned(s, job[s].was)

\* ... which are those of Connector.
LEMMA PortoOfCalls ==
  ASSUME NEW p, NEW S, NEW Ch, InPortoOf(p, S, Ch), NEW s \in S
  PROVE  PortoOfDoes(p, s)
<1>1. StoreInv(S, Ch)
  BY DEF InPortoOf, WalletInv
<1>2. /\ \A at, ch : PortoOf(p)!Start(s, at, ch) <=> Store(S, Ch)!Start(s, at, ch)
      /\ \A at : PortoOf(p)!Go(s, at) <=> Store(S, Ch)!Go(s, at)
      /\ \A at, acc, was : PortoOf(p)!Take(s, at, acc, was) <=> Store(S, Ch)!Take(s, at, acc, was)
      /\ PortoOf(p)!End(s) <=> Store(S, Ch)!End(s)
      /\ PortoOf(p)!Returns(s) <=> Store(S, Ch)!Returns(s)
      /\ PortoOf(p)!ReturnsUnswitched(s) <=> Store(S, Ch)!ReturnsUnswitched(s)
  BY PortoOfStore DEF InPortoOf
<1> QED BY <1>1, <1>2, CallBecomes DEF PortoOfDoes

\* An event of its reaches the connection,
LEMMA PortoOfHears ==
  ASSUME NEW p, NEW S, NEW Ch, InPortoOf(p, S, Ch), NEW ch \in Ch, NEW jobs,
         PortoOf(p)!EmitChange(ch, jobs)
  PROVE  ChangeIsHeard(ch)
<1>1. Store(S, Ch)!EmitChange(ch, jobs)
  BY PortoOfStore DEF InPortoOf
<1> QED BY <1>1, ChangeReaches DEF InPortoOf, OfPortoOf, WalletInv

\* ... and the calls.
LEMMA PortoOfChanges ==
  ASSUME NEW p, NEW S, NEW Ch, InPortoOf(p, S, Ch), NEW s \in S, NEW ch \in Ch
  PROVE  /\ \A at : /\ PortoOf(p)!EmitChange(ch, [job EXCEPT ![s].at = at])
                    /\ at # "switch.event"
                    => Becomes(s, at, job[s].chain, job[s].acc, job[s].was)
         /\ /\ PortoOf(p)!EmitChange(ch, [job EXCEPT ![s].at = "switch.event"])
            /\ job[s].chain = ch
            => HasReturned(s, ch)
         /\ PortoOf(p)!EmitChange(ch, [job EXCEPT ![s] = PortoOf(p)!Return(job[s])])
            => HasReturned(s, job[s].chain)
         /\ PortoOf(p)!EmitChange(ch, job) /\ job[s].at # "switch.event" => job'[s] = job[s]
<1>1. PortoOf(p)!Return(job[s]) = Store(S, Ch)!Return(job[s])
  BY PortoOfStore DEF InPortoOf
<1>2. \A jobs : PortoOf(p)!EmitChange(ch, jobs) <=> Store(S, Ch)!EmitChange(ch, jobs)
  BY PortoOfStore DEF InPortoOf
<1> QED BY <1>1, <1>2, ChangeBecomes DEF InPortoOf, OfPortoOf, WalletInv

\* The connection has the accounts and the chain of the wallet, while it may.
PortoTracks(S) ==
  /\ temps = {}
  /\ link # None =>
       /\ link.acc = granted /\ link.chain = chain /\ {"change", "disconnect"} \subseteq on
       /\ \/ /\ {"accountsChanged", "chainChanged"} \subseteq listening
             /\ "connect" \notin listening
          \/ \E s \in S : job[s].at = "disconnect.wallet"
  /\ \A s \in S :
       /\ job[s].at = "idle" => job[s].was = None
       /\ link # None =>
            job[s].at \in {"idle", "disconnect.wallet", "switch.wallet"} /\ job[s].was = None
       /\ job[s].at = "connect.store" \/ job[s].was # None => job[s].acc = granted
       /\ job[s].at \in {"connect.store", "onConnect"} => job[s].chain = chain

\* A call keeps the connection at the wallet's,
LEMMA PortoTracksCall ==
  ASSUME NEW p, NEW S, NEW Ch, InPortoOf(p, S, Ch), Single(S), Portos[p].patient,
         ~ Portos[p].breaks,
         PortoTracks(S), NEW s \in S,
         \/ PortoOf(p)!ConnectStore(s) \/ PortoOf(p)!Answer(s) \/ PortoOf(p)!Call(s)
         \/ PortoOf(p)!WalletConnects(s)
  PROVE  PortoTracks(S)'
<1>s. S = Portos[p].slots /\ \A t \in S : t = s
  BY DEF Single, InPortoOf, OfPortoOf
<1>t. /\ job = [t \in S |-> job[t]] /\ job[s] \in JobSet(Ch) /\ None \notin Ch /\ chain \in Ch
      /\ job[s].at \in SwitchPlaces => job[s].chain \in Ch/\ granted \in BOOLEAN
      /\ link # None => link \in Conns(Ch)
  BY DEF InPortoOf, OfPortoOf, WalletInv, StoreInv, Jobs, JobOK, Apart
<1>c. PortoOfDoes(p, s)
  BY PortoOfCalls
<1>1. ASSUME PortoOf(p)!ConnectReject(s)
      PROVE  PortoTracks(S)'
  BY <1>s, <1>t, <1>c, <1>1
  DEF PortoOf!ConnectReject, PortoOf!At, PortoOf!Fail, PortoOf!Turn, PortoOf!Failed,
      PortoOf!wallet, PortoOf!store, PortoOfDoes, Becomes, PortoTracks
<1>2. ASSUME PortoOf(p)!ConnectAccept(s)
      PROVE  PortoTracks(S)'
  BY <1>s, <1>t, <1>c, <1>2
  DEF PortoOf!ConnectAccept, PortoOf!At, PortoOf!Connected, PortoOf!Turn, PortoOf!WhenConnected,
      PortoOf!Stored, PortoOf!store, PortoOfDoes, Becomes, PortoTracks
<1>3. ASSUME PortoOf(p)!Authorized(s)
      PROVE  PortoTracks(S)'
  BY <1>s, <1>t, <1>c, <1>3
  DEF PortoOf!Authorized, PortoOf!At, PortoOf!wallet, PortoOf!Turn, PortoOf!store, PortoOfDoes,
      Becomes, PortoTracks
<1>4. ASSUME PortoOf(p)!Reconnected(s)
      PROVE  PortoTracks(S)'
  <2>1. link = None /\ job[s].at = "reconnect.connect"
    BY <1>4 DEF PortoOf!Reconnected, PortoOf!At, PortoTracks
  <2>2. CASE chain = Portos[p].default
    BY <1>s, <1>c, <2>1, <2>2, <1>4
    DEF PortoOf!Reconnected, PortoOf!Connected, PortoOf!Stored, PortoOf!WhenConnected,
        PortoOf!wallet, PortoOfDoes, Becomes, PortoTracks
  <2>3. CASE chain # Portos[p].default
    <3>1. /\ Becomes(s, "switch.wallet", Portos[p].default, granted, chain)
          /\ link' = link /\ temps' = temps /\ granted' = granted /\ chain' = chain
      BY <1>t, <2>3, <1>4 DEF PortoOf!Reconnected, PortoOf!wallet, PortoOf!store, Becomes
    <3> QED BY <1>s, <2>1, <3>1 DEF Becomes, PortoTracks
  <2> QED BY <2>2, <2>3
<1>5. ASSUME PortoOf(p)!DisconnectDone(s)
      PROVE  PortoTracks(S)'
  BY <1>s, <1>t, <1>c, <1>5
  DEF PortoOf!DisconnectDone, PortoOf!At, PortoOf!wallet, PortoOf!Removed, PortoOf!Turn,
      PortoOf!store, PortoOfDoes, Becomes, PortoTracks
<1>6. ASSUME PortoOf(p)!DisconnectFail(s)
      PROVE  PortoTracks(S)'
  BY <1>s, <1>t, <1>c, <1>6
  DEF PortoOf!DisconnectFail, PortoOf!At, PortoOf!wallet, PortoOf!store, PortoOf!Turn,
      PortoOfDoes, Becomes, PortoTracks
<1>7. ASSUME PortoOf(p)!SwitchDone(s)
      PROVE  PortoTracks(S)'
  <2>1. /\ job[s].at = "switch.wallet" /\ chain' = job[s].chain /\ granted' = granted
        /\ listening' = listening
    BY <1>7 DEF PortoOf!SwitchDone, PortoOf!At
  <2>2. job[s].chain \in Ch
    BY <1>t, <2>1 DEF SwitchPlaces
  <2>3. CASE "chainChanged" \in listening
    <3>1. PortoOf(p)!EmitChange(job[s].chain, [job EXCEPT ![s] = PortoOf(p)!Return(job[s])])
      BY <2>1, <2>3, <1>7 DEF PortoOf!SwitchDone
    <3>2. ChangeIsHeard(job[s].chain) /\ HasReturned(s, job[s].chain)
      BY <2>2, <3>1, PortoOfHears, PortoOfChanges
    <3> QED BY <1>s, <2>1, <2>3, <3>2 DEF ChangeIsHeard, HasReturned, Becomes, PortoTracks
  <2>4. CASE "chainChanged" \notin listening
    <3>1. /\ PortoOf(p)!Returns(s) /\ link' = link /\ on' = on /\ temps' = temps
      BY <2>4, <1>7 DEF PortoOf!SwitchDone, PortoOf!Returns, PortoOf!store
    <3>2. HasReturned(s, job[s].chain)
      BY <1>c, <3>1 DEF PortoOfDoes
    <3> QED BY <1>s, <2>1, <2>4, <3>1, <3>2 DEF HasReturned, Becomes, PortoTracks
  <2> QED BY <2>3, <2>4
<1>8. ASSUME PortoOf(p)!SwitchFail(s)
      PROVE  PortoTracks(S)'
  BY <1>s, <1>t, <1>c, <1>8
  DEF PortoOf!SwitchFail, PortoOf!At, PortoOf!wallet, PortoOf!store, PortoOf!Fail, PortoOf!Turn,
      PortoOf!Failed, PortoOfDoes, Becomes, HasReturned, PortoTracks
<1>9. ASSUME PortoOf(p)!OnConnect(s)
      PROVE  PortoTracks(S)'
  BY <1>s, <1>t, <1>c, <1>9
  DEF PortoOf!OnConnect, PortoOf!At, PortoOf!EmitConnect, PortoOf!WhenConnected, PortoOf!store,
      PortoOf!wallet, PortoOf!Turn, PortoOf!Adopt, PortoOfDoes, Becomes, PortoTracks
<1>10. ASSUME PortoOf(p)!ConnectStore(s)
      PROVE  PortoTracks(S)'
  BY <1>s, <1>t, <1>c, <1>10
  DEF PortoOf!ConnectStore, PortoOf!store, PortoOf!Connected, PortoOf!wallet,
      PortoOf!WhenConnected, PortoOf!Stored, PortoOfDoes, Becomes, PortoTracks
<1>11. ASSUME PortoOf(p)!Connect(s)
      PROVE  PortoTracks(S)'
  BY <1>s, <1>t, <1>c, <1>11
  DEF PortoOf!Connect, PortoOf!wallet, PortoOfDoes, Becomes, PortoTracks
<1>12. ASSUME PortoOf(p)!Disconnect(s)
      PROVE  PortoTracks(S)'
  BY <1>s, <1>t, <1>c, <1>12
  DEF PortoOf!Disconnect, PortoOf!wallet, PortoOf!WhenDisconnected, PortoOf!store, PortoOfDoes,
      Becomes, PortoTracks
<1>13. ASSUME PortoOf(p)!WalletConnects(s)
      PROVE  PortoTracks(S)'
  <2>1. /\ job[s].at = "idle" /\ "connect" \in listening /\ link' = link /\ temps' = temps
        /\ Becomes(s, "onConnect", chain, FALSE, None) /\ chain' = chain
    BY <1>c, <1>13 DEF PortoOf!WalletConnects, PortoOf!store, PortoOfDoes
  <2>2. link = None
    BY <1>s, <2>1 DEF PortoTracks
  <2> QED BY <1>s, <2>1, <2>2 DEF Becomes, PortoTracks
<1>14. ASSUME NEW ch \in Ch, PortoOf(p)!SwitchChain(s, ch)
      PROVE  PortoTracks(S)'
  BY <1>s, <1>t, <1>c, <1>14
  DEF PortoOf!SwitchChain, PortoOf!wallet, PortoOf!store, PortoOfDoes, Becomes, PortoTracks
<1> QED BY <1>1, <1>2, <1>3, <1>4, <1>5, <1>6, <1>7, <1>8, <1>9, <1>10, <1>11, <1>12, <1>13, <1>14,
           <1>s
        DEF PortoOf!Answer, PortoOf!Call, InPortoOf, OfPortoOf

\* ... and every step does.
LEMMA PortoTracksNext ==
  ASSUME NEW p, NEW S, NEW Ch, InPortoOf(p, S, Ch), Single(S), Portos[p].patient,
         ~ Portos[p].breaks,
         PortoTracks(S), PortoOf(p)!Next
  PROVE  PortoTracks(S)'
<1>s. S = Portos[p].slots /\ Ch = Portos[p].chains
  BY DEF InPortoOf, OfPortoOf
<1>t. /\ job = [t \in S |-> job[t]] /\ None \notin Ch /\ chain \in Ch
      /\ link # None => link \in Conns(Ch) /\ None \notin Conns(Ch)
      /\ \A t \in S : job[t] \in JobSet(Ch)
  BY DEF InPortoOf, OfPortoOf, WalletInv, StoreInv, Jobs, JobOK, Apart
<1>1. ASSUME NEW ch \in Ch, PortoOf(p)!WalletChain(ch)
      PROVE  PortoTracks(S)'
  <2>1. /\ (\A s \in S : job[s].at = "idle") /\ granted' = granted
        /\ chain' = ch /\ listening' = listening
    BY <1>s, <1>1 DEF PortoOf!WalletChain, PortoOf!WalletActs, PortoOf!Calm, PortoOf!InFlight
  <2>2. CASE "chainChanged" \in listening
    <3>1. PortoOf(p)!EmitChange(ch, job)
      BY <2>2, <1>1 DEF PortoOf!WalletChain
    <3>2. ChangeIsHeard(ch) /\ \A s \in S : job'[s] = job[s]
      BY <2>1, <3>1, PortoOfChanges, PortoOfHears
    <3> QED BY <2>1, <2>2, <3>2 DEF ChangeIsHeard, PortoTracks
  <2>3. CASE ~("chainChanged" \in listening)
    <3>1. link' = link /\ on' = on /\ temps' = temps /\ job' = job
      BY <2>3, <1>1 DEF PortoOf!WalletChain, PortoOf!store
    <3> QED BY <2>1, <2>3, <3>1 DEF PortoTracks
  <2> QED BY <2>2, <2>3
<1>2. ASSUME NEW acc \in BOOLEAN, PortoOf(p)!WalletAccounts(acc)
      PROVE  PortoTracks(S)'
  <2>1. (\A s \in S : job[s].at = "idle") /\ job' = job /\ on' = on /\ temps' = temps
        /\ chain' = chain /\ listening' = listening /\ granted' = acc
        /\ link' = IF "accountsChanged" \in listening /\ "change" \in on /\ link # None
                   THEN [link EXCEPT !.acc = acc] ELSE link
    BY <1>s, <1>2 DEF PortoOf!WalletAccounts, PortoOf!WalletActs, PortoOf!Calm, PortoOf!InFlight
  <2>2. link # None => /\ [link EXCEPT !.acc = acc].chain = link.chain
                       /\ [link EXCEPT !.acc = acc].acc = acc
    BY <1>t DEF Conns
  <2> QED BY <2>1, <2>2 DEF PortoTracks
<1>3. ASSUME PortoOf(p)!WalletDisconnects
      PROVE  PortoTracks(S)'
  BY <1>s, <1>t, <1>3
  DEF PortoOf!WalletDisconnects, PortoOf!WalletActs, PortoOf!EmitDisconnect,
      PortoOf!WhenDisconnected, PortoOf!Turn, PortoOf!Calm, PortoOf!store, PortoOf!InFlight,
      PortoTracks
<1>4. ASSUME PortoOf(p)!Load
      PROVE  PortoTracks(S)'
  <2>1. PICK s \in S : job' = [t \in S |-> IF t = s THEN PortoOf(p)!Job("reconnect.accounts", None)
                                              ELSE PortoOf(p)!IdleJob]
    BY <1>4, <1>s DEF PortoOf!Load, PortoOf!Opened
  <2>2. link' = None /\ temps' = {}
    BY <1>4 DEF PortoOf!Load, PortoOf!Opened
  <2> QED BY <2>1, <2>2 DEF PortoOf!Job, PortoOf!IdleJob, PortoTracks
<1> QED BY <1>1, <1>2, <1>3, <1>4, <1>s, PortoTracksCall DEF PortoOf!Next, PortoOf!Wallet

-----------------------------------------------------------------------------
(* The SDKs. *)

\* What a call and an event of this connector do to a call.
SdkDoes(k, s) ==
  /\ \A at, ch : Sdk(k)!Start(s, at, ch) => job[s].at = "idle" /\ Becomes(s, at, ch, FALSE, None)
  /\ \A at : Sdk(k)!Go(s, at) => Becomes(s, at, job[s].chain, job[s].acc, job[s].was)
  /\ \A at, acc, was : Sdk(k)!Take(s, at, acc, was) => Becomes(s, at, job[s].chain, acc, was)
  /\ Sdk(k)!End(s) => Becomes(s, "idle", None, FALSE, None)
  /\ Sdk(k)!Returns(s) => HasReturned(s, job[s].chain)
  /\ Sdk(k)!ReturnsUnswitched(s) => HasReturned(s, job[s].was)

\* ... which are those of Connector.
LEMMA SdkCalls ==
  ASSUME NEW k, NEW S, NEW Ch, InSdk(k, S, Ch), NEW s \in S
  PROVE  SdkDoes(k, s)
<1>1. StoreInv(S, Ch)
  BY DEF InSdk, WalletInv
<1>2. /\ \A at, ch : Sdk(k)!Start(s, at, ch) <=> Store(S, Ch)!Start(s, at, ch)
      /\ \A at : Sdk(k)!Go(s, at) <=> Store(S, Ch)!Go(s, at)
      /\ \A at, acc, was : Sdk(k)!Take(s, at, acc, was) <=> Store(S, Ch)!Take(s, at, acc, was)
      /\ Sdk(k)!End(s) <=> Store(S, Ch)!End(s)
      /\ Sdk(k)!Returns(s) <=> Store(S, Ch)!Returns(s)
      /\ Sdk(k)!ReturnsUnswitched(s) <=> Store(S, Ch)!ReturnsUnswitched(s)
  BY SdkStore DEF InSdk
<1> QED BY <1>1, <1>2, CallBecomes DEF SdkDoes

\* An event of its reaches the connection,
LEMMA SdkHears ==
  ASSUME NEW k, NEW S, NEW Ch, InSdk(k, S, Ch), NEW ch \in Ch, NEW jobs,
         Sdk(k)!EmitChange(ch, jobs)
  PROVE  ChangeIsHeard(ch)
<1>1. Store(S, Ch)!EmitChange(ch, jobs)
  BY SdkStore DEF InSdk
<1> QED BY <1>1, ChangeReaches DEF InSdk, OfSdk, WalletInv

\* ... and the calls.
LEMMA SdkChanges ==
  ASSUME NEW k, NEW S, NEW Ch, InSdk(k, S, Ch), NEW s \in S, NEW ch \in Ch
  PROVE  /\ \A at : /\ Sdk(k)!EmitChange(ch, [job EXCEPT ![s].at = at])
                    /\ at # "switch.event"
                    => Becomes(s, at, job[s].chain, job[s].acc, job[s].was)
         /\ /\ Sdk(k)!EmitChange(ch, [job EXCEPT ![s].at = "switch.event"])
            /\ job[s].chain = ch
            => HasReturned(s, ch)
         /\ Sdk(k)!EmitChange(ch, [job EXCEPT ![s] = Sdk(k)!Return(job[s])])
            => HasReturned(s, job[s].chain)
         /\ Sdk(k)!EmitChange(ch, job) /\ job[s].at # "switch.event" => job'[s] = job[s]
<1>1. Sdk(k)!Return(job[s]) = Store(S, Ch)!Return(job[s])
  BY SdkStore DEF InSdk
<1>2. \A jobs : Sdk(k)!EmitChange(ch, jobs) <=> Store(S, Ch)!EmitChange(ch, jobs)
  BY SdkStore DEF InSdk
<1> QED BY <1>1, <1>2, ChangeBecomes DEF InSdk, OfSdk, WalletInv

\* The connection has the accounts and the chain of the wallet, and the closures are bound.
SdkTracks(k, S) ==
  /\ temps = {}
  /\ link # None =>
       /\ link.acc = granted /\ link.chain = chain /\ {"change", "disconnect"} \subseteq on
       /\ listening
  /\ \A s \in S :
       /\ job[s].at \in {"idle", "reconnect.accounts"} => job[s].was = None
       /\ link # None => job[s].at \in {"idle", "switch.wallet"} /\ job[s].was = None
       /\ job[s].at \in {"connect.accounts", "switch.wallet"} => job[s].was \in {None, chain}
       /\ job[s].at = "connect.accounts" => Sdks[k].base
       /\ job[s].at = "connect.chain" => job[s].acc = granted /\ (listening \/ Sdks[k].base)
       /\ (job[s].at = "switch.wallet" /\ job[s].was # None) \/ job[s].at = "connect.store" =>
            job[s].acc = granted /\ listening
       /\ job[s].at = "connect.store" => job[s].chain = chain

\* A call keeps the connection at the wallet's,
LEMMA SdkTracksCall ==
  ASSUME NEW k, NEW S, NEW Ch, InSdk(k, S, Ch), Single(S), Sdks[k].patient, ~ Sdks[k].adds,
         SdkTracks(k, S), NEW s \in S,
         Sdk(k)!ConnectStore(s) \/ Sdk(k)!Answer(s) \/ Sdk(k)!Call(s)
  PROVE  SdkTracks(k, S)'
<1>s. S = Sdks[k].slots /\ \A t \in S : t = s
  BY DEF Single, InSdk, OfSdk
<1>t. /\ job = [t \in S |-> job[t]] /\ job[s] \in JobSet(Ch) /\ None \notin Ch /\ chain \in Ch
      /\ job[s].at \in SwitchPlaces => job[s].chain \in Ch/\ granted \in BOOLEAN
      /\ link # None => link \in Conns(Ch)
  BY DEF InSdk, OfSdk, WalletInv, StoreInv, Jobs, JobOK, Apart
<1>c. SdkDoes(k, s)
  BY SdkCalls
<1>1. ASSUME Sdk(k)!ConnectReject(s)
      PROVE  SdkTracks(k, S)'
  BY <1>s, <1>t, <1>c, <1>1
  DEF Sdk!ConnectReject, Sdk!At, Sdk!Fail, Sdk!Turn, Sdk!Failed, Sdk!wallet, Sdk!store, SdkDoes,
      Becomes, SdkTracks
<1>2. ASSUME Sdk(k)!ConnectAccept(s)
      PROVE  SdkTracks(k, S)'
  <2>1. /\ job[s].at = "connect.prompt" /\ granted' = TRUE
        /\ chain' = chain /\ link' = link /\ temps' = temps
    BY <1>2 DEF Sdk!ConnectAccept, Sdk!At, Sdk!store
  <2>2. link = None
    BY <2>1 DEF SdkTracks
  <2>3. CASE Sdks[k].base
    <3>1. Becomes(s, "connect.accounts", job[s].chain, TRUE, chain)
      BY <1>c, <2>3, <1>2 DEF Sdk!ConnectAccept, SdkDoes
    <3> QED BY <1>s, <2>1, <2>2, <2>3, <3>1 DEF Becomes, SdkTracks
  <2>4. CASE ~ Sdks[k].base
    <3>1. Becomes(s, "connect.chain", job[s].chain, TRUE, None) /\ listening'
      BY <1>c, <2>4, <1>2 DEF Sdk!ConnectAccept, SdkDoes
    <3> QED BY <1>s, <2>1, <2>2, <3>1 DEF Becomes, SdkTracks
  <2> QED BY <2>3, <2>4
<1>3. ASSUME Sdk(k)!ConnectAccounts(s)
      PROVE  SdkTracks(k, S)'
  <2>1. job[s].at = "connect.accounts" /\ link = None /\ job[s].was \in {None, chain}
    BY <1>3 DEF Sdk!ConnectAccounts, Sdk!At, SdkTracks
  <2>2. CASE job[s].was # None
    <3>b. listening' = TRUE /\ job[s].was = chain
      BY <2>1, <2>2, <1>3 DEF Sdk!ConnectAccounts
    <3>1. CASE job[s].chain \in {None, chain}
      <4>1. /\ Becomes(s, "idle", None, FALSE, None) /\ link' = [chain |-> chain, acc |-> granted]
            /\ on' = {"change", "disconnect"} /\ temps' = temps
            /\ granted' = granted /\ chain' = chain
        BY <1>c, <2>1, <2>2, <3>b, <3>1, <1>3
        DEF Sdk!ConnectAccounts, Sdk!WithChain, Sdk!Connected, Sdk!Stored,
                                 Sdk!wallet, SdkDoes
      <4> QED BY <1>s, <2>1, <2>2, <3>b, <4>1 DEF Becomes, SdkTracks
    <3>2. CASE job[s].chain \notin {None, chain}
      <4>1. /\ Becomes(s, "switch.wallet", job[s].chain, granted, chain) /\ link' = link
            /\ temps' = temps /\ granted' = granted /\ chain' = chain
        BY <1>c, <2>1, <2>2, <3>b, <3>2, <1>3
        DEF Sdk!ConnectAccounts, Sdk!WithChain, Sdk!wallet, Sdk!store, SdkDoes
      <4> QED BY <1>s, <2>1, <2>2, <3>b, <4>1 DEF Becomes, SdkTracks
    <3> QED BY <3>1, <3>2
  <2>3. CASE job[s].was = None
    <3>1. /\ Becomes(s, "connect.chain", job[s].chain, granted, None) /\ link' = link
          /\ listening' = listening /\ temps' = temps /\ granted' = granted
      BY <1>c, <2>3, <1>3 DEF Sdk!ConnectAccounts, Sdk!wallet, Sdk!store, SdkDoes
    <3>2. Sdks[k].base
      BY <2>1 DEF SdkTracks
    <3> QED BY <1>s, <2>1, <3>1, <3>2 DEF Becomes, SdkTracks
  <2> QED BY <2>2, <2>3
<1>4. ASSUME Sdk(k)!ConnectChain(s)
      PROVE  SdkTracks(k, S)'
  <2>1. job[s].at = "connect.chain" /\ link = None /\ job[s].acc = granted
    BY <1>4 DEF Sdk!ConnectChain, Sdk!At, SdkTracks
  <2>2. listening'
    BY <2>1, <1>4 DEF Sdk!ConnectChain, SdkTracks
  <2>3. SdkTracks(k, S)'
    <3>1. CASE job[s].chain \in {None, chain}
      <4>1. /\ Becomes(s, "idle", None, FALSE, None) /\ link' = [chain |-> chain, acc |-> granted]
            /\ on' = {"change", "disconnect"} /\ temps' = temps
            /\ granted' = granted /\ chain' = chain
        BY <1>c, <2>1, <2>2, <3>1, <1>4 DEF Sdk!ConnectChain, Sdk!WithChain, Sdk!Connected,
                                            Sdk!Stored,
                                 Sdk!wallet, SdkDoes
      <4> QED BY <1>s, <2>1, <2>2, <4>1 DEF Becomes, SdkTracks
    <3>2. CASE job[s].chain \notin {None, chain}
      <4>1. /\ Becomes(s, "switch.wallet", job[s].chain, granted, chain) /\ link' = link
            /\ temps' = temps /\ granted' = granted /\ chain' = chain
        BY <1>c, <2>1, <2>2, <3>2, <1>4 DEF Sdk!ConnectChain, Sdk!WithChain, Sdk!wallet, Sdk!store,
                                            SdkDoes
      <4> QED BY <1>s, <2>1, <2>2, <4>1 DEF Becomes, SdkTracks
    <3> QED BY <3>1, <3>2
  <2> QED BY <2>3
<1>5. ASSUME Sdk(k)!Authorized(s)
      PROVE  SdkTracks(k, S)'
  <2>1. job[s].at = "reconnect.accounts" /\ temps' = temps /\ granted' = granted /\ chain' = chain
    BY <1>5 DEF Sdk!Authorized, Sdk!At, Sdk!wallet
  <2>2. link = None
    BY <2>1 DEF SdkTracks
  <2>3. CASE granted
    <3>1. /\ link' = link
          /\ \/ Sdks[k].base /\ Becomes(s, "connect.accounts", job[s].chain, job[s].acc, job[s].was)
             \/ Becomes(s, "reconnect.request", job[s].chain, job[s].acc, job[s].was)
      BY <1>c, <2>3, <1>5 DEF Sdk!Authorized, SdkDoes
    <3> QED BY <1>s, <2>1, <2>2, <3>1 DEF Becomes, SdkTracks
  <2>4. CASE ~ granted
    <3>1. link' = None /\ Becomes(s, "idle", None, FALSE, None)
      BY <1>c, <2>2, <2>4, <1>5 DEF Sdk!Authorized, SdkDoes
    <3> QED BY <1>s, <2>1, <3>1 DEF Becomes, SdkTracks
  <2> QED BY <2>3, <2>4
<1>6. ASSUME Sdk(k)!Requested(s)
      PROVE  SdkTracks(k, S)'
  <2>1. /\ job[s].at = "reconnect.request" /\ granted' = granted
        /\ chain' = chain /\ link' = link /\ temps' = temps
    BY <1>6 DEF Sdk!Requested, Sdk!At, Sdk!wallet, Sdk!store
  <2>2. link = None
    BY <2>1 DEF SdkTracks
  <2>3. CASE granted
    <3>1. Becomes(s, "connect.chain", job[s].chain, TRUE, job[s].was) /\ listening'
      BY <1>c, <2>3, <1>6 DEF Sdk!Requested, SdkDoes
    <3> QED BY <1>s, <1>t, <2>1, <2>2, <2>3, <3>1 DEF Becomes, SdkTracks
  <2>4. CASE ~ granted
    <3>1. Becomes(s, "connect.prompt", job[s].chain, job[s].acc, job[s].was)
      BY <1>c, <2>4, <1>6 DEF Sdk!Requested, SdkDoes
    <3> QED BY <1>s, <2>1, <2>2, <3>1 DEF Becomes, SdkTracks
  <2> QED BY <2>3, <2>4
<1>7. ASSUME Sdk(k)!SwitchDone(s)
      PROVE  SdkTracks(k, S)'
  <2>1. /\ job[s].at = "switch.wallet" /\ chain' = job[s].chain /\ granted' = granted
        /\ listening' = listening
    BY <1>7 DEF Sdk!SwitchDone, Sdk!At
  <2>2. job[s].chain \in Ch
    BY <1>t, <2>1 DEF SwitchPlaces
  <2>3. CASE listening
    <3>1. Sdk(k)!EmitChange(job[s].chain, [job EXCEPT ![s] = Sdk(k)!Return(job[s])])
      BY <2>1, <2>3, <1>7 DEF Sdk!SwitchDone
    <3>2. ChangeIsHeard(job[s].chain) /\ HasReturned(s, job[s].chain)
      BY <2>2, <3>1, SdkHears, SdkChanges
    <3> QED BY <1>s, <2>1, <2>3, <3>2 DEF ChangeIsHeard, HasReturned, Becomes, SdkTracks
  <2>4. CASE ~ listening
    <3>1. /\ Sdk(k)!Returns(s) /\ link' = link /\ on' = on /\ temps' = temps
      BY <2>4, <1>7 DEF Sdk!SwitchDone, Sdk!Returns, Sdk!store
    <3>2. HasReturned(s, job[s].chain)
      BY <1>c, <3>1 DEF SdkDoes
    <3> QED BY <1>s, <2>1, <2>4, <3>1, <3>2 DEF HasReturned, Becomes, SdkTracks
  <2> QED BY <2>3, <2>4
<1>8. ASSUME Sdk(k)!SwitchAdded(s)
      PROVE  SdkTracks(k, S)'
  BY <1>s, <1>t, <1>c, <1>8
  DEF Sdk!SwitchAdded, Sdk!At, Sdk!wallet, Sdk!store, Sdk!Turn, SdkDoes, Becomes, HasReturned,
      SdkTracks
<1>9. ASSUME Sdk(k)!SwitchReject(s)
      PROVE  SdkTracks(k, S)'
  BY <1>s, <1>t, <1>c, <1>9
  DEF Sdk!SwitchReject, Sdk!At, Sdk!wallet, Sdk!Fail, Sdk!store, Sdk!Turn, Sdk!Failed, SdkDoes,
      Becomes, SdkTracks
<1>10. ASSUME Sdk(k)!SwitchFail(s)
      PROVE  SdkTracks(k, S)'
  BY <1>s, <1>t, <1>c, <1>10, SMTT(30)
  DEF Sdk!SwitchFail, Sdk!At, Sdk!wallet, Sdk!store, Sdk!Turn, SdkDoes, Becomes, HasReturned,
      SdkTracks
<1>11. ASSUME Sdk(k)!ConnectStore(s)
      PROVE  SdkTracks(k, S)'
  BY <1>s, <1>t, <1>c, <1>11
  DEF Sdk!ConnectStore, Sdk!store, Sdk!Connected, Sdk!Stored, Sdk!wallet, SdkDoes, Becomes,
      SdkTracks
<1>12. ASSUME NEW ch \in Ch \cup {None}, Sdk(k)!Connect(s, ch)
      PROVE  SdkTracks(k, S)'
  BY <1>s, <1>t, <1>c, <1>12 DEF Sdk!Connect, Sdk!wallet, SdkDoes, Becomes, SdkTracks
<1>13. ASSUME NEW ch \in Ch, Sdk(k)!SwitchChain(s, ch)
      PROVE  SdkTracks(k, S)'
  BY <1>s, <1>t, <1>c, <1>13
  DEF Sdk!SwitchChain, Sdk!wallet, Sdk!store, SdkDoes, Becomes, SdkTracks
<1> QED BY <1>1, <1>2, <1>3, <1>4, <1>5, <1>6, <1>7, <1>8, <1>9, <1>10, <1>11, <1>12, <1>13, <1>s
        DEF Sdk!Answer, Sdk!Call, InSdk, OfSdk

\* ... and every step does.
LEMMA SdkTracksNext ==
  ASSUME NEW k, NEW S, NEW Ch, InSdk(k, S, Ch), Single(S), Sdks[k].patient, ~ Sdks[k].adds,
         SdkTracks(k, S), Sdk(k)!Next
  PROVE  SdkTracks(k, S)'
<1>s. S = Sdks[k].slots /\ Ch = Sdks[k].chains
  BY DEF InSdk, OfSdk
<1>t. /\ job = [t \in S |-> job[t]] /\ None \notin Ch /\ chain \in Ch
      /\ link # None => link \in Conns(Ch) /\ None \notin Conns(Ch)
      /\ \A t \in S : job[t] \in JobSet(Ch)
  BY DEF InSdk, OfSdk, WalletInv, StoreInv, Jobs, JobOK, Apart
<1>1. ASSUME NEW ch \in Ch, Sdk(k)!WalletChain(ch)
      PROVE  SdkTracks(k, S)'
  <2>1. /\ (\A s \in S : job[s].at = "idle") /\ granted' = granted
        /\ chain' = ch /\ listening' = listening
    BY <1>s, <1>1 DEF Sdk!WalletChain, Sdk!WalletActs, Sdk!Calm, Sdk!InFlight
  <2>2. CASE listening
    <3>1. Sdk(k)!EmitChange(ch, job)
      BY <2>2, <1>1 DEF Sdk!WalletChain
    <3>2. ChangeIsHeard(ch) /\ \A s \in S : job'[s] = job[s]
      BY <2>1, <3>1, SdkChanges, SdkHears
    <3> QED BY <2>1, <2>2, <3>2 DEF ChangeIsHeard, SdkTracks
  <2>3. CASE ~(listening)
    <3>1. link' = link /\ on' = on /\ temps' = temps /\ job' = job
      BY <2>3, <1>1 DEF Sdk!WalletChain, Sdk!store
    <3> QED BY <2>1, <2>3, <3>1 DEF SdkTracks
  <2> QED BY <2>2, <2>3
<1>2. ASSUME Sdk(k)!WalletLeaves
      PROVE  SdkTracks(k, S)'
  BY <1>s, <1>t, <1>2
  DEF Sdk!WalletLeaves, Sdk!WalletActs, Sdk!OnDisconnect, Sdk!store, Sdk!Turn, Sdk!Calm,
      Sdk!EmitDisconnect, Sdk!InFlight, SdkTracks
<1>3. ASSUME Sdk(k)!WalletShares
      PROVE  SdkTracks(k, S)'
  <2>1. (\A s \in S : job[s].at = "idle") /\ job' = job /\ on' = on /\ temps' = temps
        /\ chain' = chain /\ listening' = listening /\ granted' = TRUE
        /\ link' = IF listening /\ "change" \in on /\ link # None
                   THEN [link EXCEPT !.acc = TRUE] ELSE link
    BY <1>s, <1>3 DEF Sdk!WalletShares, Sdk!WalletActs, Sdk!Calm, Sdk!InFlight
  <2>2. link # None => /\ [link EXCEPT !.acc = TRUE].chain = link.chain
                       /\ [link EXCEPT !.acc = TRUE].acc = TRUE
    BY <1>t DEF Conns
  <2> QED BY <2>1, <2>2 DEF SdkTracks
<1>4. ASSUME Sdk(k)!Disconnect
      PROVE  SdkTracks(k, S)'
  BY <1>s, <1>t, <1>4 DEF Sdk!Disconnect, Sdk!Turn, Sdk!Removed, Sdk!store, SdkTracks
<1>5. ASSUME Sdk(k)!Load
      PROVE  SdkTracks(k, S)'
  <2>1. PICK s \in S : job' = [t \in S |-> IF t = s THEN Sdk(k)!Job("reconnect.accounts", None)
                                              ELSE Sdk(k)!IdleJob]
    BY <1>5, <1>s DEF Sdk!Load, Sdk!Opened
  <2>2. link' = None /\ temps' = {}
    BY <1>5 DEF Sdk!Load, Sdk!Opened
  <2> QED BY <2>1, <2>2 DEF Sdk!Job, Sdk!IdleJob, SdkTracks
<1> QED BY <1>1, <1>2, <1>3, <1>4, <1>5, <1>s, SdkTracksCall DEF Sdk!Next, Sdk!Wallet

-----------------------------------------------------------------------------
(* MetaMask. *)

\* What a call and an event of this connector do to a call.
MetaDoes(m, s) ==
  /\ \A at, ch : Meta(m)!Start(s, at, ch) => job[s].at = "idle" /\ Becomes(s, at, ch, FALSE, None)
  /\ \A at : Meta(m)!Go(s, at) => Becomes(s, at, job[s].chain, job[s].acc, job[s].was)
  /\ \A at, acc, was : Meta(m)!Take(s, at, acc, was) => Becomes(s, at, job[s].chain, acc, was)
  /\ Meta(m)!End(s) => Becomes(s, "idle", None, FALSE, None)
  /\ Meta(m)!Returns(s) => HasReturned(s, job[s].chain)
  /\ Meta(m)!ReturnsUnswitched(s) => HasReturned(s, job[s].was)

\* ... which are those of Connector.
LEMMA MetaCalls ==
  ASSUME NEW m, NEW S, NEW Ch, InMeta(m, S, Ch), NEW s \in S
  PROVE  MetaDoes(m, s)
<1>1. StoreInv(S, Ch)
  BY DEF InMeta, WalletInv
<1>2. /\ \A at, ch : Meta(m)!Start(s, at, ch) <=> Store(S, Ch)!Start(s, at, ch)
      /\ \A at : Meta(m)!Go(s, at) <=> Store(S, Ch)!Go(s, at)
      /\ \A at, acc, was : Meta(m)!Take(s, at, acc, was) <=> Store(S, Ch)!Take(s, at, acc, was)
      /\ Meta(m)!End(s) <=> Store(S, Ch)!End(s)
      /\ Meta(m)!Returns(s) <=> Store(S, Ch)!Returns(s)
      /\ Meta(m)!ReturnsUnswitched(s) <=> Store(S, Ch)!ReturnsUnswitched(s)
  BY MetaStore DEF InMeta
<1> QED BY <1>1, <1>2, CallBecomes DEF MetaDoes

\* An event of its reaches the connection,
LEMMA MetaHears ==
  ASSUME NEW m, NEW S, NEW Ch, InMeta(m, S, Ch), NEW ch \in Ch, NEW jobs,
         Meta(m)!EmitChange(ch, jobs)
  PROVE  ChangeIsHeard(ch)
<1>1. Store(S, Ch)!EmitChange(ch, jobs)
  BY MetaStore DEF InMeta
<1> QED BY <1>1, ChangeReaches DEF InMeta, OfMeta, WalletInv

\* ... and the calls.
LEMMA MetaChanges ==
  ASSUME NEW m, NEW S, NEW Ch, InMeta(m, S, Ch), NEW s \in S, NEW ch \in Ch
  PROVE  /\ \A at : /\ Meta(m)!EmitChange(ch, [job EXCEPT ![s].at = at])
                    /\ at # "switch.event"
                    => Becomes(s, at, job[s].chain, job[s].acc, job[s].was)
         /\ /\ Meta(m)!EmitChange(ch, [job EXCEPT ![s].at = "switch.event"])
            /\ job[s].chain = ch
            => HasReturned(s, ch)
         /\ Meta(m)!EmitChange(ch, [job EXCEPT ![s] = Meta(m)!Return(job[s])])
            => HasReturned(s, job[s].chain)
         /\ Meta(m)!EmitChange(ch, job) /\ job[s].at # "switch.event" => job'[s] = job[s]
<1>1. Meta(m)!Return(job[s]) = Store(S, Ch)!Return(job[s])
  BY MetaStore DEF InMeta
<1>2. \A jobs : Meta(m)!EmitChange(ch, jobs) <=> Store(S, Ch)!EmitChange(ch, jobs)
  BY MetaStore DEF InMeta
<1> QED BY <1>1, <1>2, ChangeBecomes DEF InMeta, OfMeta, WalletInv

\* ... and what they leave of another.
LEMMA MetaSpares ==
  ASSUME NEW m, NEW S, NEW Ch, InMeta(m, S, Ch), NEW s \in S, NEW t \in S, t # s
  PROVE  /\ \A at, ch : Meta(m)!Start(s, at, ch) => job'[t] = job[t]
         /\ \A at : Meta(m)!Go(s, at) => job'[t] = job[t]
         /\ \A at, acc, was : Meta(m)!Take(s, at, acc, was) => job'[t] = job[t]
         /\ Meta(m)!End(s) \/ Meta(m)!Returns(s) \/ Meta(m)!ReturnsUnswitched(s) => job'[t] = job[t]
  BY CallLeavesOthers, MetaStore DEF InMeta, OfMeta, WalletInv

\* ... and an event of it too.
LEMMA MetaChangeSpares ==
  ASSUME NEW m, NEW S, NEW Ch, InMeta(m, S, Ch), NEW s \in S, NEW t \in S, t # s, NEW ch,
         job[t].at # "switch.event"
  PROVE  /\ \A at : Meta(m)!EmitChange(ch, [job EXCEPT ![s].at = at]) => job'[t] = job[t]
         /\ \A j : Meta(m)!EmitChange(ch, [job EXCEPT ![s] = j]) => job'[t] = job[t]
<1>1. \A jobs : Meta(m)!EmitChange(ch, jobs) <=> Store(S, Ch)!EmitChange(ch, jobs)
  BY MetaStore DEF InMeta
<1> QED BY <1>1, ChangeSpares DEF InMeta, OfMeta, WalletInv

\* A connection has an account, and a call that will make one has been given it.
MetaAccount(S) ==
  /\ link # None => link.acc
  /\ \A s \in S :
       /\ job[s].at = "connect.store" \/ job[s].was # None => job[s].acc
       /\ job[s].at # "switch.event" /\ (job[s].at = "idle" => job[s].was = None)

\* The connection is on the chain of the wallet, or about to be told of it, and if the
\* wallet is an extension has its accounts.
MetaTracks(m, S) ==
  /\ temps = {}
  /\ link # None =>
       /\ {"change", "disconnect"} \subseteq on
       /\ Metas[m].extension => granted
       /\ link.chain = chain \/ \E s \in S : job[s].at = "switch.confirm" /\ job[s].chain = chain
       /\ {"accountsChanged", "chainChanged"} \subseteq listening
          \/ \E s \in S : job[s].at = "disconnect.wallet"
  /\ \A s \in S :
       /\ link # None =>
            /\ job[s].at \in {"idle", "disconnect.wallet", "switch.wallet", "switch.confirm",
                              "onConnect", "onDisconnect"}
            /\ job[s].was = None
       /\ job[s].at # "switch.event" /\ (job[s].at = "idle" => job[s].was = None)
       /\ job[s].at = "switch.wallet" => job[s].was \in {None, chain}
       /\ job[s].at = "switch.confirm" => job[s].was = None \/ chain \in {job[s].was, job[s].chain}
       /\ job[s].at = "connect.store" \/ job[s].was # None => granted
       /\ job[s].at \in {"connect.store", "onConnect"} => job[s].chain = chain

\* A call keeps that a connection has an account,
LEMMA MetaAccountCall ==
  ASSUME NEW m, NEW S, NEW Ch, InMeta(m, S, Ch),
         MetaAccount(S), NEW s \in S,
         \/ Meta(m)!ConnectStore(s) \/ Meta(m)!Answer(s) \/ Meta(m)!Call(s)
         \/ Meta(m)!WalletAccounts(s) \/ Meta(m)!WalletConnects(s) \/ Meta(m)!WalletBlinks(s)
  PROVE  MetaAccount(S)'
<1>s. S = Metas[m].slots
  BY DEF InMeta, OfMeta
<1>t. /\ job = [t \in S |-> job[t]] /\ job[s] \in JobSet(Ch) /\ None \notin Ch /\ chain \in Ch
      /\ job[s].at \in SwitchPlaces => job[s].chain \in Ch/\ granted \in BOOLEAN
      /\ link # None => link \in Conns(Ch)
  BY DEF InMeta, OfMeta, WalletInv, StoreInv, Jobs, JobOK, Apart
<1>c. MetaDoes(m, s)
  BY MetaCalls
<1>o. ASSUME NEW t \in S, t # s
      PROVE  /\ \A at, ch : Meta(m)!Start(s, at, ch) => job'[t] = job[t]
             /\ \A at : Meta(m)!Go(s, at) => job'[t] = job[t]
             /\ \A at, acc, was : Meta(m)!Take(s, at, acc, was) => job'[t] = job[t]
             /\ Meta(m)!End(s) \/ Meta(m)!Returns(s) \/ Meta(m)!ReturnsUnswitched(s)
                => job'[t] = job[t]
  BY <1>o, MetaSpares
<1>1. ASSUME Meta(m)!ConnectReject(s)
      PROVE  MetaAccount(S)'
  BY <1>s, <1>t, <1>c, <1>o, <1>1
  DEF Meta!ConnectReject, Meta!At, Meta!Fail, Meta!Turn, Meta!Failed, Meta!store, MetaDoes,
      Becomes, MetaAccount
<1>2. ASSUME Meta(m)!ConnectAccept(s)
      PROVE  MetaAccount(S)'
  <2>1. /\ job[s].at = "connect.prompt" /\ granted' = TRUE /\ chain' = chain /\ temps' = temps
    BY <1>2 DEF Meta!ConnectAccept, Meta!At, Meta!WithAccounts, Meta!Connected
  <2>2. CASE job[s].chain \in {None, chain}
    <3>1. /\ Becomes(s, "idle", None, FALSE, None) /\ link' = [chain |-> chain, acc |-> TRUE]
          /\ on' = {"change", "disconnect"}
          /\ {"accountsChanged", "chainChanged"} \subseteq listening'
      BY <1>c, <2>2, <1>2
      DEF Meta!ConnectAccept, Meta!WithAccounts, Meta!Connected, Meta!Stored, Meta!WhenConnected,
          MetaDoes
    <3>2. \A t \in S : t # s => job'[t] = job[t]
      BY <1>o, <2>2, <1>2 DEF Meta!ConnectAccept, Meta!WithAccounts, Meta!Connected
    <3> QED BY <1>s, <2>1, <3>1, <3>2 DEF Becomes, MetaAccount
  <2>3. CASE job[s].chain \notin {None, chain}
    <3>1. Becomes(s, "switch.wallet", job[s].chain, TRUE, chain) /\ link' = link
      BY <1>c, <2>3, <1>2 DEF Meta!ConnectAccept, Meta!WithAccounts, Meta!store, MetaDoes
    <3>2. \A t \in S : t # s => job'[t] = job[t]
      BY <1>o, <2>3, <1>2 DEF Meta!ConnectAccept, Meta!WithAccounts
    <3> QED BY <1>s, <2>1, <3>1, <3>2 DEF Becomes, MetaAccount
  <2> QED BY <2>2, <2>3
<1>3. ASSUME Meta(m)!Authorized(s)
      PROVE  MetaAccount(S)'
  <2>1. CASE granted
    <3>1. link' = link /\ Becomes(s, "reconnect.connect", job[s].chain, job[s].acc, job[s].was)
      BY <1>c, <2>1, <1>3 DEF Meta!Authorized, MetaDoes
    <3>2. \A t \in S : t # s => job'[t] = job[t]
      BY <1>o, <2>1, <1>3 DEF Meta!Authorized
    <3> QED BY <3>1, <3>2 DEF Becomes, MetaAccount
  <2>2. CASE ~ granted
    <3>1. link' \in {link, None} /\ Becomes(s, "idle", None, FALSE, None)
      BY <1>c, <2>2, <1>3 DEF Meta!Authorized, MetaDoes
    <3>2. \A t \in S : t # s => job'[t] = job[t]
      BY <1>o, <2>2, <1>3 DEF Meta!Authorized
    <3> QED BY <3>1, <3>2 DEF Becomes, MetaAccount
  <2> QED BY <2>1, <2>2
<1>4. ASSUME Meta(m)!Reconnected(s)
      PROVE  MetaAccount(S)'
  BY <1>s, <1>t, <1>c, <1>o, <1>4
  DEF Meta!Reconnected, Meta!At, Meta!Connected, Meta!store, Meta!Turn, Meta!WhenConnected,
      Meta!Stored, MetaDoes, Becomes, MetaAccount
<1>5. ASSUME Meta(m)!DisconnectDone(s)
      PROVE  MetaAccount(S)'
  BY <1>s, <1>t, <1>c, <1>o, <1>5
  DEF Meta!DisconnectDone, Meta!At, Meta!Removed, Meta!Turn, Meta!store, MetaDoes, Becomes,
      MetaAccount
<1>6. ASSUME Meta(m)!DisconnectFail(s)
      PROVE  MetaAccount(S)'
  BY <1>s, <1>t, <1>c, <1>o, <1>6, SMTT(30)
  DEF Meta!DisconnectFail, Meta!At, Meta!store, Meta!Turn, MetaDoes, Becomes, MetaAccount
<1>7. ASSUME Meta(m)!SwitchReject(s)
      PROVE  MetaAccount(S)'
  <2>1. Meta(m)!End(s) /\ link' = link
    BY <1>7 DEF Meta!SwitchReject, Meta!Fail, Meta!store
  <2>2. Becomes(s, "idle", None, FALSE, None)
    BY <1>c, <2>1 DEF MetaDoes
  <2> QED BY <1>s, <1>o, <2>1, <2>2 DEF Becomes, MetaAccount
<1>8. ASSUME Meta(m)!SwitchAnswer(s)
      PROVE  MetaAccount(S)'
  <2>1. /\ job[s].at = "switch.wallet" /\ job[s].chain \in Ch
        /\ granted' = granted /\ listening' = listening
    BY <1>t, <1>8 DEF Meta!SwitchAnswer, Meta!At, SwitchPlaces
  <2>2. CASE /\ chain' = job[s].chain /\ "chainChanged" \in listening
             /\ Meta(m)!EmitChange(chain', [job EXCEPT ![s].at = "switch.confirm"])
    <3>1. Meta(m)!EmitChange(job[s].chain, [job EXCEPT ![s].at = "switch.confirm"])
      BY <2>2
    <3>2. /\ ChangeIsHeard(job[s].chain)
          /\ Becomes(s, "switch.confirm", job[s].chain, job[s].acc, job[s].was)
      BY <2>1, <3>1, MetaHears, MetaChanges
    <3>3. \A t \in S : t # s => job'[t] = job[t]
      <4> SUFFICES ASSUME NEW t \in S, t # s PROVE job'[t] = job[t]
        OBVIOUS
      <4>1. job[t].at # "switch.event"
        BY DEF MetaAccount
      <4> QED BY <3>1, <4>1, MetaChangeSpares
    <3> QED BY <1>s, <2>1, <2>2, <3>2, <3>3 DEF ChangeIsHeard, Becomes, MetaAccount
  <2>3. CASE /\ chain' \in {job[s].chain, chain} /\ Meta(m)!Go(s, "switch.confirm")
             /\ UNCHANGED <<link, status, on, temps>>
    <3>1. Becomes(s, "switch.confirm", job[s].chain, job[s].acc, job[s].was)
      BY <1>c, <2>3 DEF MetaDoes
    <3> QED BY <1>s, <1>o, <2>1, <2>3, <3>1 DEF Becomes, MetaAccount
  <2> QED BY <2>2, <2>3, <1>8 DEF Meta!SwitchAnswer, Meta!store
<1>9. ASSUME Meta(m)!SwitchConfirm(s)
      PROVE  MetaAccount(S)'
  <2>1. /\ job[s].at = "switch.confirm" /\ chain = job[s].chain /\ chain' = chain
        /\ granted' = granted /\ listening' = listening
        /\ Meta(m)!EmitChange(chain, [job EXCEPT ![s] = Meta(m)!Return(job[s])])
    BY <1>9 DEF Meta!SwitchConfirm, Meta!At
  <2>2. ChangeIsHeard(chain) /\ HasReturned(s, chain)
    BY <1>t, <2>1, MetaHears, MetaChanges
  <2>3. \A t \in S : t # s => job'[t] = job[t]
    <3> SUFFICES ASSUME NEW t \in S, t # s PROVE job'[t] = job[t]
      OBVIOUS
    <3>1. job[t].at # "switch.event"
      BY DEF MetaAccount
    <3> QED BY <2>1, <3>1, MetaChangeSpares
  <2> QED BY <1>s, <2>1, <2>2, <2>3 DEF ChangeIsHeard, HasReturned, Becomes, MetaAccount
<1>10. ASSUME Meta(m)!SwitchFail(s)
      PROVE  MetaAccount(S)'
  BY <1>s, <1>t, <1>c, <1>o, <1>10
  DEF Meta!SwitchFail, Meta!At, Meta!store, Meta!Turn, MetaDoes, Becomes, HasReturned,
      MetaAccount
<1>11. ASSUME Meta(m)!OnConnect(s)
      PROVE  MetaAccount(S)'
  BY <1>s, <1>t, <1>c, <1>o, <1>11
  DEF Meta!OnConnect, Meta!At, Meta!EmitConnect, Meta!WhenConnected, Meta!store, Meta!Turn,
      Meta!Adopt, MetaDoes, Becomes, MetaAccount
<1>12. ASSUME Meta(m)!OnDisconnect1013(s)
      PROVE  MetaAccount(S)'
  BY <1>s, <1>t, <1>c, <1>o, <1>12
  DEF Meta!OnDisconnect1013, Meta!At, Meta!store, Meta!OnDisconnect, Meta!Turn,
      Meta!EmitDisconnect, Meta!WhenDisconnected, MetaDoes, Becomes, MetaAccount
<1>13. ASSUME Meta(m)!ConnectStore(s)
      PROVE  MetaAccount(S)'
  BY <1>s, <1>t, <1>c, <1>o, <1>13
  DEF Meta!ConnectStore, Meta!store, Meta!Connected, Meta!WhenConnected, Meta!Stored, MetaDoes,
      Becomes, MetaAccount
<1>14. ASSUME Meta(m)!Disconnect(s)
      PROVE  MetaAccount(S)'
  BY <1>s, <1>t, <1>c, <1>o, <1>14
  DEF Meta!Disconnect, Meta!WhenDisconnected, Meta!store, MetaDoes, Becomes, MetaAccount
<1>15. ASSUME Meta(m)!WalletAccounts(s)
      PROVE  MetaAccount(S)'
  <2>1. /\ job[s].at = "idle" \/ ~ Metas[m].patient
        /\ granted' = TRUE /\ chain' = chain /\ listening' = listening
        /\ on' = on /\ temps' = temps
    BY <1>s, <1>15 DEF Meta!WalletAccounts, Meta!WalletActs, Meta!Calm, Meta!InFlight
  <2>2. CASE "connect" \in on
    <3>1. link' = link /\ Becomes(s, "onConnect", chain, FALSE, None)
      BY <1>c, <2>2, <1>15 DEF Meta!WalletAccounts, MetaDoes
    <3>2. \A t \in S : t # s => job'[t] = job[t]
      BY <2>2, <1>15, MetaSpares DEF Meta!WalletAccounts
    <3> QED BY <1>s, <2>1, <3>1, <3>2 DEF Becomes, MetaAccount
  <2>3. CASE "connect" \notin on
    <3>1. job' = job /\ (link' = link \/ (link # None /\ link' = [link EXCEPT !.acc = TRUE]))
      BY <2>3, <1>15 DEF Meta!WalletAccounts
    <3>2. link # None =>
            [link EXCEPT !.acc = TRUE].chain = link.chain /\ [link EXCEPT !.acc = TRUE].acc
      BY <1>t DEF Conns
    <3> QED BY <1>s, <2>1, <3>1, <3>2 DEF MetaAccount
  <2> QED BY <2>2, <2>3
<1>16. ASSUME Meta(m)!WalletConnects(s)
      PROVE  MetaAccount(S)'
  BY <1>s, <1>t, <1>c, <1>o, <1>16, SMTT(30)
  DEF Meta!WalletConnects, Meta!WalletActs, Meta!store, Meta!Turn, Meta!Calm, Meta!InFlight,
      MetaDoes, Becomes, MetaAccount
<1>17. ASSUME Meta(m)!WalletBlinks(s)
      PROVE  MetaAccount(S)'
  BY <1>s, <1>t, <1>c, <1>o, <1>17, SMTT(30)
  DEF Meta!WalletBlinks, Meta!WalletActs, Meta!store, Meta!Turn, Meta!Calm, Meta!InFlight,
      MetaDoes, Becomes, MetaAccount
<1>18. ASSUME NEW ch \in Ch \cup {None}, Meta(m)!Connect(s, ch)
      PROVE  MetaAccount(S)'
  BY <1>s, <1>t, <1>c, <1>o, <1>18 DEF Meta!Connect, MetaDoes, Becomes, MetaAccount
<1>19. ASSUME NEW ch \in Ch, Meta(m)!SwitchChain(s, ch)
      PROVE  MetaAccount(S)'
  BY <1>s, <1>t, <1>c, <1>o, <1>19 DEF Meta!SwitchChain, Meta!store, MetaDoes, Becomes, MetaAccount
<1> QED BY <1>1, <1>2, <1>3, <1>4, <1>5, <1>6, <1>7, <1>8, <1>9, <1>10, <1>11, <1>12, <1>13, <1>14,
           <1>15, <1>16, <1>17, <1>18, <1>19, <1>s
        DEF Meta!Answer, Meta!Call, InMeta, OfMeta

\* ... and every step does.
LEMMA MetaAccountNext ==
  ASSUME NEW m, NEW S, NEW Ch, InMeta(m, S, Ch),
         MetaAccount(S), Meta(m)!Next
  PROVE  MetaAccount(S)'
<1>s. S = Metas[m].slots /\ Ch = Metas[m].chains
  BY DEF InMeta, OfMeta
<1>t. /\ job = [t \in S |-> job[t]] /\ None \notin Ch /\ chain \in Ch
      /\ link # None => link \in Conns(Ch) /\ None \notin Conns(Ch)
      /\ \A t \in S : job[t] \in JobSet(Ch)
  BY DEF InMeta, OfMeta, WalletInv, StoreInv, Jobs, JobOK, Apart
<1>1. ASSUME NEW ch \in Ch, Meta(m)!WalletChain(ch)
      PROVE  MetaAccount(S)'
  <2>1. \/ link' = link /\ job' = job
        \/ Meta(m)!EmitChange(ch, job)
    BY <1>1 DEF Meta!WalletChain, Meta!store
  <2>2. CASE Meta(m)!EmitChange(ch, job)
    <3>1. ChangeIsHeard(ch) /\ \A s \in S : job'[s] = job[s]
      BY <2>2, MetaChanges, MetaHears DEF MetaAccount
    <3> QED BY <3>1 DEF ChangeIsHeard, MetaAccount
  <2> QED BY <2>1, <2>2 DEF MetaAccount
<1>2. ASSUME Meta(m)!WalletLock
      PROVE  MetaAccount(S)'
  BY <1>s, <1>t, <1>2
  DEF Meta!WalletLock, Meta!WalletActs, Meta!OnDisconnect, Meta!store, Meta!Turn, Meta!Calm,
      Meta!EmitDisconnect, Meta!WhenDisconnected, Meta!InFlight, MetaAccount
<1>3. ASSUME Meta(m)!WalletDisconnects
      PROVE  MetaAccount(S)'
  BY <1>s, <1>t, <1>3
  DEF Meta!WalletDisconnects, Meta!WalletActs, Meta!OnDisconnect, Meta!Turn, Meta!Calm,
      Meta!EmitDisconnect, Meta!WhenDisconnected, Meta!store, Meta!InFlight, MetaAccount
<1>4. ASSUME Meta(m)!Load
      PROVE  MetaAccount(S)'
  <2>1. PICK s \in S : job' = [t \in S |-> IF t = s THEN Meta(m)!Job("reconnect.accounts", None)
                                              ELSE Meta(m)!IdleJob]
    BY <1>4, <1>s DEF Meta!Load, Meta!Opened
  <2>2. link' = None /\ temps' = {}
    BY <1>4 DEF Meta!Load, Meta!Opened
  <2> QED BY <2>1, <2>2 DEF Meta!Job, Meta!IdleJob, MetaAccount
<1> QED BY <1>1, <1>2, <1>3, <1>4, <1>s, MetaAccountCall DEF Meta!Next, Meta!Wallet

\* A call keeps the connection at the wallet's,
LEMMA MetaTracksCall ==
  ASSUME NEW m, NEW S, NEW Ch, InMeta(m, S, Ch), Single(S), Metas[m].patient, ~ Metas[m].breaks,
         MetaTracks(m, S), NEW s \in S,
         \/ Meta(m)!ConnectStore(s) \/ Meta(m)!Answer(s) \/ Meta(m)!Call(s)
         \/ Meta(m)!WalletAccounts(s) \/ Meta(m)!WalletConnects(s) \/ Meta(m)!WalletBlinks(s)
  PROVE  MetaTracks(m, S)'
<1>s. S = Metas[m].slots /\ \A t \in S : t = s
  BY DEF Single, InMeta, OfMeta
<1>t. /\ job = [t \in S |-> job[t]] /\ job[s] \in JobSet(Ch) /\ None \notin Ch /\ chain \in Ch
      /\ job[s].at \in SwitchPlaces => job[s].chain \in Ch/\ granted \in BOOLEAN
      /\ link # None => link \in Conns(Ch)
  BY DEF InMeta, OfMeta, WalletInv, StoreInv, Jobs, JobOK, Apart
<1>c. MetaDoes(m, s)
  BY MetaCalls
<1>1. ASSUME Meta(m)!ConnectReject(s)
      PROVE  MetaTracks(m, S)'
  BY <1>s, <1>t, <1>c, <1>1
  DEF Meta!ConnectReject, Meta!At, Meta!Fail, Meta!Turn, Meta!Failed, Meta!store, MetaDoes,
      Becomes, MetaTracks
<1>2. ASSUME Meta(m)!ConnectAccept(s)
      PROVE  MetaTracks(m, S)'
  <2>1. /\ job[s].at = "connect.prompt" /\ granted' = TRUE /\ chain' = chain /\ temps' = temps
    BY <1>2 DEF Meta!ConnectAccept, Meta!At, Meta!WithAccounts, Meta!Connected
  <2>2. CASE job[s].chain \in {None, chain}
    <3>1. /\ Becomes(s, "idle", None, FALSE, None) /\ link' = [chain |-> chain, acc |-> TRUE]
          /\ on' = {"change", "disconnect"}
          /\ {"accountsChanged", "chainChanged"} \subseteq listening'
      BY <1>c, <2>2, <1>2
      DEF Meta!ConnectAccept, Meta!WithAccounts, Meta!Connected, Meta!Stored, Meta!WhenConnected,
          MetaDoes
    <3> QED BY <1>s, <2>1, <3>1 DEF Becomes, MetaTracks
  <2>3. CASE job[s].chain \notin {None, chain}
    <3>1. Becomes(s, "switch.wallet", job[s].chain, TRUE, chain) /\ link' = link
      BY <1>c, <2>3, <1>2 DEF Meta!ConnectAccept, Meta!WithAccounts, Meta!store, MetaDoes
    <3> QED BY <1>s, <2>1, <3>1 DEF Becomes, MetaTracks
  <2> QED BY <2>2, <2>3
<1>3. ASSUME Meta(m)!Authorized(s)
      PROVE  MetaTracks(m, S)'
  BY <1>s, <1>t, <1>c, <1>3
  DEF Meta!Authorized, Meta!At, Meta!Turn, Meta!store, MetaDoes, Becomes, MetaTracks
<1>4. ASSUME Meta(m)!Reconnected(s)
      PROVE  MetaTracks(m, S)'
  BY <1>s, <1>t, <1>c, <1>4
  DEF Meta!Reconnected, Meta!At, Meta!Connected, Meta!store, Meta!Turn, Meta!WhenConnected,
      Meta!Stored, MetaDoes, Becomes, MetaTracks
<1>5. ASSUME Meta(m)!DisconnectDone(s)
      PROVE  MetaTracks(m, S)'
  BY <1>s, <1>t, <1>c, <1>5
  DEF Meta!DisconnectDone, Meta!At, Meta!Removed, Meta!Turn, Meta!store, MetaDoes, Becomes,
      MetaTracks
<1>6. ASSUME Meta(m)!DisconnectFail(s)
      PROVE  MetaTracks(m, S)'
  BY <1>s, <1>t, <1>c, <1>6
  DEF Meta!DisconnectFail, Meta!At, Meta!store, Meta!Turn, MetaDoes, Becomes, MetaTracks
<1>7. ASSUME Meta(m)!SwitchReject(s)
      PROVE  MetaTracks(m, S)'
  BY <1>s, <1>t, <1>c, <1>7
  DEF Meta!SwitchReject, Meta!At, Meta!Fail, Meta!store, Meta!Turn, Meta!Failed, MetaDoes,
      Becomes, MetaTracks
<1>8. ASSUME Meta(m)!SwitchAnswer(s)
      PROVE  MetaTracks(m, S)'
  <2>1. /\ job[s].at = "switch.wallet" /\ job[s].chain \in Ch
        /\ granted' = granted /\ listening' = listening
    BY <1>t, <1>8 DEF Meta!SwitchAnswer, Meta!At, SwitchPlaces
  <2>2. CASE /\ chain' = job[s].chain /\ "chainChanged" \in listening
             /\ Meta(m)!EmitChange(chain', [job EXCEPT ![s].at = "switch.confirm"])
    <3>1. Meta(m)!EmitChange(job[s].chain, [job EXCEPT ![s].at = "switch.confirm"])
      BY <2>2
    <3>2. /\ ChangeIsHeard(job[s].chain)
          /\ Becomes(s, "switch.confirm", job[s].chain, job[s].acc, job[s].was)
      BY <2>1, <3>1, MetaHears, MetaChanges
    <3> QED BY <1>s, <2>1, <2>2, <3>2 DEF ChangeIsHeard, Becomes, MetaTracks
  <2>3. CASE /\ chain' \in {job[s].chain, chain} /\ Meta(m)!Go(s, "switch.confirm")
             /\ UNCHANGED <<link, status, on, temps>>
    <3>1. Becomes(s, "switch.confirm", job[s].chain, job[s].acc, job[s].was)
      BY <1>c, <2>3 DEF MetaDoes
    <3> QED BY <1>s, <2>1, <2>3, <3>1 DEF Becomes, MetaTracks
  <2> QED BY <2>2, <2>3, <1>8 DEF Meta!SwitchAnswer, Meta!store
<1>9. ASSUME Meta(m)!SwitchConfirm(s)
      PROVE  MetaTracks(m, S)'
  <2>1. /\ job[s].at = "switch.confirm" /\ chain = job[s].chain /\ chain' = chain
        /\ granted' = granted /\ listening' = listening
        /\ Meta(m)!EmitChange(chain, [job EXCEPT ![s] = Meta(m)!Return(job[s])])
    BY <1>9 DEF Meta!SwitchConfirm, Meta!At
  <2>2. ChangeIsHeard(chain) /\ HasReturned(s, chain)
    BY <1>t, <2>1, MetaHears, MetaChanges
  <2> QED BY <1>s, <2>1, <2>2 DEF ChangeIsHeard, HasReturned, Becomes, MetaTracks
<1>10. ASSUME Meta(m)!SwitchFail(s)
      PROVE  MetaTracks(m, S)'
  BY <1>s, <1>t, <1>c, <1>10
  DEF Meta!SwitchFail, Meta!At, Meta!store, Meta!Turn, MetaDoes, Becomes, HasReturned,
      MetaTracks
<1>11. ASSUME Meta(m)!OnConnect(s)
      PROVE  MetaTracks(m, S)'
  BY <1>s, <1>t, <1>c, <1>11
  DEF Meta!OnConnect, Meta!At, Meta!EmitConnect, Meta!WhenConnected, Meta!store, Meta!Turn,
      Meta!Adopt, MetaDoes, Becomes, MetaTracks
<1>12. ASSUME Meta(m)!OnDisconnect1013(s)
      PROVE  MetaTracks(m, S)'
  BY <1>s, <1>t, <1>c, <1>12, SMTT(30)
  DEF Meta!OnDisconnect1013, Meta!At, Meta!store, Meta!OnDisconnect, Meta!Turn,
      Meta!EmitDisconnect, Meta!WhenDisconnected, MetaDoes, Becomes, MetaTracks
<1>13. ASSUME Meta(m)!ConnectStore(s)
      PROVE  MetaTracks(m, S)'
  BY <1>s, <1>t, <1>c, <1>13, SMTT(30)
  DEF Meta!ConnectStore, Meta!store, Meta!Connected, Meta!WhenConnected, Meta!Stored, MetaDoes,
      Becomes, MetaTracks
<1>14. ASSUME Meta(m)!Disconnect(s)
      PROVE  MetaTracks(m, S)'
  BY <1>s, <1>t, <1>c, <1>14
  DEF Meta!Disconnect, Meta!WhenDisconnected, Meta!store, MetaDoes, Becomes, MetaTracks
<1>15. ASSUME Meta(m)!WalletAccounts(s)
      PROVE  MetaTracks(m, S)'
  <2>1. /\ job[s].at = "idle" \/ ~ Metas[m].patient
        /\ granted' = TRUE /\ chain' = chain /\ listening' = listening
        /\ on' = on /\ temps' = temps
    BY <1>s, <1>15 DEF Meta!WalletAccounts, Meta!WalletActs, Meta!Calm, Meta!InFlight
  <2>2. CASE "connect" \in on
    <3>1. link' = link /\ Becomes(s, "onConnect", chain, FALSE, None)
      BY <1>c, <2>2, <1>15 DEF Meta!WalletAccounts, MetaDoes
    <3> QED BY <1>s, <2>1, <3>1 DEF Becomes, MetaTracks
  <2>3. CASE "connect" \notin on
    <3>1. job' = job /\ (link' = link \/ (link # None /\ link' = [link EXCEPT !.acc = TRUE]))
      BY <2>3, <1>15 DEF Meta!WalletAccounts
    <3>2. link # None =>
            [link EXCEPT !.acc = TRUE].chain = link.chain /\ [link EXCEPT !.acc = TRUE].acc
      BY <1>t, SMTT(30) DEF Conns
    <3> QED BY <1>s, <2>1, <3>1, <3>2 DEF MetaTracks
  <2> QED BY <2>2, <2>3
<1>16. ASSUME Meta(m)!WalletConnects(s)
      PROVE  MetaTracks(m, S)'
  BY <1>s, <1>t, <1>c, <1>16, SMTT(30)
  DEF Meta!WalletConnects, Meta!WalletActs, Meta!store, Meta!Turn, Meta!Calm, Meta!InFlight,
      MetaDoes, Becomes, MetaTracks
<1>17. ASSUME Meta(m)!WalletBlinks(s)
      PROVE  MetaTracks(m, S)'
  BY <1>s, <1>t, <1>c, <1>17
  DEF Meta!WalletBlinks, Meta!WalletActs, Meta!store, Meta!Turn, Meta!Calm, Meta!InFlight,
      MetaDoes, Becomes, MetaTracks
<1>18. ASSUME NEW ch \in Ch \cup {None}, Meta(m)!Connect(s, ch)
      PROVE  MetaTracks(m, S)'
  BY <1>s, <1>t, <1>c, <1>18, SMTT(30) DEF Meta!Connect, MetaDoes, Becomes, MetaTracks
<1>19. ASSUME NEW ch \in Ch, Meta(m)!SwitchChain(s, ch)
      PROVE  MetaTracks(m, S)'
  BY <1>s, <1>t, <1>c, <1>19 DEF Meta!SwitchChain, Meta!store, MetaDoes, Becomes, MetaTracks
<1> QED BY <1>1, <1>2, <1>3, <1>4, <1>5, <1>6, <1>7, <1>8, <1>9, <1>10, <1>11, <1>12, <1>13, <1>14,
           <1>15, <1>16, <1>17, <1>18, <1>19, <1>s
        DEF Meta!Answer, Meta!Call, InMeta, OfMeta

\* ... and every step does.
LEMMA MetaTracksNext ==
  ASSUME NEW m, NEW S, NEW Ch, InMeta(m, S, Ch), Single(S), Metas[m].patient, ~ Metas[m].breaks,
         MetaTracks(m, S), Meta(m)!Next
  PROVE  MetaTracks(m, S)'
<1>s. S = Metas[m].slots /\ Ch = Metas[m].chains
  BY DEF InMeta, OfMeta
<1>t. /\ job = [t \in S |-> job[t]] /\ None \notin Ch /\ chain \in Ch
      /\ link # None => link \in Conns(Ch) /\ None \notin Conns(Ch)
      /\ \A t \in S : job[t] \in JobSet(Ch)
  BY DEF InMeta, OfMeta, WalletInv, StoreInv, Jobs, JobOK, Apart
<1>1. ASSUME NEW ch \in Ch, Meta(m)!WalletChain(ch)
      PROVE  MetaTracks(m, S)'
  <2>1. /\ (\A s \in S : job[s].at = "idle") /\ granted' = granted
        /\ chain' = ch /\ listening' = listening
    BY <1>s, <1>1 DEF Meta!WalletChain, Meta!WalletActs, Meta!Calm, Meta!InFlight
  <2>2. CASE "chainChanged" \in listening
    <3>1. Meta(m)!EmitChange(ch, job)
      BY <2>2, <1>1 DEF Meta!WalletChain
    <3>2. ChangeIsHeard(ch) /\ \A s \in S : job'[s] = job[s]
      BY <2>1, <3>1, MetaChanges, MetaHears
    <3> QED BY <2>1, <2>2, <3>2 DEF ChangeIsHeard, MetaTracks
  <2>3. CASE ~("chainChanged" \in listening)
    <3>1. link' = link /\ on' = on /\ temps' = temps /\ job' = job
      BY <2>3, <1>1 DEF Meta!WalletChain, Meta!store
    <3> QED BY <2>1, <2>3, <3>1 DEF MetaTracks
  <2> QED BY <2>2, <2>3
<1>2. ASSUME Meta(m)!WalletLock
      PROVE  MetaTracks(m, S)'
  BY <1>s, <1>t, <1>2
  DEF Meta!WalletLock, Meta!WalletActs, Meta!OnDisconnect, Meta!store, Meta!Turn, Meta!Calm,
      Meta!EmitDisconnect, Meta!WhenDisconnected, Meta!InFlight, MetaTracks
<1>3. ASSUME Meta(m)!WalletDisconnects
      PROVE  MetaTracks(m, S)'
  BY <1>s, <1>t, <1>3
  DEF Meta!WalletDisconnects, Meta!WalletActs, Meta!OnDisconnect, Meta!Turn, Meta!Calm,
      Meta!EmitDisconnect, Meta!WhenDisconnected, Meta!store, Meta!InFlight, MetaTracks
<1>4. ASSUME Meta(m)!Load
      PROVE  MetaTracks(m, S)'
  <2>1. PICK s \in S : job' = [t \in S |-> IF t = s THEN Meta(m)!Job("reconnect.accounts", None)
                                              ELSE Meta(m)!IdleJob]
    BY <1>4, <1>s DEF Meta!Load, Meta!Opened
  <2>2. link' = None /\ temps' = {}
    BY <1>4 DEF Meta!Load, Meta!Opened
  <2> QED BY <2>1, <2>2 DEF Meta!Job, Meta!IdleJob, MetaTracks
<1> QED BY <1>1, <1>2, <1>3, <1>4, <1>s, MetaTracksCall DEF Meta!Next, Meta!Wallet

-----------------------------------------------------------------------------
(* WalletConnect. *)

\* What a call and an event of this connector do to a call.
RelayDoes(r, s) ==
  /\ \A at, ch : Relay(r)!Start(s, at, ch) => job[s].at = "idle" /\ Becomes(s, at, ch, FALSE, None)
  /\ \A at : Relay(r)!Go(s, at) => Becomes(s, at, job[s].chain, job[s].acc, job[s].was)
  /\ \A at, acc, was : Relay(r)!Take(s, at, acc, was) => Becomes(s, at, job[s].chain, acc, was)
  /\ Relay(r)!End(s) => Becomes(s, "idle", None, FALSE, None)
  /\ Relay(r)!Returns(s) => HasReturned(s, job[s].chain)
  /\ Relay(r)!ReturnsUnswitched(s) => HasReturned(s, job[s].was)

\* ... which are those of Connector.
LEMMA RelayCalls ==
  ASSUME NEW r, NEW S, NEW Ch, InRelay(r, S, Ch), NEW s \in S
  PROVE  RelayDoes(r, s)
<1>1. StoreInv(S, Ch)
  BY DEF InRelay, RelayInv
<1>2. /\ \A at, ch : Relay(r)!Start(s, at, ch) <=> Store(S, Ch)!Start(s, at, ch)
      /\ \A at : Relay(r)!Go(s, at) <=> Store(S, Ch)!Go(s, at)
      /\ \A at, acc, was : Relay(r)!Take(s, at, acc, was) <=> Store(S, Ch)!Take(s, at, acc, was)
      /\ Relay(r)!End(s) <=> Store(S, Ch)!End(s)
      /\ Relay(r)!Returns(s) <=> Store(S, Ch)!Returns(s)
      /\ Relay(r)!ReturnsUnswitched(s) <=> Store(S, Ch)!ReturnsUnswitched(s)
  BY RelayStore DEF InRelay
<1> QED BY <1>1, <1>2, CallBecomes DEF RelayDoes

\* An event of its reaches the connection,
LEMMA RelayHears ==
  ASSUME NEW r, NEW S, NEW Ch, InRelay(r, S, Ch), NEW ch \in Ch, NEW jobs,
         Relay(r)!EmitChange(ch, jobs)
  PROVE  ChangeIsHeard(ch)
<1>1. Store(S, Ch)!EmitChange(ch, jobs)
  BY RelayStore DEF InRelay
<1> QED BY <1>1, ChangeReaches DEF InRelay, OfRelay, RelayInv

\* ... and the calls.
LEMMA RelayChanges ==
  ASSUME NEW r, NEW S, NEW Ch, InRelay(r, S, Ch), NEW s \in S, NEW ch \in Ch
  PROVE  /\ \A at : /\ Relay(r)!EmitChange(ch, [job EXCEPT ![s].at = at])
                    /\ at # "switch.event"
                    => Becomes(s, at, job[s].chain, job[s].acc, job[s].was)
         /\ /\ Relay(r)!EmitChange(ch, [job EXCEPT ![s].at = "switch.event"])
            /\ job[s].chain = ch
            => HasReturned(s, ch)
         /\ Relay(r)!EmitChange(ch, [job EXCEPT ![s] = Relay(r)!Return(job[s])])
            => HasReturned(s, job[s].chain)
         /\ Relay(r)!EmitChange(ch, job) /\ job[s].at # "switch.event" => job'[s] = job[s]
<1>1. Relay(r)!Return(job[s]) = Store(S, Ch)!Return(job[s])
  BY RelayStore DEF InRelay
<1>2. \A jobs : Relay(r)!EmitChange(ch, jobs) <=> Store(S, Ch)!EmitChange(ch, jobs)
  BY RelayStore DEF InRelay
<1> QED BY <1>1, <1>2, ChangeBecomes DEF InRelay, OfRelay, RelayInv

\* The connection has a session, on the provider's chain, and its closures are there;
\* no call asks for a chain before it has one.
RelayTracks(S) ==
  /\ link # None =>
       /\ session # {} /\ link.chain = chain /\ {"change", "disconnect"} \subseteq on
       /\ {"chainChanged", "session_delete"} \subseteq listening
       /\ \A s \in S :
            job[s].at \in {"idle", "disconnect", "switch.wallet", "switch.event", "switch.add"}
  /\ \A s \in S :
       /\ job[s].was = None /\ job[s].at # "connect.store"
       /\ job[s].at \in {"connect.begin", "connect.end", "connect.pair"} => job[s].chain = None

\* A call keeps the session of the connection,
LEMMA RelayTracksCall ==
  ASSUME NEW r, NEW S, NEW Ch, InRelay(r, S, Ch), Single(S), Relays[r].patient, ~ Relays[r].asks,
         ~ Relays[r].fails,
         RelayTracks(S), NEW s \in S,
         Relay(r)!ConnectStore(s) \/ Relay(r)!Answer(s) \/ Relay(r)!Call(s)
  PROVE  RelayTracks(S)'
<1>s. S = Relays[r].slots /\ \A t \in S : t = s
  BY DEF Single, InRelay, OfRelay
<1>t. /\ job = [t \in S |-> job[t]] /\ job[s] \in JobSet(Ch) /\ None \notin Ch /\ chain \in Ch
      /\ job[s].at \in SwitchPlaces => job[s].chain \in Ch
      /\ link # None => link \in Conns(Ch)
  BY DEF InRelay, OfRelay, RelayInv, StoreInv, Jobs, JobOK, Apart
<1>c. RelayDoes(r, s)
  BY RelayCalls
<1>1. ASSUME Relay(r)!ConnectStore(s)
      PROVE  RelayTracks(S)'
  BY <1>s, <1>t, <1>c, <1>1
  DEF Relay!ConnectStore, Relay!store, Relay!Connected, Relay!provider, Relay!Stored,
      Relay!WhenConnected, RelayDoes, Becomes, RelayTracks
<1>2. ASSUME Relay(r)!Begin(s)
      PROVE  RelayTracks(S)'
  BY <1>s, <1>t, <1>c, <1>2
  DEF Relay!Begin, Relay!At, Relay!IsChainsStale, Relay!store, Relay!Proceed, Relay!provider,
      Relay!Turn, Relay!Connected, Relay!Stored, Relay!WhenConnected, RelayDoes, Becomes,
      RelayTracks
<1>3. ASSUME Relay(r)!EndStale(s)
      PROVE  RelayTracks(S)'
  BY <1>s, <1>t, <1>c, <1>3, SMTT(30)
  DEF Relay!EndStale, Relay!At, Relay!store, Relay!Turn, RelayDoes, Becomes, RelayTracks
<1>4. ASSUME Relay(r)!Decline(s)
      PROVE  RelayTracks(S)'
  BY <1>s, <1>t, <1>c, <1>4
  DEF Relay!Decline, Relay!At, Relay!Failed, Relay!provider, Relay!Turn, Relay!store, RelayDoes,
      Becomes, RelayTracks
<1>5. ASSUME Relay(r)!Pair(s)
      PROVE  RelayTracks(S)'
  BY <1>s, <1>t, <1>c, <1>5
  DEF Relay!Pair, Relay!At, Relay!Proceed, Relay!Turn, Relay!Connected, Relay!store,
      Relay!Stored, Relay!WhenConnected, RelayDoes, Becomes, RelayTracks
<1>6. ASSUME Relay(r)!Reconnect(s)
      PROVE  RelayTracks(S)'
  BY <1>s, <1>t, <1>c, <1>6
  DEF Relay!Reconnect, Relay!At, Relay!IsChainsStale, Relay!Connected, Relay!provider,
      Relay!Failed, Relay!Turn, Relay!Stored, Relay!WhenConnected, Relay!store, RelayDoes,
      Becomes, RelayTracks
<1>7. ASSUME Relay(r)!DisconnectDone(s)
      PROVE  RelayTracks(S)'
  BY <1>s, <1>t, <1>c, <1>7
  DEF Relay!DisconnectDone, Relay!At, Relay!Unbound, Relay!Removed, Relay!Turn, Relay!store,
      RelayDoes, Becomes, RelayTracks
<1>8. ASSUME Relay(r)!DisconnectFail(s)
      PROVE  RelayTracks(S)'
  BY <1>s, <1>t, <1>c, <1>8
  DEF Relay!DisconnectFail, Relay!At, Relay!Unbound, Relay!provider, Relay!store, Relay!Turn,
      RelayDoes, Becomes, RelayTracks
<1>9. ASSUME Relay(r)!Switched(s)
      PROVE  RelayTracks(S)'
  <2>1. /\ job[s].at = "switch.wallet" /\ job[s].chain \in session /\ chain' = job[s].chain
        /\ session' = session /\ listening' = listening
    BY <1>9 DEF Relay!Switched, Relay!At
  <2>2. job[s].chain \in Ch
    BY <1>t, <2>1 DEF SwitchPlaces
  <2>3. CASE "chainChanged" \in listening
    <3>1. Relay(r)!EmitChange(job[s].chain, [job EXCEPT ![s].at = "switch.event"])
      BY <2>1, <2>3, <1>9 DEF Relay!Switched
    <3>2. ChangeIsHeard(job[s].chain) /\ HasReturned(s, job[s].chain)
      BY <2>2, <3>1, RelayHears, RelayChanges
    <3> QED BY <1>s, <2>1, <3>2 DEF ChangeIsHeard, HasReturned, Becomes, RelayTracks
  <2>4. CASE "chainChanged" \notin listening
    <3>1. link' = link /\ Becomes(s, "switch.event", job[s].chain, job[s].acc, job[s].was)
      BY <1>c, <2>4, <1>9, SMTT(30) DEF Relay!Switched, Relay!store, RelayDoes
    <3> QED BY <1>s, <2>1, <2>4, <3>1 DEF Becomes, RelayTracks
  <2> QED BY <2>3, <2>4
<1>10. ASSUME Relay(r)!SwitchReject(s)
      PROVE  RelayTracks(S)'
  BY <1>s, <1>t, <1>c, <1>10
  DEF Relay!SwitchReject, Relay!At, Relay!Forgotten, Relay!Failed, Relay!provider, Relay!Turn,
      Relay!store, RelayDoes, Becomes, RelayTracks
<1>11. ASSUME Relay(r)!SwitchUnknown(s)
      PROVE  RelayTracks(S)'
  BY <1>s, <1>t, <1>c, <1>11
  DEF Relay!SwitchUnknown, Relay!At, Relay!Forgotten, Relay!provider, Relay!store, Relay!Turn,
      RelayDoes, Becomes, RelayTracks
<1>12. ASSUME Relay(r)!Added(s)
      PROVE  RelayTracks(S)'
  BY <1>s, <1>t, <1>c, <1>12
  DEF Relay!Added, Relay!At, Relay!store, Relay!Turn, RelayDoes, Becomes, HasReturned,
      RelayTracks
<1>13. ASSUME Relay(r)!SwitchUnadded(s)
      PROVE  RelayTracks(S)'
  BY <1>13 DEF Relay!SwitchUnadded, RelayTracks
<1>14. ASSUME Relay(r)!Disconnect(s)
      PROVE  RelayTracks(S)'
  BY <1>s, <1>t, <1>c, <1>14
  DEF Relay!Disconnect, Relay!provider, Relay!store, RelayDoes, Becomes, RelayTracks
<1>15. ASSUME NEW ch \in Ch \cup {None}, Relay(r)!Connect(s, ch)
      PROVE  RelayTracks(S)'
  BY <1>s, <1>t, <1>c, <1>15 DEF Relay!Connect, Relay!provider, RelayDoes, Becomes, RelayTracks
<1>16. ASSUME NEW ch \in Ch, Relay(r)!SwitchChain(s, ch)
      PROVE  RelayTracks(S)'
  BY <1>s, <1>t, <1>c, <1>16
  DEF Relay!SwitchChain, Relay!provider, Relay!store, RelayDoes, Becomes, RelayTracks
<1> QED BY <1>1, <1>2, <1>3, <1>4, <1>5, <1>6, <1>7, <1>8, <1>9, <1>10, <1>11, <1>12, <1>13, <1>14,
           <1>15, <1>16, <1>s
        DEF Relay!Answer, Relay!Call, InRelay, OfRelay

\* ... and every step does.
LEMMA RelayTracksNext ==
  ASSUME NEW r, NEW S, NEW Ch, InRelay(r, S, Ch), Single(S), Relays[r].patient, ~ Relays[r].asks,
         ~ Relays[r].fails,
         RelayTracks(S), Relay(r)!Next
  PROVE  RelayTracks(S)'
<1>s. S = Relays[r].slots /\ Ch = Relays[r].chains
  BY DEF InRelay, OfRelay
<1>t. /\ job = [t \in S |-> job[t]] /\ None \notin Ch /\ chain \in Ch
      /\ link # None => link \in Conns(Ch) /\ None \notin Conns(Ch)
      /\ \A t \in S : job[t] \in JobSet(Ch)
  BY DEF InRelay, OfRelay, RelayInv, StoreInv, Jobs, JobOK, Apart
<1>1. ASSUME NEW ch \in Ch, Relay(r)!WalletChain(ch)
      PROVE  RelayTracks(S)'
  <2>1. /\ (\A s \in S : job[s].at = "idle") /\ session' = session
        /\ chain' = ch /\ listening' = listening
    BY <1>s, <1>1 DEF Relay!WalletChain, Relay!WalletActs, Relay!Calm, Relay!InFlight
  <2>2. CASE "chainChanged" \in listening
    <3>1. Relay(r)!EmitChange(ch, job)
      BY <2>2, <1>1 DEF Relay!WalletChain
    <3>2. ChangeIsHeard(ch) /\ \A s \in S : job'[s] = job[s]
      BY <2>1, <3>1, RelayChanges, RelayHears
    <3> QED BY <2>1, <2>2, <3>2 DEF ChangeIsHeard, RelayTracks
  <2>3. CASE ~("chainChanged" \in listening)
    <3>1. link' = link /\ on' = on /\ temps' = temps /\ job' = job
      BY <2>3, <1>1 DEF Relay!WalletChain, Relay!connector, Relay!store
    <3> QED BY <2>1, <2>3, <3>1 DEF RelayTracks
  <2> QED BY <2>2, <2>3
<1>2. ASSUME Relay(r)!WalletEnds
      PROVE  RelayTracks(S)'
  BY <1>s, <1>t, <1>2
  DEF Relay!WalletEnds, Relay!WalletActs, Relay!OnDisconnect, Relay!store, Relay!Turn,
      Relay!Calm, Relay!EmitDisconnect, Relay!InFlight, RelayTracks
<1>3. ASSUME NEW conf \in Relays[r].pages, Relay(r)!Load(conf)
      PROVE  RelayTracks(S)'
  <2>1. PICK s \in S : job' = [t \in S |-> IF t = s THEN Relay(r)!Job("reconnect", None)
                                           ELSE Relay(r)!IdleJob]
    BY <1>3, <1>s DEF Relay!Load, Relay!Opened
  <2>2. link' = None
    BY <1>3 DEF Relay!Load, Relay!Opened
  <2> QED BY <2>1, <2>2 DEF Relay!Job, Relay!IdleJob, RelayTracks
<1> QED BY <1>1, <1>2, <1>3, <1>s, RelayTracksCall DEF Relay!Next

-----------------------------------------------------------------------------
(* The connections of the scenes in which the wallet stands still. *)

\* The invariant, of whichever connector the scene has.
TrackInv ==
  /\ SceneInv
  /\ \A b \in Calm(Browsers) : scene = b =>
       /\ BrowserAccount(Browsers[b].slots)
       /\ ~ Browsers[b].rejects => BrowserTracks(Browsers[b].slots)
  /\ \A r \in CalmRelays : scene = r => RelayTracks(Relays[r].slots)
  /\ \A p \in Calm(Portos) : scene = p /\ ~ Portos[p].breaks => PortoTracks(Portos[p].slots)
  /\ \A k \in Calm(Sdks) : scene = k /\ ~ Sdks[k].adds => SdkTracks(k, Sdks[k].slots)
  /\ \A m \in DOMAIN Metas : scene = m => MetaAccount(Metas[m].slots)
  /\ \A m \in Calm(Metas) : scene = m /\ ~ Metas[m].breaks => MetaTracks(m, Metas[m].slots)

\* The settings one call at a time is made in are settings.
LEMMA CalmSettings ==
  /\ \A b \in Calm(Browsers) :
       b \in DOMAIN Browsers /\ Browsers[b].patient /\ Single(Browsers[b].slots)
  /\ \A r \in CalmRelays :
       /\ r \in DOMAIN Relays /\ Relays[r].patient /\ Single(Relays[r].slots)
       /\ ~ Relays[r].asks /\ ~ Relays[r].fails
  /\ \A p \in Calm(Portos) : p \in DOMAIN Portos /\ Portos[p].patient /\ Single(Portos[p].slots)
  /\ \A k \in Calm(Sdks) : k \in DOMAIN Sdks /\ Sdks[k].patient /\ Single(Sdks[k].slots)
  /\ \A m \in Calm(Metas) : m \in DOMAIN Metas /\ Metas[m].patient /\ Single(Metas[m].slots)
  BY DEF Calm, CalmRelays

\* A page that was just opened.
LEMMA FreshTracks ==
  ASSUME NEW S, link = None, temps = {}, job = [s \in S |-> Store(S, {})!IdleJob]
  PROVE  /\ BrowserAccount(S) /\ BrowserTracks(S) /\ RelayTracks(S) /\ PortoTracks(S)
         /\ \A k : SdkTracks(k, S)
         /\ MetaAccount(S) /\ \A m : MetaTracks(m, S)
<1>1. \A s \in S : job[s].at = "idle" /\ job[s].was = None
  BY DEF Store!IdleJob, Store!Job
<1> QED BY <1>1 DEF BrowserAccount, BrowserTracks, RelayTracks, PortoTracks, SdkTracks,
                    MetaAccount, MetaTracks

\* The first state of a page.
LEMMA TrackInit == WalletInit \/ PasskeyInit \/ KeyInit => TrackInv
<1>1. ASSUME NEW b \in DOMAIN Browsers, Browser(b)!Init
      PROVE  BrowserAccount(Browsers[b].slots) /\ BrowserTracks(Browsers[b].slots)
  <2>1. /\ link = None /\ temps = {}
        /\ job = [s \in Browsers[b].slots |-> Store(Browsers[b].slots, {})!IdleJob]
    BY <1>1 DEF Browser!Init, Browser!ConnectorInit, Browser!IdleJob, Browser!Job,
                Store!IdleJob, Store!Job
  <2> QED BY <2>1, FreshTracks
<1>2. ASSUME NEW r \in DOMAIN Relays, Relay(r)!Init
      PROVE  RelayTracks(Relays[r].slots)
  <2>1. /\ link = None /\ temps = {}
        /\ job = [s \in Relays[r].slots |-> Store(Relays[r].slots, {})!IdleJob]
    BY <1>2 DEF Relay!Init, Relay!ConnectorInit, Relay!IdleJob, Relay!Job,
                Store!IdleJob, Store!Job
  <2> QED BY <2>1, FreshTracks
<1>3. ASSUME NEW p \in DOMAIN Portos, PortoOf(p)!Init
      PROVE  PortoTracks(Portos[p].slots)
  <2>1. /\ link = None /\ temps = {}
        /\ job = [s \in Portos[p].slots |-> Store(Portos[p].slots, {})!IdleJob]
    BY <1>3 DEF PortoOf!Init, PortoOf!ConnectorInit, PortoOf!IdleJob, PortoOf!Job,
                Store!IdleJob, Store!Job
  <2> QED BY <2>1, FreshTracks
<1>4. ASSUME NEW k \in DOMAIN Sdks, Sdk(k)!Init
      PROVE  SdkTracks(k, Sdks[k].slots)
  <2>1. /\ link = None /\ temps = {}
        /\ job = [s \in Sdks[k].slots |-> Store(Sdks[k].slots, {})!IdleJob]
    BY <1>4 DEF Sdk!Init, Sdk!ConnectorInit, Sdk!IdleJob, Sdk!Job, Store!IdleJob, Store!Job
  <2> QED BY <2>1, FreshTracks
<1>5. ASSUME NEW m \in DOMAIN Metas, Meta(m)!Init
      PROVE  MetaAccount(Metas[m].slots) /\ MetaTracks(m, Metas[m].slots)
  <2>1. /\ link = None /\ temps = {}
        /\ job = [s \in Metas[m].slots |-> Store(Metas[m].slots, {})!IdleJob]
    BY <1>5 DEF Meta!Init, Meta!ConnectorInit, Meta!IdleJob, Meta!Job, Store!IdleJob, Store!Job
  <2> QED BY <2>1, FreshTracks
<1>6. ASSUME NEW i \in 1..7, scene \in Kinds[i]
      PROVE  \A j \in 1..7 : j # i => scene \notin Kinds[j]
  BY <1>6, OneKind
<1>7. CASE WalletInit
  <2>1. ASSUME scene \in DOMAIN Browsers, \A b \in DOMAIN Browsers : scene = b => Browser(b)!Init
        PROVE  TrackInv
    <3>1. /\ scene \notin DOMAIN Relays /\ scene \notin DOMAIN Portos
          /\ scene \notin DOMAIN Sdks /\ scene \notin DOMAIN Metas
      BY <1>6, <2>1, KindsByNumber
    <3> QED BY <1>1, <1>7, <2>1, <3>1, SceneInit, CalmSettings DEF TrackInv
  <2>2. ASSUME scene \in DOMAIN Relays, \A r \in DOMAIN Relays : scene = r => Relay(r)!Init
        PROVE  TrackInv
    <3>1. /\ scene \notin DOMAIN Browsers /\ scene \notin DOMAIN Portos
          /\ scene \notin DOMAIN Sdks /\ scene \notin DOMAIN Metas
      BY <1>6, <2>2, KindsByNumber
    <3> QED BY <1>2, <1>7, <2>2, <3>1, SceneInit, CalmSettings DEF TrackInv
  <2>3. ASSUME scene \in DOMAIN Portos, \A p \in DOMAIN Portos : scene = p => PortoOf(p)!Init
        PROVE  TrackInv
    <3>1. /\ scene \notin DOMAIN Browsers /\ scene \notin DOMAIN Relays
          /\ scene \notin DOMAIN Sdks /\ scene \notin DOMAIN Metas
      BY <1>6, <2>3, KindsByNumber
    <3> QED BY <1>3, <1>7, <2>3, <3>1, SceneInit, CalmSettings DEF TrackInv
  <2>4. ASSUME scene \in DOMAIN Sdks, \A k \in DOMAIN Sdks : scene = k => Sdk(k)!Init
        PROVE  TrackInv
    <3>1. /\ scene \notin DOMAIN Browsers /\ scene \notin DOMAIN Relays
          /\ scene \notin DOMAIN Portos /\ scene \notin DOMAIN Metas
      BY <1>6, <2>4, KindsByNumber
    <3> QED BY <1>4, <1>7, <2>4, <3>1, SceneInit, CalmSettings DEF TrackInv
  <2>5. ASSUME scene \in DOMAIN Metas, \A m \in DOMAIN Metas : scene = m => Meta(m)!Init
        PROVE  TrackInv
    <3>1. /\ scene \notin DOMAIN Browsers /\ scene \notin DOMAIN Relays
          /\ scene \notin DOMAIN Portos /\ scene \notin DOMAIN Sdks
      BY <1>6, <2>5, KindsByNumber
    <3> QED BY <1>5, <1>7, <2>5, <3>1, SceneInit, CalmSettings DEF TrackInv
  <2> QED BY <1>7, <2>1, <2>2, <2>3, <2>4, <2>5 DEF WalletInit
<1>8. CASE PasskeyInit \/ KeyInit
  <2>1. scene \in Kinds[6] \/ scene \in Kinds[7]
    BY <1>8, KindsByNumber DEF PasskeyInit, KeyInit
  <2>2. /\ scene \notin DOMAIN Browsers /\ scene \notin DOMAIN Relays
        /\ scene \notin DOMAIN Portos /\ scene \notin DOMAIN Sdks /\ scene \notin DOMAIN Metas
    BY <1>6, <2>1, KindsByNumber
  <2> QED BY <1>8, <2>2, SceneInit, CalmSettings DEF TrackInv
<1> QED BY <1>7, <1>8

\* A step of a connector, and its place among the others.
LEMMA TrackNext ==
  ASSUME TrackInv, [ConnectorsNext]_allVars
  PROVE  TrackInv'
<1>s. SceneInv /\ SceneInv'
  BY SceneNext DEF TrackInv
<1>k. ASSUME NEW i \in 1..7, scene \in Kinds[i]
      PROVE  \A j \in 1..7 : j # i => scene \notin Kinds[j]
  BY <1>k, OneKind
<1>1. ASSUME NEW b \in DOMAIN Browsers, BrowserStep(b)
      PROVE  TrackInv'
  <2>1. scene = b /\ scene' = b /\ Browser(b)!Next
    BY <1>1 DEF BrowserStep, BrowserRest, NoKeys
  <2>2. /\ b \notin DOMAIN Relays /\ b \notin DOMAIN Portos
        /\ b \notin DOMAIN Sdks /\ b \notin DOMAIN Metas
    BY <1>k, <2>1, KindsByNumber
  <2>3. InBrowser(b, Browsers[b].slots, Browsers[b].chains)
    BY <1>s, <2>1, SettingsAreRight DEF SceneInv, InBrowser
  <2>4. b \in Calm(Browsers) => BrowserAccount(Browsers[b].slots)'
    BY <2>1, <2>3, BrowserAccountNext, CalmSettings DEF TrackInv
  <2>5. b \in Calm(Browsers) /\ ~ Browsers[b].rejects => BrowserTracks(Browsers[b].slots)'
    BY <2>1, <2>3, BrowserTracksNext, CalmSettings DEF TrackInv
  <2> QED BY <1>s, <2>1, <2>2, <2>4, <2>5, CalmSettings DEF TrackInv
<1>2. ASSUME NEW r \in DOMAIN Relays, RelayStep(r)
      PROVE  TrackInv'
  <2>1. scene = r /\ scene' = r /\ Relay(r)!Next
    BY <1>2 DEF RelayStep, RelayRest, NoKeys
  <2>2. /\ r \notin DOMAIN Browsers /\ r \notin DOMAIN Portos
        /\ r \notin DOMAIN Sdks /\ r \notin DOMAIN Metas
    BY <1>k, <2>1, KindsByNumber
  <2>3. InRelay(r, Relays[r].slots, Relays[r].chains)
    BY <1>s, <2>1, SettingsAreRight DEF SceneInv, InRelay
  <2>4. r \in CalmRelays => RelayTracks(Relays[r].slots)'
    BY <2>1, <2>3, RelayTracksNext, CalmSettings DEF TrackInv
  <2> QED BY <1>s, <2>1, <2>2, <2>4, CalmSettings DEF TrackInv
<1>3. ASSUME NEW p \in DOMAIN Portos, PortoStep(p)
      PROVE  TrackInv'
  <2>1. scene = p /\ scene' = p /\ PortoOf(p)!Next
    BY <1>3 DEF PortoStep, SdkRest, NoKeys
  <2>2. /\ p \notin DOMAIN Browsers /\ p \notin DOMAIN Relays
        /\ p \notin DOMAIN Sdks /\ p \notin DOMAIN Metas
    BY <1>k, <2>1, KindsByNumber
  <2>3. InPortoOf(p, Portos[p].slots, Portos[p].chains)
    BY <1>s, <2>1, SettingsAreRight DEF SceneInv, InPortoOf
  <2>4. p \in Calm(Portos) /\ ~ Portos[p].breaks => PortoTracks(Portos[p].slots)'
    BY <2>1, <2>3, PortoTracksNext, CalmSettings DEF TrackInv
  <2> QED BY <1>s, <2>1, <2>2, <2>4, CalmSettings DEF TrackInv
<1>4. ASSUME NEW k \in DOMAIN Sdks, SdkStep(k)
      PROVE  TrackInv'
  <2>1. scene = k /\ scene' = k /\ Sdk(k)!Next
    BY <1>4 DEF SdkStep, SdkRest, NoKeys
  <2>2. /\ k \notin DOMAIN Browsers /\ k \notin DOMAIN Relays
        /\ k \notin DOMAIN Portos /\ k \notin DOMAIN Metas
    BY <1>k, <2>1, KindsByNumber
  <2>3. InSdk(k, Sdks[k].slots, Sdks[k].chains)
    BY <1>s, <2>1, SettingsAreRight DEF SceneInv, InSdk
  <2>4. k \in Calm(Sdks) /\ ~ Sdks[k].adds => SdkTracks(k, Sdks[k].slots)'
    BY <2>1, <2>3, SdkTracksNext, CalmSettings DEF TrackInv
  <2> QED BY <1>s, <2>1, <2>2, <2>4, CalmSettings DEF TrackInv
<1>5. ASSUME NEW m \in DOMAIN Metas, MetaStep(m)
      PROVE  TrackInv'
  <2>1. scene = m /\ scene' = m /\ Meta(m)!Next
    BY <1>5 DEF MetaStep, SdkRest, NoKeys
  <2>2. /\ m \notin DOMAIN Browsers /\ m \notin DOMAIN Relays
        /\ m \notin DOMAIN Portos /\ m \notin DOMAIN Sdks
    BY <1>k, <2>1, KindsByNumber
  <2>3. InMeta(m, Metas[m].slots, Metas[m].chains)
    BY <1>s, <2>1, SettingsAreRight DEF SceneInv, InMeta
  <2>4. MetaAccount(Metas[m].slots)'
    BY <2>1, <2>3, MetaAccountNext DEF TrackInv
  <2>5. m \in Calm(Metas) /\ ~ Metas[m].breaks => MetaTracks(m, Metas[m].slots)'
    BY <2>1, <2>3, MetaTracksNext, CalmSettings DEF TrackInv
  <2> QED BY <1>s, <2>1, <2>2, <2>4, <2>5, CalmSettings DEF TrackInv
<1>6. ASSUME scene' = scene, storeVars' = storeVars, walletVars' = walletVars, session' = session
      PROVE  TrackInv'
  BY <1>s, <1>6 DEF TrackInv, storeVars, walletVars, BrowserAccount, BrowserTracks, RelayTracks,
                    PortoTracks, SdkTracks, MetaAccount, MetaTracks
<1>7. ASSUME NEW k, PasskeyStep(k) \/ KeyStep
      PROVE  TrackInv'
  BY <1>6, <1>7 DEF PasskeyStep, KeyStep, NoWallet, sessionVars
<1>8. CASE UNCHANGED allVars
  BY <1>6, <1>8 DEF allVars, sessionVars
<1> QED BY <1>1, <1>2, <1>3, <1>4, <1>5, <1>7, <1>8 DEF ConnectorsNext

\* ... of every state.
LEMMA TrackScene == ConnectorsSpec => []TrackInv
<1>1. TrackInv /\ [ConnectorsNext]_allVars => TrackInv'
  BY TrackNext
<1> QED BY <1>1, TrackInit, PTL DEF ConnectorsSpec

\* The connection of the store is the one the wallet or the session has, once nothing
\* is in flight, whatever the chains, the version of the page and its other settings;
\* one of MetaMask has an account however many calls there are at a time.
THEOREM WalletIsTracked == ConnectorsSpec => []TracksWallet
<1>1. ASSUME TrackInv
      PROVE  TracksWallet
  <2>1. ASSUME NEW b \in Calm(Browsers), scene = b
        PROVE  /\ Browser(b)!ConnectionHasAccount
               /\ ~ Browsers[b].rejects => Browser(b)!TracksWallet
    BY <1>1, <2>1 DEF TrackInv, BrowserAccount, BrowserTracks, Browser!ConnectionHasAccount,
                      Browser!TracksWallet, Browser!Calm, Browser!InFlight
  <2>2. ASSUME NEW r \in CalmRelays, scene = r
        PROVE  Relay(r)!TracksSession
    BY <1>1, <2>2 DEF TrackInv, RelayTracks, Relay!TracksSession
  <2>3. ASSUME NEW p \in Calm(Portos), scene = p, ~ Portos[p].breaks
        PROVE  PortoOf(p)!TracksWallet
    BY <1>1, <2>3 DEF TrackInv, PortoTracks, PortoOf!TracksWallet
  <2>4. ASSUME NEW k \in Calm(Sdks), scene = k, ~ Sdks[k].adds
        PROVE  Sdk(k)!TracksWallet
    BY <1>1, <2>4 DEF TrackInv, SdkTracks, Sdk!TracksWallet
  <2>5. ASSUME NEW m \in DOMAIN Metas, scene = m
        PROVE  Meta(m)!ConnectionHasAccount
    BY <1>1, <2>5 DEF TrackInv, MetaAccount, Meta!ConnectionHasAccount
  <2>6. ASSUME NEW m \in Calm(Metas), scene = m, ~ Metas[m].breaks
        PROVE  Meta(m)!TracksWallet
    <3>1. m \in DOMAIN Metas
      BY CalmSettings
    <3>2. MetaAccount(Metas[m].slots) /\ MetaTracks(m, Metas[m].slots)
      BY <1>1, <2>6, <3>1 DEF TrackInv
    <3>3. granted \in BOOLEAN /\ (link # None => link.acc \in BOOLEAN)
      BY <1>1, <2>6, <3>1 DEF TrackInv, SceneInv, WalletInv, StoreInv, Conns
    <3> SUFFICES ASSUME \A s \in Metas[m].slots : job[s].at = "idle", link # None
                 PROVE  link.chain = chain /\ (Metas[m].extension => link.acc = granted)
      BY DEF Meta!TracksWallet, Meta!Calm, Meta!InFlight
    <3>4. link.chain = chain
      BY <3>2 DEF MetaTracks
    <3>5. Metas[m].extension => link.acc /\ granted
      BY <3>2 DEF MetaAccount, MetaTracks
    <3> QED BY <3>3, <3>4, <3>5, Zenon
  <2> QED BY <2>1, <2>2, <2>3, <2>4, <2>5, <2>6 DEF TracksWallet
<1> QED BY <1>1, TrackScene, PTL

\* A page connects over a session only if it asked for its chains: connect and
\* reconnect look at the session they find, and a new one is of what they ask for.
LEMMA RelayAsked ==
  ASSUME NEW r, NEW S, NEW Ch, InRelay(r, S, Ch), ~ Relays[r].asks, RelayTracks(S), Relay(r)!Next
  PROVE  Relay(r)!ChainsWereAsked
<1> SUFFICES ASSUME link = None, link' # None
             PROVE  configured \subseteq requested' \/ session' \cap configured = {}
  BY DEF Relay!ChainsWereAsked
<1>s. S = Relays[r].slots /\ Ch = Relays[r].chains
  BY DEF InRelay, OfRelay
<1>1. ASSUME NEW s \in S, Relay(r)!Begin(s)
      PROVE  configured \subseteq requested' \/ session' \cap configured = {}
  BY <1>1 DEF Relay!Begin, Relay!IsChainsStale, Relay!provider, Relay!store
<1>2. ASSUME NEW s \in S, Relay(r)!Pair(s)
      PROVE  configured \subseteq requested'
  BY <1>2 DEF Relay!Pair
<1>3. ASSUME NEW s \in S, Relay(r)!Reconnect(s)
      PROVE  configured \subseteq requested' \/ session' \cap configured = {}
  BY <1>3 DEF Relay!Reconnect, Relay!IsChainsStale, Relay!provider
<1>4. ASSUME NEW s \in S, Relay(r)!ConnectStore(s)
      PROVE  FALSE
  BY <1>4 DEF Relay!ConnectStore, RelayTracks
<1>5. ASSUME NEW ch, NEW jobs, Relay(r)!EmitChange(ch, jobs)
      PROVE  FALSE
  BY <1>5 DEF Relay!EmitChange
<1>6. ASSUME NEW s \in S, Relay(r)!Answer(s)
      PROVE  configured \subseteq requested' \/ session' \cap configured = {}
  <2>1. ~ (Relay(r)!EndStale(s) \/ Relay(r)!Decline(s) \/ Relay(r)!DisconnectDone(s)
           \/ Relay(r)!DisconnectFail(s) \/ Relay(r)!SwitchReject(s)
           \/ Relay(r)!SwitchUnknown(s) \/ Relay(r)!SwitchUnadded(s) \/ Relay(r)!Added(s))
    BY DEF Relay!EndStale, Relay!Decline, Relay!DisconnectDone, Relay!DisconnectFail,
           Relay!SwitchReject, Relay!SwitchUnknown, Relay!SwitchUnadded, Relay!Added, Relay!Removed, Relay!store
  <2>2. ~ Relay(r)!Switched(s)
    BY <1>5 DEF Relay!Switched, Relay!store
  <2> QED BY <1>1, <1>2, <1>3, <1>6, <2>1, <2>2 DEF Relay!Answer
<1>7. ASSUME NEW s \in S, Relay(r)!Call(s)
      PROVE  FALSE
  BY <1>7 DEF Relay!Call, Relay!Connect, Relay!Disconnect, Relay!SwitchChain, Relay!store
<1>8. ASSUME NEW ch, Relay(r)!WalletChain(ch)
      PROVE  FALSE
  BY <1>5, <1>8 DEF Relay!WalletChain, Relay!connector, Relay!store
<1>9. ASSUME NEW conf, Relay(r)!Load(conf) \/ Relay(r)!WalletEnds
      PROVE  FALSE
  BY <1>9 DEF Relay!Load, Relay!Opened, Relay!WalletEnds, Relay!OnDisconnect,
              Relay!EmitDisconnect, Relay!store
<1> QED BY <1>s, <1>4, <1>6, <1>7, <1>8, <1>9 DEF Relay!Next

\* ... in every step of a relay that ends sessions and is asked one thing at a time.
LEMMA ChainsAsked ==
  ASSUME TrackInv, [ConnectorsNext]_allVars, NEW r \in CalmRelays, scene = r
  PROVE  Relay(r)!ChainsWereAsked
<1>1. r \in DOMAIN Relays /\ ~ Relays[r].asks /\ RelayTracks(Relays[r].slots)
  BY CalmSettings DEF TrackInv
<1>2. CASE link' = link
  BY <1>2 DEF Relay!ChainsWereAsked
<1>3. CASE RelayStep(r)
  <2>1. InRelay(r, Relays[r].slots, Relays[r].chains)
    BY <1>1, SettingsAreRight DEF TrackInv, SceneInv, InRelay
  <2> QED BY <1>1, <1>3, <2>1, RelayAsked DEF RelayStep
<1>4. scene \in Kinds[2]
  BY <1>1, KindsByNumber
<1>5. \A j \in 1..7 : j # 2 => scene \notin Kinds[j]
  BY <1>4, OneKind
<1>6. /\ scene \notin DOMAIN Browsers /\ scene \notin DOMAIN Portos
      /\ scene \notin DOMAIN Sdks /\ scene \notin DOMAIN Metas
  BY <1>5, KindsByNumber
<1>7. CASE ConnectorsNext
  BY <1>2, <1>3, <1>6, <1>7
  DEF ConnectorsNext, BrowserStep, PortoStep, SdkStep, MetaStep, RelayStep, PasskeyStep, KeyStep,
      NoWallet, storeVars
<1>8. CASE UNCHANGED allVars
  BY <1>2, <1>8 DEF allVars, storeVars
<1> QED BY <1>7, <1>8
=============================================================================
