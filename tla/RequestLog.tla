----------------------------- MODULE RequestLog -----------------------------
(***************************************************************************)
(* What a wallet promises whoever looks at it between blockchain           *)
(* transactions, where no call is in progress and no revert is to come: it *)
(* is a log of requests.  Each blockchain transaction either changes       *)
(* nothing at all or adds requests to the log; in each of the spaces       *)
(* called lanes these are the next ones in the order of their nonces, with *)
(* none skipped, repeated or put beside another of the same nonce.  What   *)
(* was added has run as a whole: each start of a batch has executed the    *)
(* transactions the batch requires once, and the others at most once.      *)
(***************************************************************************)
EXTENDS Integers, Sequences, FiniteSets

CONSTANTS
  Lanes,       \* the nonce spaces whose requests run in the order of nonces
  Requests,    \* [nonce, batch] records
  Batches,
  Body,        \* Body[b]: the transactions of batch b
  SpaceOf(_),  \* the space and the nonce that a request's nonce
  NonceOf(_)   \* consists of

VARIABLES
  next,        \* next[lane]: the nonce of the lane's next request
  accepted,    \* accepted[r]: how often request r is in the log
  started,     \* started[b]: how often batch b was started
  executed,    \* executed[b][i]: how often its transaction i was executed
  gap,         \* the gap nonce of the session space
  control      \* all else that is stored: who may add to the log

vars == <<next, accepted, started, executed, gap, control>>

Init ==
  /\ next = [lane \in Lanes |-> 0]
  /\ accepted = [r \in Requests |-> 0]
  /\ started = [b \in Batches |-> 0]
  /\ executed = [b \in Batches |-> [i \in 1 .. Len(Body[b]) |-> 0]]
  /\ gap = 0

\* The requests that a step adds to the log.
Added == {r \in Requests : accepted[r] < accepted'[r]}

NothingIsRemoved == \A r \in Requests : accepted[r] <= accepted'[r]

\* What is added to a lane has the next nonces, each once.
InOrder(lane) ==
  LET added == {r \in Added : SpaceOf(r.nonce) = lane} IN
  /\ next[lane] <= next'[lane]
  /\ {NonceOf(r.nonce) : r \in added} = next[lane] .. next'[lane] - 1
  /\ \A r \in added : accepted'[r] = 1
  /\ \A q, r \in added : NonceOf(q.nonce) = NonceOf(r.nonce) => q = r

\* Batch b was started for each request added that asks for it; other starts
\* are those of bundles nested in these.
Starts(b) ==
  LET added == {r \in Added : r.batch = b} IN
  /\ Cardinality(added) <= started'[b] - started[b]
  /\ \A r \in added : accepted'[r] - accepted[r] <= started'[b] - started[b]

\* Each start of batch b has executed what it had to.
Runs(b) ==
  \A i \in 1 .. Len(Body[b]) :
    LET times == executed'[b][i] - executed[b][i] IN
    IF Body[b][i].required
    THEN times = started'[b] - started[b]
    ELSE times \in 0 .. started'[b] - started[b]

\* A blockchain transaction that the wallet takes part in.
Settle ==
  /\ Added # {}
  /\ NothingIsRemoved
  /\ \A lane \in Lanes : InOrder(lane)
  /\ \A b \in Batches : Starts(b) /\ Runs(b)
  /\ gap <= gap'

Spec == Init /\ [][Settle]_vars
=============================================================================
