------------------------------ MODULE Timelock ------------------------------
(***************************************************************************)
(* commons/Timelock.sol and the Ownable contract it extends.  The owner    *)
(* books a transaction for a time between minDelay and maxDelay ahead and  *)
(* may run it from then on for maxDelay.  Running a transaction calls      *)
(* foreign code, which may call the timelock again before it returns, and  *)
(* whose failure reverts everything since the call.                        *)
(*                                                                         *)
(* A definition marked "Mistake" is a variant of the one that follows it   *)
(* with a plausible bug, kept to show that the properties would notice.    *)
(***************************************************************************)
EXTENDS Integers, SequencesExt

CONSTANTS
  Txs,           \* transactions, named by their hash
  Call,          \* Call[tx]: what tx calls
  Accounts,      \* who may call the timelock
  NoOwner,       \* address(0)
  Self,          \* the timelock's own address, as a caller
  MinDelay0, MaxDelay0,  \* the delays at deployment
  MaxWord,       \* 2^256 - 1
  NoBooking,     \* a transaction that is not booked
  MaxTime,       \* bound: block times explored
  MaxDepth,      \* bound: nested executions
  MaxBookings    \* bound: times a transaction is scheduled

Delay == 0 .. MaxWord

Calls ==
  [op : {"external"}] \cup [op : {"setDelays"}, min : Delay, max : Delay]

ASSUME TimelockAssumption ==
  /\ MaxWord \in Nat /\ MaxTime \in Nat /\ MaxTime <= MaxWord
  /\ MaxDepth \in Nat /\ MaxBookings \in Nat
  /\ MinDelay0 \in Delay /\ MaxDelay0 \in Delay
  /\ Call \in [Txs -> Calls]
  /\ NoOwner \notin Accounts
  /\ Self \notin Accounts  \* ownership is never given to the timelock itself
  /\ NoBooking \notin [at : Nat, notice : Delay]

VARIABLES
  commits,    \* commits[tx]: when tx may run; 0 when it is not scheduled
  minDelay, maxDelay,
  owner,
  ledger,     \* history, reverted with the storage
  stack,      \* executions in progress, innermost last
  now         \* block.timestamp

storage == <<commits, minDelay, maxDelay, owner>>
vars == <<storage, ledger, stack, now>>

(***************************************************************************)
(* The ledger keeps, of each transaction, the booking that would justify   *)
(* running it (when it was made and the notice then required), and how     *)
(* often it was scheduled and ran.                                         *)
(***************************************************************************)
Booking == [at : Nat, notice : Delay]

Ledger ==
  [ booking : [Txs -> Booking \cup {NoBooking}],
    booked  : [Txs -> Nat],
    runs    : [Txs -> Nat] ]

\* An execution in progress: the transaction, and what a revert restores.
Frame ==
  [ tx : Txs, commits : [Txs -> 0 .. MaxWord], minDelay : Delay,
    maxDelay : Delay, owner : Accounts \cup {NoOwner}, ledger : Ledger ]

Init ==
  /\ commits = [tx \in Txs |-> 0]
  /\ minDelay = MinDelay0
  /\ maxDelay = MaxDelay0
  /\ owner \in Accounts
  /\ ledger = [ booking |-> [tx \in Txs |-> NoBooking],
                booked  |-> [tx \in Txs |-> 0],
                runs    |-> [tx \in Txs |-> 0] ]
  /\ stack = <<>>
  /\ now \in 1 .. MaxTime

-----------------------------------------------------------------------------
Top == stack[Len(stack)]

\* Anyone can call the timelock between executions, or from the foreign
\* code that an execution has called.
Callable == stack # <<>> => Call[Top.tx].op = "external"

OnlyOwner(caller) == caller = owner /\ caller # NoOwner

Schedule(caller, tx, timestamp) ==
  /\ Callable
  /\ OnlyOwner(caller)
  /\ timestamp >= now
  /\ timestamp - now >= minDelay
  /\ timestamp - now <= maxDelay
  /\ ledger.booked[tx] < MaxBookings
  /\ commits' = [commits EXCEPT ![tx] = timestamp]
  /\ ledger' = [ledger EXCEPT !.booking[tx] = [at |-> now, notice |-> minDelay],
                              !.booked[tx] = @ + 1]
  /\ UNCHANGED <<minDelay, maxDelay, owner, stack, now>>

Cancel(caller, tx) ==
  /\ Callable
  /\ OnlyOwner(caller)
  /\ commits' = [commits EXCEPT ![tx] = 0]
  /\ ledger' = [ledger EXCEPT !.booking[tx] = NoBooking]
  /\ UNCHANGED <<minDelay, maxDelay, owner, stack, now>>

\* Mistake: only the end of the window is looked at.
InWindowFromNow(eta) == eta + maxDelay <= MaxWord /\ eta + maxDelay >= now

\* The sum is checked: it reverts when it does not fit in a word.
InWindow(eta) ==
  /\ eta <= now
  /\ eta + maxDelay <= MaxWord
  /\ eta + maxDelay >= now

\* Mistake: the commitment is not used up before the call.
ExecuteUncleared(caller, tx) ==
  /\ Callable
  /\ OnlyOwner(caller)
  /\ commits[tx] # 0
  /\ InWindow(commits[tx])
  /\ Len(stack) < MaxDepth
  /\ stack' = Append(stack,
       [ tx |-> tx, commits |-> commits, minDelay |-> minDelay,
         maxDelay |-> maxDelay, owner |-> owner, ledger |-> ledger ])
  /\ ledger' = [ledger EXCEPT !.runs[tx] = @ + 1]
  /\ UNCHANGED <<storage, now>>

\* execute, up to its call of the transaction's target.
Execute(caller, tx) ==
  /\ Callable
  /\ OnlyOwner(caller)
  /\ commits[tx] # 0
  /\ InWindow(commits[tx])
  /\ Len(stack) < MaxDepth
  /\ stack' = Append(stack,
       [ tx |-> tx, commits |-> commits, minDelay |-> minDelay,
         maxDelay |-> maxDelay, owner |-> owner, ledger |-> ledger ])
  /\ commits' = [commits EXCEPT ![tx] = 0]
  /\ ledger' = [ledger EXCEPT !.booking[tx] = NoBooking, !.runs[tx] = @ + 1]
  /\ UNCHANGED <<minDelay, maxDelay, owner, now>>

TransferOwnership(caller, newOwner) ==
  /\ Callable
  /\ OnlyOwner(caller)
  /\ newOwner # NoOwner
  /\ owner' = newOwner
  /\ UNCHANGED <<commits, minDelay, maxDelay, ledger, stack, now>>

RenounceOwnership(caller) ==
  /\ Callable
  /\ OnlyOwner(caller)
  /\ owner' = NoOwner
  /\ UNCHANGED <<commits, minDelay, maxDelay, ledger, stack, now>>

\* Mistake: setDelays refuses nobody.
IsSelfOrAnyone(caller) == TRUE

\* setDelays refuses every caller but the timelock.
IsSelf(caller) == caller = Self

SetDelays(caller, min, max) ==
  IF IsSelf(caller)
  THEN minDelay' = min /\ maxDelay' = max
  ELSE UNCHANGED <<minDelay, maxDelay>>

SetDelaysDirectly(caller, tx) ==
  /\ Callable
  /\ Call[tx].op = "setDelays"
  /\ SetDelays(caller, Call[tx].min, Call[tx].max)
  /\ UNCHANGED <<commits, owner, ledger, stack, now>>

\* The target of the transaction is the timelock itself.
CallSetDelays ==
  /\ stack # <<>>
  /\ Call[Top.tx].op = "setDelays"
  /\ SetDelays(Self, Call[Top.tx].min, Call[Top.tx].max)
  /\ stack' = Front(stack)
  /\ UNCHANGED <<commits, owner, ledger, now>>

\* The target returns.
CallReturns ==
  /\ stack # <<>>
  /\ Call[Top.tx].op = "external"
  /\ stack' = Front(stack)
  /\ UNCHANGED <<storage, ledger, now>>

\* The target fails: TransactionReverted.
CallFails ==
  /\ stack # <<>>
  /\ commits' = Top.commits
  /\ minDelay' = Top.minDelay
  /\ maxDelay' = Top.maxDelay
  /\ owner' = Top.owner
  /\ ledger' = Top.ledger
  /\ stack' = Front(stack)
  /\ UNCHANGED now

Tick ==
  /\ stack = <<>>
  /\ now < MaxTime
  /\ now' = now + 1
  /\ UNCHANGED <<storage, ledger, stack>>

Next ==
  \/ \E caller \in Accounts, tx \in Txs :
       \/ \E timestamp \in 0 .. MaxTime : Schedule(caller, tx, timestamp)
       \/ Cancel(caller, tx)
       \/ Execute(caller, tx)
       \/ SetDelaysDirectly(caller, tx)
  \/ \E caller \in Accounts :
       \/ \E newOwner \in Accounts : TransferOwnership(caller, newOwner)
       \/ RenounceOwnership(caller)
  \/ CallSetDelays
  \/ CallReturns
  \/ CallFails
  \/ Tick

Spec == Init /\ [][Next]_vars

-----------------------------------------------------------------------------
(* Properties. *)

\* Every variable keeps its type.
TypeOK ==
  /\ commits \in [Txs -> 0 .. MaxWord]
  /\ minDelay \in Delay /\ maxDelay \in Delay
  /\ owner \in Accounts \cup {NoOwner}
  /\ ledger \in Ledger
  /\ stack \in Seq(Frame)
  /\ now \in 0 .. MaxWord

\* A transaction runs only on a booking that was neither cancelled nor used
\* before, and no sooner than the notice that booking needed: whatever its
\* target does when called back into, and whatever changes the delays.
RunsAfterNotice ==
  [][ \A tx \in Txs :
        ledger'.runs[tx] > ledger.runs[tx] =>
          /\ ledger.booking[tx] # NoBooking
          /\ now >= ledger.booking[tx].at + ledger.booking[tx].notice ]_vars

\* The delays in force are those of deployment or those of a setDelays that
\* was booked and ran, and was not reverted.
DelaysWereBooked ==
  \/ minDelay = MinDelay0 /\ maxDelay = MaxDelay0
  \/ \E tx \in Txs :
       /\ ledger.runs[tx] > 0
       /\ Call[tx] = [op |-> "setDelays", min |-> minDelay, max |-> maxDelay]

\* Each time a transaction is scheduled lets it run at most once, nested
\* executions included; and a commitment that stands has not been used.
RunsOncePerBooking ==
  \A tx \in Txs :
    ledger.runs[tx] + (IF commits[tx] # 0 THEN 1 ELSE 0) <= ledger.booked[tx]

\* Once ownership has been renounced and no execution is in progress, the
\* timelock never changes again: nothing booked can run any more.
RenouncedForGood ==
  [][ owner = NoOwner /\ stack = <<>> => UNCHANGED storage ]_vars
=============================================================================
