--------------------------- MODULE TimelockProofs ---------------------------
(***************************************************************************)
(* Theorems about Timelock, for every choice of its constants.  As in      *)
(* WalletProofs, the invariant says of every state a failing call could    *)
(* bring back what it says of the present one.                             *)
(***************************************************************************)
EXTENDS Timelock, SequenceTheorems, TLAPS

\* A commitment stands on a booking, and leaves it the notice it needs.
NoticeOK(c, l) ==
  \A tx \in Txs : c[tx] # 0 =>
    /\ l.booking[tx] # NoBooking
    /\ c[tx] >= l.booking[tx].at + l.booking[tx].notice

\* A transaction has run less often than booked while it is committed.
CountOK(c, l) ==
  \A tx \in Txs :
    /\ l.runs[tx] <= l.booked[tx]
    /\ c[tx] # 0 => l.runs[tx] < l.booked[tx]

\* The delays are those of deployment or of a change that ran.
DelaysOK(min, max, l) ==
  \/ min = MinDelay0 /\ max = MaxDelay0
  \/ \E tx \in Txs :
       l.runs[tx] > 0 /\ Call[tx] = [op |-> "setDelays", min |-> min, max |-> max]

WorldOK(c, min, max, o, l) ==
  /\ c \in [Txs -> 0 .. MaxWord]
  /\ min \in Delay /\ max \in Delay
  /\ o \in Accounts \cup {NoOwner}
  /\ l \in Ledger
  /\ NoticeOK(c, l)
  /\ CountOK(c, l)
  /\ DelaysOK(min, max, l)

FrameOK(f) == WorldOK(f.commits, f.minDelay, f.maxDelay, f.owner, f.ledger)

\* Ledger l counts every run that ledger k counts.
RunsBehind(k, l) == \A tx \in Txs : k.runs[tx] <= l.runs[tx]

\* Each execution in progress has been counted, by the calls made in it too,
\* and no call forgets a run that its caller knew of.
StackOK(st, l) ==
  /\ st \in Seq(Frame)
  /\ \A i \in 1 .. Len(st) :
       /\ FrameOK(st[i])
       /\ l.runs[st[i].tx] > 0
       /\ RunsBehind(st[i].ledger, l)
       /\ \A j \in i + 1 .. Len(st) :
            st[j].ledger.runs[st[i].tx] > 0 /\ RunsBehind(st[i].ledger, st[j].ledger)

Inv ==
  /\ WorldOK(commits, minDelay, maxDelay, owner, ledger)
  /\ StackOK(stack, ledger)
  /\ now \in 0 .. MaxWord

-----------------------------------------------------------------------------
\* What is left of a sequence without its last element.
LEMMA FrontFacts ==
  ASSUME NEW S, NEW q \in Seq(S), q # <<>>
  PROVE  /\ Front(q) \in Seq(S) /\ Len(Front(q)) = Len(q) - 1
         /\ \A i \in 1 .. Len(q) - 1 : Front(q)[i] = q[i]
BY SMT DEF Front

\* Counting every run of another ledger is transitive.
LEMMA RunsTransitive ==
  ASSUME NEW k \in Ledger, NEW l \in Ledger, NEW m \in Ledger,
         RunsBehind(k, l), RunsBehind(l, m)
  PROVE  RunsBehind(k, m)
BY DEF RunsBehind, Ledger

\* The execution running is a frame, and has been counted.
LEMMA TopFacts ==
  ASSUME Inv, stack # <<>>
  PROVE  /\ stack \in Seq(Frame) /\ Len(stack) \in Nat \ {0}
         /\ Top \in Frame /\ FrameOK(Top) /\ ledger.runs[Top.tx] > 0
         /\ RunsBehind(Top.ledger, ledger)
<1>1. stack \in Seq(Frame) /\ Len(stack) \in Nat \ {0}
  BY EmptySeq DEF Inv, StackOK
<1>2. Top \in Frame
  BY <1>1, ElementOfSeq DEF Top
<1> QED BY <1>1, <1>2 DEF Inv, StackOK, Top

\* The innermost call ends; its effects stay, or its caller's state returns.
LEMMA StackPop ==
  ASSUME Inv, stack # <<>>
  PROVE  StackOK(Front(stack), ledger) /\ StackOK(Front(stack), Top.ledger)
<1> DEFINE new == Front(stack)
<1>1. stack \in Seq(Frame) /\ Len(stack) \in Nat \ {0}
  BY TopFacts
<1>2. /\ new \in Seq(Frame) /\ Len(new) = Len(stack) - 1
      /\ \A i \in 1 .. Len(stack) - 1 : new[i] = stack[i]
  BY <1>1, FrontFacts
<1> HIDE DEF new
<1>3. \A i \in 1 .. Len(stack) :
        /\ FrameOK(stack[i])
        /\ ledger.runs[stack[i].tx] > 0
        /\ RunsBehind(stack[i].ledger, ledger)
        /\ \A j \in i + 1 .. Len(stack) :
             /\ stack[j].ledger.runs[stack[i].tx] > 0
             /\ RunsBehind(stack[i].ledger, stack[j].ledger)
  BY DEF Inv, StackOK
<1>4. StackOK(new, ledger)
  BY <1>1, <1>2, <1>3, SMTT(60) DEF StackOK
<1>5. StackOK(new, Top.ledger)
  BY <1>1, <1>2, <1>3, SMTT(30) DEF StackOK, Top
<1> QED BY <1>4, <1>5 DEF new

\* A timelock just deployed has nothing booked and nothing run.
LEMMA InitInv == Init => Inv
<1> SUFFICES ASSUME Init PROVE Inv
  OBVIOUS
<1>1. ledger \in Ledger /\ \A tx \in Txs : ledger.runs[tx] = 0 /\ ledger.booked[tx] = 0
  BY DEF Init, Ledger
<1>2. StackOK(<<>>, ledger)
  BY EmptySeq DEF StackOK
<1> QED BY <1>1, <1>2, TimelockAssumption
    DEF Init, Inv, WorldOK, NoticeOK, CountOK, DelaysOK

\* A new commitment carries its own booking, and raises the count of bookings.
LEMMA ScheduleInv ==
  ASSUME NEW caller, NEW tx \in Txs, NEW timestamp \in 0 .. MaxTime,
         Inv, Schedule(caller, tx, timestamp)
  PROVE  Inv'
<1> DEFINE b == [at |-> now, notice |-> minDelay]
<1>1. /\ commits \in [Txs -> 0 .. MaxWord] /\ ledger \in Ledger /\ minDelay \in Delay
      /\ now \in 0 .. MaxWord /\ MaxWord \in Nat /\ MaxTime <= MaxWord /\ MaxTime \in Nat
  BY TimelockAssumption DEF Inv, WorldOK
<1>2. b \in Booking /\ b # NoBooking /\ b.at = now /\ b.notice = minDelay
  BY <1>1, TimelockAssumption DEF Booking
<1> HIDE DEF b
<1>3. /\ [ledger.booking EXCEPT ![tx] = b] \in [Txs -> Booking \cup {NoBooking}]
      /\ [ledger.booked EXCEPT ![tx] = @ + 1] \in [Txs -> Nat]
  BY <1>1, <1>2 DEF Ledger
<1>4. ledger' = [ledger EXCEPT !.booking = [ledger.booking EXCEPT ![tx] = b],
                               !.booked = [ledger.booked EXCEPT ![tx] = @ + 1]]
  BY <1>1 DEF Schedule, Ledger, b
<1>5. /\ ledger' \in Ledger
      /\ ledger'.booking = [ledger.booking EXCEPT ![tx] = b]
      /\ ledger'.booked = [ledger.booked EXCEPT ![tx] = @ + 1]
      /\ ledger'.runs = ledger.runs
  BY <1>1, <1>3, <1>4 DEF Ledger
<1>6. commits' = [commits EXCEPT ![tx] = timestamp] /\ commits' \in [Txs -> 0 .. MaxWord]
  BY <1>1 DEF Schedule
<1>7. timestamp >= now + minDelay
  BY <1>1 DEF Schedule, Delay
<1>8. NoticeOK(commits', ledger')
  BY <1>1, <1>2, <1>5, <1>6, <1>7 DEF NoticeOK, Inv, WorldOK, Ledger
<1>9. CountOK(commits', ledger')
  BY <1>1, <1>5, <1>6 DEF CountOK, Inv, WorldOK, Ledger
<1>10. DelaysOK(minDelay', maxDelay', ledger') /\ StackOK(stack', ledger')
  BY <1>5 DEF DelaysOK, StackOK, RunsBehind, Inv, WorldOK, Schedule
<1> QED BY <1>5, <1>6, <1>8, <1>9, <1>10 DEF Inv, WorldOK, Schedule

\* Cancelling takes the commitment away with its booking.
LEMMA CancelInv ==
  ASSUME NEW caller, NEW tx \in Txs, Inv, Cancel(caller, tx)
  PROVE  Inv'
<1>1. /\ commits \in [Txs -> 0 .. MaxWord] /\ ledger \in Ledger /\ MaxWord \in Nat
  BY TimelockAssumption DEF Inv, WorldOK
<1>2. /\ ledger' \in Ledger
      /\ ledger'.booking = [ledger.booking EXCEPT ![tx] = NoBooking]
      /\ ledger'.booked = ledger.booked /\ ledger'.runs = ledger.runs
  <2>1. [ledger.booking EXCEPT ![tx] = NoBooking] \in [Txs -> Booking \cup {NoBooking}]
    BY <1>1 DEF Ledger
  <2>2. ledger' = [ledger EXCEPT !.booking = [ledger.booking EXCEPT ![tx] = NoBooking]]
    BY <1>1 DEF Cancel, Ledger
  <2> QED BY <1>1, <2>1, <2>2 DEF Ledger
<1>3. commits' = [commits EXCEPT ![tx] = 0] /\ commits' \in [Txs -> 0 .. MaxWord]
  BY <1>1 DEF Cancel
<1>4. NoticeOK(commits', ledger')
  BY <1>1, <1>2, <1>3 DEF NoticeOK, Inv, WorldOK, Ledger
<1>5. CountOK(commits', ledger')
  BY <1>1, <1>2, <1>3 DEF CountOK, Inv, WorldOK, Ledger
<1>6. DelaysOK(minDelay', maxDelay', ledger') /\ StackOK(stack', ledger')
  BY <1>2 DEF DelaysOK, StackOK, RunsBehind, Inv, WorldOK, Cancel
<1> QED BY <1>2, <1>3, <1>4, <1>5, <1>6 DEF Inv, WorldOK, Cancel

\* Executing uses the commitment up before the call, and saves a good state.
LEMMA ExecuteInv ==
  ASSUME NEW caller, NEW tx \in Txs, Inv, Execute(caller, tx)
  PROVE  Inv'
<1> DEFINE f == [ tx |-> tx, commits |-> commits, minDelay |-> minDelay,
                  maxDelay |-> maxDelay, owner |-> owner, ledger |-> ledger ]
<1>1. /\ commits \in [Txs -> 0 .. MaxWord] /\ ledger \in Ledger /\ MaxWord \in Nat
      /\ minDelay \in Delay /\ maxDelay \in Delay /\ owner \in Accounts \cup {NoOwner}
  BY TimelockAssumption DEF Inv, WorldOK
<1>2. /\ f \in Frame /\ FrameOK(f) /\ f.tx = tx /\ f.ledger = ledger
  BY <1>1 DEF Frame, FrameOK, Inv
<1> HIDE DEF f
<1>3. stack' = Append(stack, f)
  BY DEF Execute, f
<1>4. /\ ledger' \in Ledger
      /\ ledger'.booking = [ledger.booking EXCEPT ![tx] = NoBooking]
      /\ ledger'.booked = ledger.booked
      /\ ledger'.runs = [ledger.runs EXCEPT ![tx] = @ + 1]
  <2>1. /\ [ledger.booking EXCEPT ![tx] = NoBooking] \in [Txs -> Booking \cup {NoBooking}]
        /\ [ledger.runs EXCEPT ![tx] = @ + 1] \in [Txs -> Nat]
    BY <1>1 DEF Ledger
  <2>2. ledger' = [ledger EXCEPT !.booking = [ledger.booking EXCEPT ![tx] = NoBooking],
                                 !.runs = [ledger.runs EXCEPT ![tx] = @ + 1]]
    BY <1>1 DEF Execute, Ledger
  <2> QED BY <1>1, <2>1, <2>2 DEF Ledger
<1>5. commits' = [commits EXCEPT ![tx] = 0] /\ commits' \in [Txs -> 0 .. MaxWord]
  BY <1>1 DEF Execute
<1>6. NoticeOK(commits', ledger')
  BY <1>1, <1>4, <1>5 DEF NoticeOK, Inv, WorldOK, Ledger
<1>7. CountOK(commits', ledger')
  BY <1>1, <1>4, <1>5, SMTT(30) DEF CountOK, Inv, WorldOK, Ledger, Execute
<1>8. \A t \in Txs : /\ ledger.runs[t] > 0 => ledger'.runs[t] > 0
                     /\ t = tx => ledger'.runs[t] > 0
  BY <1>1, <1>4 DEF Ledger
<1>9. RunsBehind(ledger, ledger')
  BY <1>1, <1>4 DEF Ledger, RunsBehind
<1>10. DelaysOK(minDelay', maxDelay', ledger')
  BY <1>8 DEF DelaysOK, Inv, WorldOK, Execute
<1>11. StackOK(stack', ledger')
  <2>1. stack \in Seq(Frame) /\ Len(stack) \in Nat
    BY LenProperties DEF Inv, StackOK
  <2>2. /\ stack' \in Seq(Frame) /\ Len(stack') = Len(stack) + 1
        /\ stack'[Len(stack) + 1] = f
        /\ \A i \in 1 .. Len(stack) : stack'[i] = stack[i]
    BY <1>2, <1>3, <2>1, AppendProperties
  <2>3. \A i \in 1 .. Len(stack) : stack[i].tx \in Txs
    <3>1. \A i \in 1 .. Len(stack) : stack[i] \in Frame
      BY <2>1, ElementOfSeq
    <3>2. \A frame \in Frame : frame.tx \in Txs
      BY DEF Frame
    <3> QED BY <3>1, <3>2
  <2>4. \A i \in 1 .. Len(stack) :
          /\ FrameOK(stack[i])
          /\ ledger.runs[stack[i].tx] > 0
          /\ RunsBehind(stack[i].ledger, ledger)
          /\ \A j \in i + 1 .. Len(stack) :
               /\ stack[j].ledger.runs[stack[i].tx] > 0
               /\ RunsBehind(stack[i].ledger, stack[j].ledger)
    BY DEF Inv, StackOK
  <2>5. \A i \in 1 .. Len(stack') : FrameOK(stack'[i]) /\ ledger'.runs[stack'[i].tx] > 0
    BY <1>2, <1>8, <2>1, <2>2, <2>3, <2>4
  <2>6. \A i \in 1 .. Len(stack') : RunsBehind(stack'[i].ledger, ledger')
    <3> SUFFICES ASSUME NEW i \in 1 .. Len(stack')
                 PROVE  RunsBehind(stack'[i].ledger, ledger')
      OBVIOUS
    <3>1. CASE i = Len(stack) + 1
      BY <1>2, <1>9, <2>2, <3>1
    <3>2. CASE i # Len(stack) + 1
      <4>1. i \in 1 .. Len(stack) /\ stack'[i] = stack[i]
        BY <2>1, <2>2, <3>2
      <4>2. RunsBehind(stack[i].ledger, ledger) /\ stack[i].ledger \in Ledger
        BY <2>1, <2>4, <4>1 DEF FrameOK, WorldOK
      <4> QED BY <1>1, <1>4, <1>9, <4>1, <4>2, RunsTransitive
    <3> QED BY <3>1, <3>2
  <2>7. \A i \in 1 .. Len(stack') : \A j \in i + 1 .. Len(stack') :
          /\ stack'[j].ledger.runs[stack'[i].tx] > 0
          /\ RunsBehind(stack'[i].ledger, stack'[j].ledger)
    <3> SUFFICES ASSUME NEW i \in 1 .. Len(stack'), NEW j \in i + 1 .. Len(stack')
                 PROVE  /\ stack'[j].ledger.runs[stack'[i].tx] > 0
                        /\ RunsBehind(stack'[i].ledger, stack'[j].ledger)
      OBVIOUS
    <3>1. i \in 1 .. Len(stack) /\ stack'[i] = stack[i]
      BY <2>1, <2>2
    <3>2. CASE j = Len(stack) + 1
      BY <1>2, <2>2, <2>4, <3>1, <3>2
    <3>3. CASE j # Len(stack) + 1
      <4>1. j \in i + 1 .. Len(stack) /\ stack'[j] = stack[j]
        BY <2>1, <2>2, <3>1, <3>3
      <4> QED BY <2>4, <3>1, <4>1
    <3> QED BY <3>2, <3>3
  <2> QED BY <2>2, <2>5, <2>7, <2>6 DEF StackOK
<1> QED BY <1>4, <1>5, <1>6, <1>7, <1>10, <1>11 DEF Inv, WorldOK, Execute

\* setDelays runs on behalf of an execution already counted.
LEMMA CallSetDelaysInv == Inv /\ CallSetDelays => Inv'
<1> SUFFICES ASSUME Inv, CallSetDelays PROVE Inv'
  OBVIOUS
<1> DEFINE tx == Top.tx
<1>1. tx \in Txs /\ ledger.runs[tx] > 0 /\ StackOK(Front(stack), ledger)
  BY TopFacts, StackPop DEF CallSetDelays, Frame
<1>2. Call[tx].min \in Delay /\ Call[tx].max \in Delay
  BY <1>1, TimelockAssumption DEF CallSetDelays, Calls
<1>3. Call[tx] = [op |-> "setDelays", min |-> Call[tx].min, max |-> Call[tx].max]
  BY <1>1, TimelockAssumption DEF CallSetDelays, Calls
<1>4. minDelay' = Call[tx].min /\ maxDelay' = Call[tx].max
  BY DEF CallSetDelays, SetDelays, IsSelf
<1>5. DelaysOK(minDelay', maxDelay', ledger)
  BY <1>1, <1>3, <1>4 DEF DelaysOK
<1> QED BY <1>1, <1>2, <1>4, <1>5 DEF Inv, WorldOK, CallSetDelays

\* An execution that succeeds keeps what its calls did.
LEMMA CallReturnsInv == Inv /\ CallReturns => Inv'
BY StackPop DEF CallReturns, storage, Inv

\* An execution that fails brings back a state that was good.
LEMMA CallFailsInv == Inv /\ CallFails => Inv'
BY StackPop, TopFacts DEF CallFails, Inv, FrameOK

\* Only Self passes the test of setDelays, and it is nobody's account.
LEMMA SetDelaysDirectlyInv ==
  ASSUME NEW caller \in Accounts, NEW tx, Inv, SetDelaysDirectly(caller, tx)
  PROVE  Inv'
BY TimelockAssumption DEF SetDelaysDirectly, SetDelays, IsSelf, Inv

\* Every step of the timelock keeps Inv.
LEMMA NextInv == Inv /\ [Next]_vars => Inv'
<1> SUFFICES ASSUME Inv, [Next]_vars PROVE Inv'
  OBVIOUS
<1>1. ASSUME NEW caller \in Accounts, NEW tx \in Txs, NEW timestamp \in 0 .. MaxTime,
             Schedule(caller, tx, timestamp)
      PROVE  Inv'
  BY <1>1, ScheduleInv
<1>2. ASSUME NEW caller \in Accounts, NEW tx \in Txs, Cancel(caller, tx) PROVE Inv'
  BY <1>2, CancelInv
<1>3. ASSUME NEW caller \in Accounts, NEW tx \in Txs, Execute(caller, tx) PROVE Inv'
  BY <1>3, ExecuteInv
<1>4. ASSUME NEW caller \in Accounts, NEW tx \in Txs, SetDelaysDirectly(caller, tx)
      PROVE  Inv'
  BY <1>4, SetDelaysDirectlyInv
<1>5. ASSUME NEW caller, NEW newOwner \in Accounts, TransferOwnership(caller, newOwner)
      PROVE  Inv'
  BY <1>5 DEF TransferOwnership, Inv, WorldOK
<1>6. ASSUME NEW caller, RenounceOwnership(caller) PROVE Inv'
  BY <1>6 DEF RenounceOwnership, Inv, WorldOK
<1>7. CASE CallSetDelays
  BY <1>7, CallSetDelaysInv
<1>8. CASE CallReturns
  BY <1>8, CallReturnsInv
<1>9. CASE CallFails
  BY <1>9, CallFailsInv
<1>10. CASE Tick
  BY <1>10, TimelockAssumption DEF Tick, storage, Inv
<1>11. CASE UNCHANGED vars
  BY <1>11 DEF vars, storage, Inv
<1> QED BY <1>1, <1>2, <1>3, <1>4, <1>5, <1>6, <1>7, <1>8, <1>9, <1>10, <1>11 DEF Next

\* Inv holds of every state the timelock reaches.
THEOREM Invariance == Spec => []Inv
BY InitInv, NextInv, PTL DEF Spec

-----------------------------------------------------------------------------
\* The storage, the history and the executions in progress keep their types.
THEOREM TypeCorrect == Spec => []TypeOK
<1>1. Inv => TypeOK
  BY DEF Inv, WorldOK, StackOK, TypeOK
<1> QED BY <1>1, Invariance, PTL

\* The delays in force are those of deployment or of a setDelays that ran.
THEOREM DelaysAreBooked == Spec => []DelaysWereBooked
<1>1. Inv => DelaysWereBooked
  BY DEF Inv, WorldOK, DelaysOK, DelaysWereBooked
<1> QED BY <1>1, Invariance, PTL

\* A booking is good for one run, nested executions included.
THEOREM OneRunPerBooking == Spec => []RunsOncePerBooking
<1>1. Inv => RunsOncePerBooking
  BY DEF Inv, WorldOK, CountOK, Ledger, RunsOncePerBooking
<1> QED BY <1>1, Invariance, PTL

\* Nothing runs without the notice its own booking required: not after a
\* cancel, not from inside another execution, not because the delays changed.
THEOREM NoticeIsGiven == Spec => RunsAfterNotice
<1> DEFINE Gives(tx) ==
      ledger'.runs[tx] > ledger.runs[tx] =>
        /\ ledger.booking[tx] # NoBooking
        /\ now >= ledger.booking[tx].at + ledger.booking[tx].notice
<1>1. ASSUME Inv, [Next]_vars, NEW tx \in Txs PROVE Gives(tx)
  <2>1. ledger \in Ledger /\ ledger.runs[tx] \in Nat /\ ledger.booking[tx] \in Booking \cup {NoBooking}
    BY <1>1 DEF Inv, WorldOK, Ledger
  <2>2. CASE ledger'.runs = ledger.runs
    BY <2>1, <2>2
  <2>3. ASSUME NEW caller \in Accounts, NEW t \in Txs, Execute(caller, t) PROVE Gives(tx)
    <3>1. CASE t # tx
      BY <2>1, <2>3, <3>1 DEF Execute, Ledger
    <3>2. CASE t = tx
      <4>1. commits[tx] # 0 /\ commits[tx] <= now
        BY <2>3, <3>2 DEF Execute, InWindow
      <4>2. /\ ledger.booking[tx] # NoBooking
            /\ commits[tx] >= ledger.booking[tx].at + ledger.booking[tx].notice
        BY <1>1, <4>1 DEF Inv, WorldOK, NoticeOK
      <4>3. commits[tx] \in 0 .. MaxWord /\ now \in 0 .. MaxWord /\ MaxWord \in Nat
        BY <1>1, TimelockAssumption DEF Inv, WorldOK
      <4>4. ledger.booking[tx].at \in Nat /\ ledger.booking[tx].notice \in Nat
        BY <2>1, <4>2, <4>3 DEF Booking, Delay
      <4> QED BY <4>1, <4>2, <4>3, <4>4
    <3> QED BY <3>1, <3>2
  <2>4. CASE CallFails
    <3>1. RunsBehind(Top.ledger, ledger) /\ Top.ledger \in Ledger /\ ledger' = Top.ledger
      BY <1>1, <2>4, TopFacts DEF CallFails, Frame
    <3> QED BY <2>1, <3>1 DEF RunsBehind, Ledger
  <2>5. ASSUME NEW caller, NEW t, NEW timestamp, Schedule(caller, t, timestamp)
        PROVE  ledger'.runs = ledger.runs
    BY <2>1, <2>5 DEF Schedule, Ledger
  <2>6. ASSUME NEW caller, NEW t, Cancel(caller, t) PROVE ledger'.runs = ledger.runs
    BY <2>1, <2>6 DEF Cancel, Ledger
  <2> QED BY <1>1, <2>2, <2>3, <2>4, <2>5, <2>6
      DEF Next, SetDelaysDirectly, TransferOwnership, RenounceOwnership,
          CallSetDelays, CallReturns, Tick, vars
<1>2. Inv /\ [Next]_vars => [\A tx \in Txs : Gives(tx)]_vars
  BY <1>1
<1> QED BY <1>2, Invariance, PTL DEF Spec, RunsAfterNotice

\* When nobody owns the timelock nothing is left that can change it.
THEOREM RenouncedIsFinal == Spec => RenouncedForGood
<1>1. Inv /\ [Next]_vars => [owner = NoOwner /\ stack = <<>> => UNCHANGED storage]_vars
  BY TimelockAssumption, ZenonT(60)
  DEF Next, Schedule, Cancel, Execute, SetDelaysDirectly, SetDelays, IsSelf,
      TransferOwnership, RenounceOwnership, OnlyOwner, CallSetDelays, CallReturns,
      CallFails, Tick, storage, vars
<1> QED BY <1>1, Invariance, PTL DEF Spec, RenouncedForGood

=============================================================================
