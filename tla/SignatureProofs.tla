-------------------------- MODULE SignatureProofs ---------------------------
(***************************************************************************)
(* Theorems about ChainedSig, for every set of configurations, every       *)
(* history of signatures and chains nested to any depth; and about         *)
(* SequenceSig, for every list of members, every number of parts and every *)
(* witness.  Induction is over sets of naturals (NatSet).                  *)
(***************************************************************************)
EXTENDS Signatures, SequenceTheorems, WellFoundedInduction, NaturalsInduction, TLAPS

\* Every family with c that is closed under delegation has a signer of the
\* subdigest, c itself or one whose checkpoint is later than that of c.
Backs(known, c, subdigest) ==
  \A S \in SUBSET Configs :
    c \in S /\ ClosedUnderDelegation(known, S) =>
      \E d \in S :
        /\ Signed(d, subdigest) \in known
        /\ d = c \/ Checkpoint[d] > Checkpoint[c]

\* What a signatureRecovery asked about a digest returns.
ReturnOK(known, r, digest) ==
  /\ r \in Recovered
  /\ r.subdigest.digest = digest
  /\ r.checkpoint = Checkpoint[r.image]
  /\ r.enough => Backs(known, r.image, r.subdigest)

\* A chain so far would return something its last configuration backs.
FrameOK(known, f) ==
  f.last # NoResult => f.last.enough /\ ReturnOK(known, f.last, f.digest)

\* Each chain was asked for the digest the chain around it wanted next.
StackOK(known, question, st) ==
  /\ st \in Seq(Frame)
  /\ \A i \in 1 .. Len(st) :
       /\ FrameOK(known, st[i])
       /\ i = 1 => st[i].digest = question
       /\ i > 1 => st[i].digest = NextDigest(st[i - 1])

\* The answer is positive only for what _signatureValidation accepts.
AnswerOK ==
  status = "valid" =>
    /\ ~ InChain
    /\ result # NoResult
    /\ result.enough
    /\ result.image \in ValidImages

Inv ==
  /\ TypeOK
  /\ StackOK(signed, asked, stack)
  /\ result # NoResult => ReturnOK(signed, result, Wanted)
  /\ AnswerOK

-----------------------------------------------------------------------------
\* What is left of a sequence without its last element.
LEMMA FrontFacts ==
  ASSUME NEW S, NEW q \in Seq(S), q # <<>>
  PROVE  /\ Front(q) \in Seq(S) /\ Len(Front(q)) = Len(q) - 1
         /\ \A i \in 1 .. Len(q) - 1 : Front(q)[i] = q[i]
BY SMT DEF Front

\* The chain being read is a frame.
LEMMA TopFacts ==
  ASSUME Inv, InChain
  PROVE  /\ stack \in Seq(Frame) /\ Len(stack) \in Nat \ {0}
         /\ Top \in Frame /\ FrameOK(signed, Top)
<1>1. stack \in Seq(Frame) /\ Len(stack) \in Nat \ {0}
  BY EmptySeq DEF Inv, StackOK, InChain
<1>2. Top \in Frame
  BY <1>1, ElementOfSeq DEF Top
<1> QED BY <1>1, <1>2 DEF Inv, StackOK, Top

\* The digest a signature is asked for is a digest.
LEMMA WantedIsDigest == Inv => Wanted \in Digest
<1> SUFFICES ASSUME Inv PROVE Wanted \in Digest
  OBVIOUS
<1>1. CASE ~ InChain
  BY <1>1 DEF Wanted, Inv, TypeOK
<1>2. CASE InChain
  <2>1. Top \in Frame
    BY <1>2, TopFacts
  <2>2. CASE Top.last = NoResult
    BY <1>2, <2>1, <2>2 DEF Wanted, NextDigest, Frame
  <2>3. CASE Top.last # NoResult
    <3>1. Top.last.image \in Configs
      BY <2>1, <2>3 DEF Frame, Recovered
    <3> QED BY <1>2, <2>3, <3>1 DEF Wanted, NextDigest, SetImageHash, Digest
  <2> QED BY <2>2, <2>3
<1> QED BY <1>1, <1>2

\* A configuration backs whatever it signed itself.
LEMMA SignerBacks ==
  ASSUME NEW known, NEW c \in Configs, NEW m, Signed(c, m) \in known
  PROVE  Backs(known, c, m)
BY DEF Backs

\* Backing passes down a delegation to a configuration of a lower
\* checkpoint: if y backs the delegation to x, y backs whatever x backs.
LEMMA BackingDescends ==
  ASSUME NEW known, NEW x \in Configs, NEW y \in Configs, NEW m, NEW sd \in Subdigest,
         sd.digest = SetImageHash(x), ConfigAssumption,
         Backs(known, y, sd), Backs(known, x, m), Checkpoint[y] < Checkpoint[x]
  PROVE  Backs(known, y, m)
<1> SUFFICES ASSUME NEW S \in SUBSET Configs, y \in S, ClosedUnderDelegation(known, S)
             PROVE  \E d \in S : /\ Signed(d, m) \in known
                                 /\ d = y \/ Checkpoint[d] > Checkpoint[y]
  BY DEF Backs
<1>1. PICK d \in S : Signed(d, sd) \in known
  BY DEF Backs
<1>2. sd = [scope |-> sd.scope, digest |-> SetImageHash(x)] /\ sd.scope \in Scopes
  BY DEF Subdigest
<1>3. Delegates(known, d, x)
  BY <1>1, <1>2 DEF Delegates
<1>4. x \in S
  BY <1>3 DEF ClosedUnderDelegation
<1>5. PICK e \in S : /\ Signed(e, m) \in known
                     /\ e = x \/ Checkpoint[e] > Checkpoint[x]
  BY <1>4 DEF Backs
<1>6. Checkpoint[e] > Checkpoint[y]
  BY <1>5 DEF ConfigAssumption
<1> QED BY <1>5, <1>6

\* The part a chain accepts leaves it with a backed result.
LEMMA LinkBacked ==
  ASSUME NEW known, NEW f \in Frame, FrameOK(known, f), ConfigAssumption,
         NEW r, ReturnOK(known, r, NextDigest(f)), r # NoResult, LinkHolds(f.last, r)
  PROVE  Linked(f.last, r) # NoResult /\ Linked(f.last, r).enough
         /\ ReturnOK(known, Linked(f.last, r), f.digest)
<1>1. CASE f.last = NoResult
  BY <1>1 DEF Linked, LinkHolds, NextDigest
<1>2. CASE f.last # NoResult
  <2> DEFINE new == Linked(f.last, r)
  <2>1. /\ ReturnOK(known, f.last, f.digest) /\ f.last \in Recovered /\ f.last.enough
        /\ r \in Recovered /\ r.enough /\ r.checkpoint < f.last.checkpoint
    BY <1>2 DEF FrameOK, LinkHolds, ReturnOK
  <2>2. /\ new \in Recovered /\ new.enough /\ new.image = r.image
        /\ new.subdigest = f.last.subdigest /\ new.checkpoint = r.checkpoint
    BY <1>2, <2>1 DEF Linked, Recovered
  <2>3. /\ f.last.image \in Configs /\ r.image \in Configs
        /\ r.subdigest \in Subdigest
    BY <2>1 DEF Recovered
  <2>4. Backs(known, r.image, f.last.subdigest)
    <3>1. Backs(known, r.image, r.subdigest) /\ Backs(known, f.last.image, f.last.subdigest)
      BY <2>1 DEF ReturnOK
    <3>2. r.subdigest.digest = SetImageHash(f.last.image)
      BY <1>2 DEF ReturnOK, NextDigest
    <3>3. Checkpoint[r.image] < Checkpoint[f.last.image]
      BY <2>1 DEF ReturnOK
    <3> QED BY <2>3, <3>1, <3>2, <3>3, BackingDescends
  <2>5. new # NoResult
    BY <2>2 DEF ConfigAssumption
  <2>6. ReturnOK(known, new, f.digest)
    BY <2>1, <2>2, <2>4 DEF ReturnOK
  <2> QED BY <2>2, <2>5, <2>6
<1> QED BY <1>1, <1>2

\* Before anything is read there is nothing to answer for.
LEMMA InitInv == Init => Inv
<1> SUFFICES ASSUME Init PROVE Inv
  OBVIOUS
<1>1. TypeOK
  BY ConfigAssumption, EmptySeq DEF Init, TypeOK, Payload, Digest, Status
<1>2. StackOK(signed, asked, stack)
  BY EmptySeq DEF Init, StackOK
<1> QED BY <1>1, <1>2 DEF Init, Inv, AnswerOK

-----------------------------------------------------------------------------
\* A signature that is not chained returns the digest it was asked for, and
\* enough weight only if its configuration signed it.
LEMMA RecoverBaseStep ==
  ASSUME Inv, NEW c \in Configs, NEW scope \in Scopes, NEW enough \in BOOLEAN,
         RecoverBase(c, scope, enough)
  PROVE  Inv'
<1> DEFINE sd == [scope |-> scope, digest |-> Wanted]
           r == [enough |-> enough, image |-> c, subdigest |-> sd,
                 checkpoint |-> Checkpoint[c]]
<1>1. /\ UNCHANGED <<signed, asked, stack, status>>
      /\ result' = r /\ read' = Append(read, Checkpoint[c])
      /\ enough => Signed(c, sd) \in signed
      /\ status = "recovering"
  BY DEF RecoverBase, Recovering
<1>2. sd \in Subdigest /\ Checkpoint[c] \in Nat
  BY WantedIsDigest, ConfigAssumption DEF Subdigest
<1>3. r \in Recovered /\ r.subdigest.digest = Wanted
  BY <1>2 DEF Recovered
<1>4. ReturnOK(signed, r, Wanted)
  BY <1>1, <1>3, SignerBacks DEF ReturnOK
<1>5. Wanted' = Wanted
  BY <1>1 DEF Wanted, InChain, Top, NextDigest
<1> HIDE DEF r, sd
<1>6. ReturnOK(signed, result', Wanted)
  BY <1>1, <1>4, <1>5
<1>7. TypeOK'
  BY <1>1, <1>2, <1>3 DEF Inv, TypeOK
<1> QED BY <1>1, <1>5, <1>6, <1>7 DEF Inv, AnswerOK

\* A chain entered in a chain is asked for what that one wanted next.
LEMMA EnterChainStep == Inv /\ EnterChain => Inv'
<1> SUFFICES ASSUME Inv, EnterChain PROVE Inv'
  OBVIOUS
<1> DEFINE f == [digest |-> Wanted, last |-> NoResult]
<1>1. /\ stack' = Append(stack, f) /\ result = NoResult /\ status = "recovering"
      /\ UNCHANGED <<signed, asked, result, status, read>>
  BY DEF EnterChain, Recovering
<1>2. stack \in Seq(Frame) /\ Len(stack) \in Nat
  BY DEF Inv, StackOK
<1>3. f \in Frame /\ f.digest = Wanted /\ FrameOK(signed, f)
  BY WantedIsDigest DEF Frame, FrameOK
<1> HIDE DEF f
<1>4. /\ stack' \in Seq(Frame) /\ Len(stack') = Len(stack) + 1
      /\ stack'[Len(stack) + 1] = f
      /\ \A i \in 1 .. Len(stack) : stack'[i] = stack[i]
  BY <1>1, <1>2, <1>3
<1>5. \A i \in 1 .. Len(stack') : FrameOK(signed, stack'[i])
  BY <1>1, <1>2, <1>3, <1>4 DEF Inv, StackOK
<1>6. \A i \in 1 .. Len(stack') :
        /\ i = 1 => stack'[i].digest = asked'
        /\ i > 1 => stack'[i].digest = NextDigest(stack'[i - 1])
  <2>1. Len(stack) = 0 => Wanted = asked
    BY <1>2 DEF Wanted, InChain
  <2>2. Len(stack) > 0 => Wanted = NextDigest(stack[Len(stack)])
    BY <1>2 DEF Wanted, InChain, Top
  <2> QED BY <1>1, <1>2, <1>3, <1>4, <2>1, <2>2 DEF Inv, StackOK
<1>7. StackOK(signed, asked, stack)'
  BY <1>1, <1>4, <1>5, <1>6 DEF StackOK
<1>8. TypeOK'
  BY <1>1, <1>4 DEF Inv, TypeOK
<1> QED BY <1>1, <1>7, <1>8 DEF Inv, AnswerOK

\* An accepted part turns the top frame into what LinkBacked says.
LEMMA AcceptLinkStep == Inv /\ AcceptLink => Inv'
<1> SUFFICES ASSUME Inv, AcceptLink PROVE Inv'
  OBVIOUS
<1> DEFINE n == Len(stack)
           f == [Top EXCEPT !.last = Linked(@, result)]
<1>1. /\ InChain /\ result # NoResult /\ LinkHolds(Top.last, result)
      /\ result' = NoResult /\ UNCHANGED <<signed, asked, status, read>>
      /\ status = "recovering"
  BY DEF AcceptLink, Returned
<1>2. stack \in Seq(Frame) /\ n \in Nat \ {0} /\ Top \in Frame /\ FrameOK(signed, Top)
  BY <1>1, TopFacts
<1>3. ReturnOK(signed, result, NextDigest(Top))
  BY <1>1 DEF Inv, Wanted
<1>4. /\ Linked(Top.last, result) # NoResult /\ Linked(Top.last, result).enough
      /\ ReturnOK(signed, Linked(Top.last, result), Top.digest)
  BY <1>1, <1>2, <1>3, LinkBacked, ConfigAssumption
<1>5. f \in Frame /\ f.digest = Top.digest /\ f.last = Linked(Top.last, result)
  BY <1>2, <1>4 DEF Frame, ReturnOK
<1>6. FrameOK(signed, f)
  BY <1>1, <1>4, <1>5 DEF FrameOK
<1>7. stack' = [stack EXCEPT ![n] = f]
  BY DEF AcceptLink, Top
<1> HIDE DEF f
<1>8. /\ stack' \in Seq(Frame) /\ Len(stack') = n /\ stack'[n] = f
      /\ \A i \in 1 .. n - 1 : stack'[i] = stack[i]
  BY <1>2, <1>5, <1>7
<1>9. \A i \in 1 .. n : FrameOK(signed, stack'[i])
  BY <1>1, <1>2, <1>6, <1>8 DEF Inv, StackOK
<1>10. \A i \in 1 .. n : stack'[i].digest = stack[i].digest
  BY <1>2, <1>5, <1>8 DEF Top
<1>11. \A i \in 1 .. n :
         /\ i = 1 => stack'[i].digest = asked'
         /\ i > 1 => stack'[i].digest = NextDigest(stack'[i - 1])
  BY <1>1, <1>2, <1>8, <1>10 DEF Inv, StackOK
<1>12. StackOK(signed, asked, stack)'
  BY <1>1, <1>8, <1>9, <1>11 DEF StackOK
<1>13. TypeOK'
  BY <1>1, <1>8 DEF Inv, TypeOK
<1> QED BY <1>1, <1>12, <1>13 DEF Inv, AnswerOK

\* A chain that ends returns its result to whoever wanted its digest.
LEMMA EndChainStep == Inv /\ EndChain => Inv'
<1> SUFFICES ASSUME Inv, EndChain PROVE Inv'
  OBVIOUS
<1> DEFINE n == Len(stack)
           rest == Front(stack)
<1>1. /\ InChain /\ Top.last # NoResult /\ stack' = rest /\ result' = Top.last
      /\ UNCHANGED <<signed, asked, status, read>> /\ status = "recovering"
  BY DEF EndChain, Recovering
<1>2. stack \in Seq(Frame) /\ n \in Nat \ {0} /\ Top \in Frame /\ FrameOK(signed, Top)
  BY <1>1, TopFacts
<1>3. /\ rest \in Seq(Frame) /\ Len(rest) = n - 1
      /\ \A i \in 1 .. n - 1 : rest[i] = stack[i]
  BY <1>1, <1>2, FrontFacts DEF InChain
<1> HIDE DEF rest
<1>4. \A i \in 1 .. n - 1 : FrameOK(signed, rest[i])
  BY <1>1, <1>2, <1>3 DEF Inv, StackOK
<1>5. StackOK(signed, asked, stack)'
  <2>1. \A i \in 1 .. n - 1 :
          /\ i = 1 => rest[i].digest = asked
          /\ i > 1 => rest[i].digest = NextDigest(rest[i - 1])
    BY <1>2, <1>3, SMTT(60) DEF Inv, StackOK
  <2> QED BY <1>1, <1>3, <1>4, <2>1 DEF StackOK
<1>6. Wanted' = Top.digest
  <2>1. CASE n = 1
    BY <1>1, <1>2, <1>3, <2>1, EmptySeq DEF Wanted, InChain, Inv, StackOK, Top
  <2>2. CASE n # 1
    <3>1. n > 1 /\ stack' # <<>> /\ stack'[Len(stack')] = stack[n - 1]
      BY <1>1, <1>2, <1>3, <2>2
    <3>2. Top.digest = NextDigest(stack[n - 1])
      BY <1>2, <3>1 DEF Inv, StackOK, Top
    <3> QED BY <3>1, <3>2 DEF Wanted, InChain, Top, NextDigest
  <2> QED BY <2>1, <2>2
<1>7. ReturnOK(signed, result', Top.digest)
  BY <1>1, <1>2, <1>6 DEF FrameOK
<1>8. TypeOK'
  BY <1>1, <1>2, <1>3 DEF Inv, TypeOK, Frame
<1> QED BY <1>1, <1>5, <1>6, <1>7, <1>8 DEF Inv, AnswerOK

\* A revert or an answer changes nothing that was recovered.
LEMMA StatusStep ==
  ASSUME Inv, RefuseLink \/ Malformed \/ Validate
  PROVE  Inv'
<1>1. /\ UNCHANGED <<signed, asked, stack, result, read>> /\ status' \in Status
      /\ AnswerOK'
  BY DEF RefuseLink, Malformed, Validate, Status, AnswerOK, Returned, InChain
<1>2. Wanted' = Wanted
  BY <1>1 DEF Wanted, InChain, Top, NextDigest
<1>3. result # NoResult => ReturnOK(signed, result, Wanted)
  BY <1>1, <1>2 DEF Inv
<1>4. TypeOK'
  BY <1>1 DEF Inv, TypeOK
<1> QED BY <1>1, <1>2, <1>3, <1>4 DEF Inv

\* The invariant holds throughout every recovery.
THEOREM Invariance == Spec => []Inv
<1>1. Inv /\ [Next]_vars => Inv'
  <2> SUFFICES ASSUME Inv, [Next]_vars PROVE Inv'
    OBVIOUS
  <2>1. CASE UNCHANGED vars
    <3>1. Wanted' = Wanted
      BY <2>1 DEF vars, Wanted, InChain, Top, NextDigest
    <3>2. result # NoResult => ReturnOK(signed, result, Wanted)
      BY <2>1, <3>1 DEF Inv, vars
    <3> QED BY <2>1, <3>1, <3>2 DEF vars, Inv, TypeOK, AnswerOK, InChain
  <2>2. CASE Next
    BY <2>2, RecoverBaseStep, EnterChainStep, AcceptLinkStep, EndChainStep,
       StatusStep DEF Next
  <2> QED BY <2>1, <2>2
<1> QED BY <1>1, InitInv, PTL DEF Spec

\* Values keep their types while a signature is recovered.
THEOREM TypeCorrect == Spec => []TypeOK
BY Invariance, PTL DEF Inv

\* Every valid signature descends from a configuration on chain through
\* signed delegations to a signer of the very digest that was asked about.
THEOREM DelegationIsSound == Spec => []OnlyDelegatesSpeak
<1>1. Inv => OnlyDelegatesSpeak
  <2> SUFFICES ASSUME Inv, status = "valid"
               PROVE  /\ result.subdigest.digest = asked
                      /\ \E c \in ValidImages :
                           \A S \in SUBSET Configs :
                             c \in S /\ ClosedUnderDelegation(signed, S) =>
                               \E d \in S : Signed(d, result.subdigest) \in signed
    BY DEF OnlyDelegatesSpeak
  <2>1. /\ result.enough /\ result.image \in ValidImages
        /\ ReturnOK(signed, result, asked)
    BY DEF Inv, AnswerOK, Wanted
  <2>2. Backs(signed, result.image, result.subdigest)
    BY <2>1 DEF ReturnOK
  <2> QED BY <2>1, <2>2 DEF ReturnOK, Backs
<1> QED BY <1>1, Invariance, PTL

\* No superseded configuration speaks again, however chains are nested.
THEOREM SupersededAreRefused == Spec => []SupersededStaySilent
<1>1. Inv => SupersededStaySilent
  <2> SUFFICES ASSUME Inv, status = "valid"
               PROVE  \E d \in Configs :
                        /\ Signed(d, result.subdigest) \in signed
                        /\ d \in ValidImages \/ Checkpoint[d] > result.checkpoint
    BY DEF SupersededStaySilent
  <2>1. /\ result.enough /\ result.image \in ValidImages
        /\ ReturnOK(signed, result, asked)
    BY DEF Inv, AnswerOK, Wanted
  <2>2. /\ Backs(signed, result.image, result.subdigest)
        /\ result.checkpoint = Checkpoint[result.image]
    BY <2>1 DEF ReturnOK
  <2>3. result.image \in Configs /\ ClosedUnderDelegation(signed, Configs)
    BY <2>1, ConfigAssumption DEF ClosedUnderDelegation
  <2>4. PICK d \in Configs :
          /\ Signed(d, result.subdigest) \in signed
          /\ d = result.image \/ Checkpoint[d] > Checkpoint[result.image]
    BY <2>2, <2>3 DEF Backs
  <2> QED BY <2>1, <2>2, <2>4
<1> QED BY <1>1, Invariance, PTL

-----------------------------------------------------------------------------
(* Induction, and what recursion defines. *)

\* Induction on the naturals, as a fact about sets.
LEMMA NatSet ==
  ASSUME NEW T \in SUBSET Nat, 0 \in T, \A n \in T : n + 1 \in T
  PROVE  T = Nat
<1> SUFFICES ASSUME Nat \ T # {}
             PROVE  FALSE
  OBVIOUS
<1> DEFINE U == Nat \ T
<1>1. PICK y \in U : \A z \in U : <<z, y>> \notin OpToRel(<, Nat)
  BY NatLessThanWellFounded, WFMin, Zenon
<1>2. \A z \in U : ~ (z < y)
  BY <1>1, Zenon DEF OpToRel
<1>3. y # 0 /\ y - 1 \in Nat /\ y - 1 < y
  OBVIOUS
<1>4. y - 1 \in T
  BY <1>2, <1>3
<1> QED BY <1>3, <1>4

\* What the recursive definitions below do with the value before: the level above a
\* level, a sum with one more term, the terms that hash terms, and their weights.
Step(kind, p, n, x) ==
  CASE kind = "level" -> Parts!Above(x)
    [] kind = "sum"   -> x + p[n]
    [] kind = "terms" -> x \cup {Parts!Hash(ab[1], ab[2]) : ab \in x \X x}
    [] OTHER          -> [t \in p.terms[n] |-> IF t \in p.words THEN p.weights[t]
                                               ELSE x[t[2]] + x[t[3]]]

Recursive(f, S, kind, p, a) ==
  f = [n \in S |-> IF n = 0 THEN a ELSE Step(kind, p, n, f[n - 1])]

\* They define something.
LEMMA RecursionDefines ==
  ASSUME NEW kind, NEW p, NEW a
  PROVE  \E f : Recursive(f, Nat, kind, p, a)
<1> DEFINE T == {m \in Nat : \E f : Recursive(f, 0 .. m, kind, p, a)}
<1>1. 0 \in T
  <2>1. Recursive([n \in 0 .. 0 |-> a], 0 .. 0, kind, p, a)
    BY DEF Recursive
  <2> QED BY <2>1
<1>2. ASSUME NEW m \in T
      PROVE  m + 1 \in T
  <2>1. PICK f : Recursive(f, 0 .. m, kind, p, a)
    OBVIOUS
  <2> DEFINE g == [n \in 0 .. m + 1 |-> IF n \in 0 .. m THEN f[n] ELSE Step(kind, p, n, f[m])]
  <2>2. \A n \in 0 .. m : f[n] = IF n = 0 THEN a ELSE Step(kind, p, n, f[n - 1])
    BY <2>1 DEF Recursive
  <2>3. \A n \in 0 .. m + 1 : g[n] = IF n = 0 THEN a ELSE Step(kind, p, n, g[n - 1])
    <3> SUFFICES ASSUME NEW n \in 0 .. m + 1
                 PROVE  g[n] = IF n = 0 THEN a ELSE Step(kind, p, n, g[n - 1])
      OBVIOUS
    <3>1. CASE n = 0
      BY <2>2, <3>1
    <3>2. CASE n \in 1 .. m
      <4>1. n - 1 \in 0 .. m
        BY <3>2
      <4> QED BY <2>2, <3>2, <4>1
    <3>3. CASE n = m + 1
      <4>1. n - 1 = m /\ n \notin 0 .. m /\ m \in 0 .. m
        BY <3>3
      <4> QED BY <3>3, <4>1
    <3> QED BY <3>1, <3>2, <3>3
  <2>4. Recursive(g, 0 .. m + 1, kind, p, a)
    BY <2>3, Zenon DEF Recursive
  <2> QED BY <2>4
<1>3. T = Nat
  <2> HIDE DEF T
  <2>1. T \in SUBSET Nat
    BY DEF T
  <2> QED BY <1>1, <1>2, <2>1, NatSet
<1> DEFINE Part(m) == CHOOSE f : Recursive(f, 0 .. m, kind, p, a)
<1>4. ASSUME NEW m \in Nat
      PROVE  Recursive(Part(m), 0 .. m, kind, p, a)
  BY <1>3
<1>5. ASSUME NEW m \in Nat
      PROVE  Part(m + 1)[m] = Part(m)[m]
  <2> DEFINE f == Part(m)  g == Part(m + 1)
  <2>1. \A n \in 0 .. m : f[n] = IF n = 0 THEN a ELSE Step(kind, p, n, f[n - 1])
    <3>1. Recursive(f, 0 .. m, kind, p, a)
      BY <1>4
    <3> HIDE DEF f
    <3> QED BY <3>1, ZenonT(30) DEF Recursive
  <2>2. \A n \in 0 .. m + 1 : g[n] = IF n = 0 THEN a ELSE Step(kind, p, n, g[n - 1])
    <3>1. m + 1 \in Nat
      OBVIOUS
    <3>2. Recursive(g, 0 .. m + 1, kind, p, a)
      BY <1>4, <3>1
    <3> HIDE DEF g
    <3> QED BY <3>2, ZenonT(30) DEF Recursive
  <2> HIDE DEF f, g
  <2> DEFINE U == {n \in Nat : n <= m => f[n] = g[n]}
  <2>3. 0 \in U
    BY <2>1, <2>2
  <2>4. ASSUME NEW n \in U
        PROVE  n + 1 \in U
    <3> SUFFICES ASSUME n + 1 <= m
                 PROVE  f[n + 1] = g[n + 1]
      OBVIOUS
    <3>1. n + 1 \in 0 .. m /\ n + 1 # 0 /\ (n + 1) - 1 = n
      OBVIOUS
    <3>2. f[n] = g[n]
      OBVIOUS
    <3>3. f[n + 1] = Step(kind, p, n + 1, f[n])
      BY <2>1, <3>1
    <3>4. g[n + 1] = Step(kind, p, n + 1, g[n])
      BY <2>2, <3>1
    <3> QED BY <3>2, <3>3, <3>4
  <2>5. U = Nat
    <3> HIDE DEF U
    <3>1. U \in SUBSET Nat
      BY DEF U
    <3> QED BY <2>3, <2>4, <3>1, NatSet
  <2>6. f[m] = g[m]
    BY <2>5
  <2> QED BY <2>6 DEF f, g
<1> DEFINE F == [m \in Nat |-> Part(m)[m]]
<1>6. \A n \in Nat : F[n] = IF n = 0 THEN a ELSE Step(kind, p, n, F[n - 1])
  <2> SUFFICES ASSUME NEW n \in Nat
               PROVE  F[n] = IF n = 0 THEN a ELSE Step(kind, p, n, F[n - 1])
    OBVIOUS
  <2>1. Part(n)[n] = IF n = 0 THEN a ELSE Step(kind, p, n, Part(n)[n - 1])
    <3>1. n \in 0 .. n
      OBVIOUS
    <3>2. Recursive(Part(n), 0 .. n, kind, p, a)
      BY <1>4
    <3> HIDE DEF Part
    <3> QED BY <3>1, <3>2 DEF Recursive
  <2>2. CASE n = 0
    BY <2>1, <2>2
  <2>3. CASE n # 0
    <3>1. n - 1 \in Nat /\ (n - 1) + 1 = n
      BY <2>3
    <3>2. Part(n)[n - 1] = Part(n - 1)[n - 1]
      BY <1>5, <3>1
    <3> HIDE DEF Part
    <3> QED BY <2>1, <2>3, <3>1, <3>2
  <2> QED BY <2>2, <2>3
<1>7. F = [n \in Nat |-> F[n]]
  OBVIOUS
<1>8. Recursive(F, Nat, kind, p, a)
  <2> HIDE DEF F
  <2>1. F = [n \in Nat |-> IF n = 0 THEN a ELSE Step(kind, p, n, F[n - 1])]
    BY <1>6, <1>7, Zenon
  <2> QED BY <2>1 DEF Recursive
<1> HIDE DEF F
<1> QED BY <1>8

-----------------------------------------------------------------------------
(* The tree of a configuration. *)

\* A function on 1 .. k has k elements.
LEMMA LengthOf ==
  ASSUME NEW q, NEW k \in Nat, q = [i \in 1 .. k |-> q[i]]
  PROVE  Len(q) = k
<1> DEFINE S == {q[i] : i \in 1 .. k}
<1>1. q \in Seq(S)
  BY SeqDef
<1> QED BY <1>1, LenProperties

\* A level is made of the one below it, which is one node larger at least.
LEMMA AboveIs ==
  ASSUME NEW q, NEW k \in Nat \ {0}, q = [i \in 1 .. k |-> q[i]]
  PROVE  LET up == Parts!Above(q)
             half == (k + 1) \div 2
         IN  /\ up = [i \in 1 .. half |-> up[i]] /\ half \in Nat \ {0}
             /\ k > 1 => half < k
             /\ \A i \in 1 .. half :
                  up[i] = IF 2 * i > k THEN q[2 * i - 1] ELSE Parts!Hash(q[2 * i - 1], q[2 * i])
<1>1. Len(q) = k
  BY LengthOf
<1>2. (k + 1) \div 2 \in Nat \ {0} /\ (k > 1 => (k + 1) \div 2 < k)
  OBVIOUS
<1> QED BY <1>1, <1>2 DEF Parts!Above

\* The size of a level of the tree of k members.
Size(tree, n) == Len(tree[n])

\* The members are the lowest level, and each level is above the one before; there are
\* levels enough.
LEMMA LevelFacts ==
  ASSUME NEW m \in Seq(Parts!Member), m # <<>>
  PROVE  LET tree == Parts!Levels(m)
             size(n) == Size(tree, n)
         IN  /\ tree[0] = [i \in 1 .. Len(m) |-> Parts!Leaf(m[i])]
             /\ \A n \in 0 .. Len(m) :
                  /\ tree[n] = [i \in 1 .. size(n) |-> tree[n][i]]
                  /\ size(n) \in Nat \ {0} /\ (size(n) = 1 \/ size(n) + n <= Len(m))
             /\ \A n \in 0 .. Len(m) - 1 : tree[n + 1] = Parts!Above(tree[n])
             /\ size(0) = Len(m) /\ size(Len(m)) = 1
<1> DEFINE a == [i \in DOMAIN m |-> Parts!Leaf(m[i])]
           L == Len(m)
           tree == Parts!Levels(m)
           up == CHOOSE f : f = [n \in Nat |-> IF n = 0 THEN a ELSE Parts!Above(f[n - 1])]
<1>m. L \in Nat \ {0} /\ DOMAIN m = 1 .. L
  OBVIOUS
<1>1. up = [n \in Nat |-> IF n = 0 THEN a ELSE Parts!Above(up[n - 1])]
  <2>1. PICK f : Recursive(f, Nat, "level", 0, a)
    BY RecursionDefines
  <2>2. f = [n \in Nat |-> IF n = 0 THEN a ELSE Parts!Above(f[n - 1])]
    BY <2>1 DEF Recursive, Step
  <2> QED BY <2>2
<1>2. tree = [n \in 0 .. L |-> up[n]]
  BY DEF Parts!Levels
<1> HIDE DEF up, tree
<1>3. tree[0] = a /\ a = [i \in 1 .. L |-> Parts!Leaf(m[i])]
  BY <1>m, <1>1, <1>2
<1>4. ASSUME NEW n \in 0 .. L - 1
      PROVE  tree[n + 1] = Parts!Above(tree[n])
  <2>1. n \in Nat /\ n \in 0 .. L /\ n + 1 \in Nat /\ n + 1 \in 0 .. L /\ n + 1 # 0 /\ (n + 1) - 1 = n
    BY <1>m
  <2> QED BY <1>1, <1>2, <2>1
<1> DEFINE N(n) == Len(tree[n])
           Is(n) == N(n) \in Nat \ {0} /\ (N(n) = 1 \/ N(n) + n <= L)
           Fits(n) == tree[n] = [i \in 1 .. N(n) |-> tree[n][i]]
           T == {n \in Nat : n <= L => Fits(n) /\ Is(n)}
<1>5. N(0) = L /\ Fits(0)
  <2>1. N(0) = L
    BY <1>m, <1>3, LengthOf
  <2> HIDE DEF N
  <2> QED BY <1>3, <2>1
<1> HIDE DEF L
<1>6. ASSUME NEW n \in T
      PROVE  n + 1 \in T
  <2> HIDE DEF Fits, Is
  <2> SUFFICES ASSUME n + 1 <= L
               PROVE  Fits(n + 1) /\ Is(n + 1)
    OBVIOUS
  <2>1. n \in Nat /\ n \in 0 .. L - 1 /\ Fits(n) /\ Is(n)
    BY <1>m
  <2> HIDE DEF N, T
  <2> USE DEF Fits, Is
  <2> DEFINE k == N(n)  h == (k + 1) \div 2
  <2>2. /\ tree[n + 1] = [i \in 1 .. h |-> tree[n + 1][i]]
        /\ h \in Nat \ {0} /\ (k > 1 => h < k)
    <3>1. tree[n + 1] = Parts!Above(tree[n])
      BY <1>4, <2>1
    <3> QED BY <2>1, <3>1, AboveIs
  <2>3. N(n + 1) = h
    BY <2>2, LengthOf DEF N
  <2>4. Is(n + 1)
    BY <2>1, <2>2, <2>3, <1>m
  <2> QED BY <2>2, <2>3, <2>4
<1>7. T = Nat
  <2>1. 0 \in T
    <3> HIDE DEF N
    <3>1. Is(0)
      BY <1>5, <1>m
    <3> HIDE DEF Is, Fits
    <3> QED BY <1>5, <3>1
  <2> HIDE DEF Is, Fits
  <2>2. T \in SUBSET Nat
    OBVIOUS
  <2> HIDE DEF T
  <2> QED BY <1>6, <2>1, <2>2, NatSet
<1>8. ASSUME NEW n \in 0 .. L
      PROVE  Fits(n) /\ Is(n)
  <2> HIDE DEF Is, Fits
  <2>1. n \in Nat /\ n <= L
    BY <1>m
  <2>2. n \in T
    BY <1>7, <2>1
  <2> QED BY <2>1, <2>2
<1>9. N(L) = 1
  <2> HIDE DEF N
  <2>1. Is(L)
    <3> HIDE DEF Is, Fits
    <3> QED BY <1>8, <1>m
  <2> QED BY <2>1, <1>m
<1> QED BY <1>3, <1>4, <1>5, <1>8, <1>9 DEF Size, L, tree

-----------------------------------------------------------------------------
(* Sums. *)

\* SumTo(f)[n]: that of the first n values of f.
SumTo(f) == CHOOSE g : Recursive(g, Nat, "sum", f, 0)

LEMMA SumFacts ==
  ASSUME NEW f \in [Nat -> Nat]
  PROVE  /\ SumTo(f)[0] = 0
         /\ \A n \in Nat : SumTo(f)[n] \in Nat /\ SumTo(f)[n + 1] = SumTo(f)[n] + f[n + 1]
<1> DEFINE g == SumTo(f)
<1>1. Recursive(g, Nat, "sum", f, 0)
  BY RecursionDefines DEF SumTo
<1> HIDE DEF g
<1>2. g = [n \in Nat |-> IF n = 0 THEN 0 ELSE g[n - 1] + f[n]]
  BY <1>1 DEF Recursive, Step
<1>3. g[0] = 0
  BY <1>2
<1>4. ASSUME NEW n \in Nat
      PROVE  g[n + 1] = g[n] + f[n + 1]
  <2>1. n + 1 \in Nat /\ n + 1 # 0 /\ (n + 1) - 1 = n
    OBVIOUS
  <2> QED BY <1>2, <2>1
<1> DEFINE T == {n \in Nat : g[n] \in Nat}
<1>5. T = Nat
  <2>1. 0 \in T /\ \A n \in T : n + 1 \in T
    BY <1>3, <1>4
  <2> HIDE DEF T
  <2>2. T \in SUBSET Nat
    BY DEF T
  <2> QED BY <2>1, <2>2, NatSet
<1>6. \A n \in Nat : g[n] \in Nat
  BY <1>5
<1> HIDE DEF T
<1> QED BY <1>3, <1>4, <1>6 DEF g

\* What lies between depends on what is summed there.
LEMMA SumsAgree ==
  ASSUME NEW f \in [Nat -> Nat], NEW g \in [Nat -> Nat], NEW a \in Nat, NEW b \in Nat, a <= b,
         \A k \in a + 1 .. b : f[k] = g[k]
  PROVE  SumTo(f)[b] - SumTo(f)[a] = SumTo(g)[b] - SumTo(g)[a]
<1> DEFINE F(n) == SumTo(f)[n]  G(n) == SumTo(g)[n]
           T == {n \in Nat : a + n <= b => F(a + n) - F(a) = G(a + n) - G(a)}
<1>f. \A n \in Nat : /\ F(n) \in Nat /\ F(n + 1) = F(n) + f[n + 1]
                    /\ G(n) \in Nat /\ G(n + 1) = G(n) + g[n + 1]
  BY SumFacts
<1> HIDE DEF F, G
<1>1. 0 \in T
  BY <1>f
<1>2. ASSUME NEW n \in T
      PROVE  n + 1 \in T
  <2> SUFFICES ASSUME a + (n + 1) <= b
               PROVE  F(a + (n + 1)) - F(a) = G(a + (n + 1)) - G(a)
    OBVIOUS
  <2>1. a + n \in Nat /\ a + (n + 1) = (a + n) + 1 /\ (a + n) + 1 \in a + 1 .. b
    OBVIOUS
  <2>2. F(a + n) - F(a) = G(a + n) - G(a)
    OBVIOUS
  <2>3. F((a + n) + 1) = F(a + n) + f[(a + n) + 1] /\ G((a + n) + 1) = G(a + n) + g[(a + n) + 1]
    BY <1>f, <2>1
  <2>4. f[(a + n) + 1] = g[(a + n) + 1] /\ f[(a + n) + 1] \in Nat
    BY <2>1
  <2>5. {F(a), G(a), F(a + n), G(a + n)} \subseteq Nat
    BY <1>f, <2>1
  <2> QED BY <2>1, <2>2, <2>3, <2>4, <2>5, SMTT(30)
<1>3. T = Nat
  <2> HIDE DEF T
  <2>1. T \in SUBSET Nat
    BY DEF T
  <2> QED BY <1>1, <1>2, <2>1, NatSet
<1>4. b - a \in Nat /\ a + (b - a) = b
  OBVIOUS
<1>5. b - a \in T
  BY <1>3, <1>4
<1>6. F(b) - F(a) = G(b) - G(a)
  BY <1>4, <1>5
<1> QED BY <1>6 DEF F, G

-----------------------------------------------------------------------------
(* The weight of a word: that of the leaves in it whose address signed. *)

Weighs(T, w, S) ==
  /\ w \in [T -> Nat] /\ Parts!Zero \in T /\ w[Parts!Zero] = 0
  /\ \A m \in Parts!Member :
       /\ Parts!Leaf(m) \in T
       /\ w[Parts!Leaf(m)] = IF m.address \in S THEN m.weight ELSE 0
  /\ \A a, b \in T : Parts!Hash(a, b) \in T /\ w[Parts!Hash(a, b)] = w[a] + w[b]

\* Leaves, and the leaves that are not a word of their own.
Words == {Parts!Zero} \cup {Parts!Leaf(m) : m \in Parts!Member}

LEMMA WordFacts ==
  ASSUME NEW S \in SUBSET Addresses
  PROVE  LET wt == [t \in Words |-> IF t # Parts!Zero /\ t[2] \in S THEN t[3] ELSE 0] IN
         /\ wt \in [Words -> Nat] /\ wt[Parts!Zero] = 0
         /\ \A m \in Parts!Member : wt[Parts!Leaf(m)] = IF m.address \in S THEN m.weight ELSE 0
         /\ \A a, b : /\ Parts!Hash(a, b) \notin Words
                      /\ Parts!Hash(a, b)[2] = a /\ Parts!Hash(a, b)[3] = b
<1> DEFINE wt == [t \in Words |-> IF t # Parts!Zero /\ t[2] \in S THEN t[3] ELSE 0]
<1>1. NoAddress \notin S /\ Weights \subseteq Nat
  BY PartsAssumption DEF Parts!MemberAssumption
<1>2. ASSUME NEW m \in Parts!Member
      PROVE  /\ Parts!Leaf(m) \in Words
             /\ wt[Parts!Leaf(m)] = IF m.address \in S THEN m.weight ELSE 0
             /\ wt[Parts!Leaf(m)] \in Nat
  <2>1. m.weight \in Nat /\ Parts!Leaf(m) \in Words
    BY <1>1 DEF Parts!Member, Words
  <2>2. CASE m.address = NoAddress /\ m.weight = 0
    BY <1>1, <2>1, <2>2 DEF Parts!Leaf
  <2>3. CASE ~ (m.address = NoAddress /\ m.weight = 0)
    <3>1. Parts!Leaf(m) = <<"leaf", m.address, m.weight>>
      BY <2>3 DEF Parts!Leaf
    <3>2. Parts!Leaf(m) # Parts!Zero /\ Parts!Leaf(m)[2] = m.address /\ Parts!Leaf(m)[3] = m.weight
      BY <3>1 DEF Parts!Zero
    <3> QED BY <2>1, <3>2
  <2> QED BY <2>2, <2>3
<1>3. Parts!Zero \in Words /\ wt[Parts!Zero] = 0
  BY DEF Words
<1>4. wt \in [Words -> Nat]
  <2>1. ASSUME NEW t \in Words
        PROVE  wt[t] \in Nat
    BY <1>2, <1>3 DEF Words
  <2> QED BY <2>1
<1>5. ASSUME NEW a, NEW b
      PROVE  /\ Parts!Hash(a, b) \notin Words
             /\ Parts!Hash(a, b)[2] = a /\ Parts!Hash(a, b)[3] = b
  BY DEF Words, Parts!Hash, Parts!Zero, Parts!Leaf
<1> QED BY <1>2, <1>3, <1>4, <1>5

\* There is such a weight of words, and of the words that are made of them.
LEMMA WordsWeigh ==
  ASSUME NEW S \in SUBSET Addresses
  PROVE  \E T, w : Weighs(T, w, S)
<1> DEFINE wt == [t \in Words |-> IF t # Parts!Zero /\ t[2] \in S THEN t[3] ELSE 0]
<1>0. /\ wt \in [Words -> Nat] /\ Parts!Zero \in Words /\ wt[Parts!Zero] = 0
      /\ \A m \in Parts!Member :
           Parts!Leaf(m) \in Words /\ wt[Parts!Leaf(m)] = IF m.address \in S THEN m.weight ELSE 0
      /\ \A a, b : /\ Parts!Hash(a, b) \notin Words
                   /\ Parts!Hash(a, b)[2] = a /\ Parts!Hash(a, b)[3] = b
  <2>1. Parts!Zero \in Words /\ \A m \in Parts!Member : Parts!Leaf(m) \in Words
    BY DEF Words
  <2> QED BY <2>1, WordFacts
<1> HIDE DEF wt
<1>1. PICK te : Recursive(te, Nat, "terms", 0, Words)
  BY RecursionDefines
<1> DEFINE Hashes(x) == {Parts!Hash(ab[1], ab[2]) : ab \in x \X x}
<1>2. te = [n \in Nat |-> IF n = 0 THEN Words ELSE te[n - 1] \cup Hashes(te[n - 1])]
  BY <1>1 DEF Recursive, Step
<1>3. te[0] = Words
  BY <1>2
<1>4. ASSUME NEW n \in Nat
      PROVE  te[n + 1] = te[n] \cup Hashes(te[n])
  <2>1. n + 1 \in Nat /\ n + 1 # 0 /\ (n + 1) - 1 = n
    OBVIOUS
  <2> HIDE DEF Hashes
  <2> QED BY <1>2, <2>1
<1>5. ASSUME NEW x, NEW a \in x, NEW b \in x
      PROVE  Parts!Hash(a, b) \in Hashes(x)
  <2>1. <<a, b>> \in x \X x /\ <<a, b>>[1] = a /\ <<a, b>>[2] = b
    OBVIOUS
  <2> QED BY <2>1
<1>6. ASSUME NEW x, NEW t \in Hashes(x)
      PROVE  \E a, b \in x : t = Parts!Hash(a, b)
  OBVIOUS
<1> HIDE DEF Hashes
<1> DEFINE p == [terms |-> te, words |-> Words, weights |-> wt]
<1>7. PICK v : Recursive(v, Nat, "weighed", p, wt)
  BY RecursionDefines
<1>8. v = [n \in Nat |->
             IF n = 0 THEN wt
             ELSE [t \in te[n] |-> IF t \in Words THEN wt[t] ELSE v[n - 1][t[2]] + v[n - 1][t[3]]]]
  BY <1>7 DEF Recursive, Step
<1>9. v[0] = wt
  BY <1>8
<1>10. ASSUME NEW n \in Nat
       PROVE  v[n + 1] = [t \in te[n + 1] |-> IF t \in Words THEN wt[t]
                                             ELSE v[n][t[2]] + v[n][t[3]]]
  <2>1. n + 1 \in Nat /\ n + 1 # 0 /\ (n + 1) - 1 = n
    OBVIOUS
  <2> QED BY <1>8, <2>1
<1> DEFINE Made(n) == \A t \in te[n + 1] : t \in Words \/ \E a, b \in te[n] : t = Parts!Hash(a, b)
           Typed(n) == v[n] \in [te[n] -> Nat] /\ Words \subseteq te[n] /\ \A t \in Words : v[n][t] = wt[t]
           Kept(n) == \A t \in te[n] : v[n + 1][t] = v[n][t]
           N == {n \in Nat : Made(n) /\ Typed(n) /\ Kept(n)}
<1>11. ASSUME NEW n \in Nat, Made(n), Typed(n)
       PROVE  Typed(n + 1)
  <2>1. ASSUME NEW t \in te[n + 1]
        PROVE  (IF t \in Words THEN wt[t] ELSE v[n][t[2]] + v[n][t[3]]) \in Nat
    <3>1. CASE t \in Words
      BY <1>0, <3>1
    <3>2. CASE t \notin Words
      <4>1. PICK a \in te[n], b \in te[n] : t = Parts!Hash(a, b)
        BY <1>11, <3>2
      <4>2. v[n][a] \in Nat /\ v[n][b] \in Nat /\ t[2] = a /\ t[3] = b
        BY <1>0, <1>11, <4>1
      <4> QED BY <3>2, <4>2
    <3> QED BY <3>1, <3>2
  <2>2. v[n + 1] \in [te[n + 1] -> Nat]
    <3>1. v[n + 1] = [t \in te[n + 1] |-> IF t \in Words THEN wt[t] ELSE v[n][t[2]] + v[n][t[3]]]
      BY <1>10
    <3> QED BY <2>1, <3>1
  <2>3. Words \subseteq te[n + 1]
    BY <1>4, <1>11
  <2>4. \A t \in Words : v[n + 1][t] = wt[t]
    BY <1>10, <2>3
  <2> QED BY <2>2, <2>3, <2>4
<1>12. 0 \in N
  <2>1. Made(0)
    BY <1>3, <1>4, <1>6
  <2>2. Typed(0)
    BY <1>0, <1>3, <1>9
  <2>3. Typed(1)
    BY <1>11, <2>1, <2>2
  <2>4. Kept(0)
    BY <1>3, <2>2, <2>3
  <2> QED BY <2>1, <2>2, <2>4
<1>13. ASSUME NEW n \in N
       PROVE  n + 1 \in N
  <2>1. n \in Nat /\ n + 1 \in Nat /\ Made(n) /\ Typed(n) /\ Kept(n)
    OBVIOUS
  <2>2. te[n] \subseteq te[n + 1]
    BY <1>4, <2>1
  <2>3. Made(n + 1)
    <3> SUFFICES ASSUME NEW t \in te[(n + 1) + 1]
                 PROVE  t \in Words \/ \E a, b \in te[n + 1] : t = Parts!Hash(a, b)
      OBVIOUS
    <3>1. t \in te[n + 1] \/ t \in Hashes(te[n + 1])
      BY <1>4, <2>1
    <3>2. CASE t \in te[n + 1]
      BY <2>1, <2>2, <3>2
    <3>3. CASE t \in Hashes(te[n + 1])
      BY <1>6, <3>3
    <3> QED BY <3>1, <3>2, <3>3
  <2>4. Typed(n + 1)
    BY <1>11, <2>1
  <2>5. Kept(n + 1)
    <3> SUFFICES ASSUME NEW t \in te[n + 1]
                 PROVE  v[(n + 1) + 1][t] = v[n + 1][t]
      OBVIOUS
    <3>1. t \in te[(n + 1) + 1]
      BY <1>4, <2>1
    <3>2. CASE t \in Words
      BY <1>10, <2>1, <3>1, <3>2
    <3>3. CASE t \notin Words
      <4>1. PICK a \in te[n], b \in te[n] : t = Parts!Hash(a, b)
        BY <2>1, <3>3
      <4>2. t[2] = a /\ t[3] = b
        BY <1>0, <4>1
      <4>3. v[n + 1][t] = v[n][a] + v[n][b]
        <5>1. v[n + 1] = [x \in te[n + 1] |-> IF x \in Words THEN wt[x] ELSE v[n][x[2]] + v[n][x[3]]]
          BY <1>10, <2>1
        <5> QED BY <3>3, <4>2, <5>1
      <4>4. v[(n + 1) + 1][t] = v[n + 1][a] + v[n + 1][b]
        <5>1. v[(n + 1) + 1] = [x \in te[(n + 1) + 1] |->
                                  IF x \in Words THEN wt[x] ELSE v[n + 1][x[2]] + v[n + 1][x[3]]]
          BY <1>10, <2>1
        <5> QED BY <3>1, <3>3, <4>2, <5>1
      <4>5. v[n + 1][a] = v[n][a] /\ v[n + 1][b] = v[n][b]
        BY <2>1
      <4> QED BY <4>3, <4>4, <4>5
    <3> QED BY <3>2, <3>3
  <2> QED BY <2>1, <2>3, <2>4, <2>5
<1> HIDE DEF Made, Typed, Kept
<1>14. N = Nat
  <2>1. N \in SUBSET Nat
    OBVIOUS
  <2> HIDE DEF N
  <2> QED BY <1>12, <1>13, <2>1, NatSet
<1> DEFINE Stays(n, k) == te[n] \subseteq te[n + k] /\ \A t \in te[n] : v[n + k][t] = v[n][t]
<1>15. ASSUME NEW n \in Nat, NEW k \in Nat
       PROVE  Stays(n, k)
  <2> DEFINE D == {d \in Nat : Stays(n, d)}
  <2>1. 0 \in D
    OBVIOUS
  <2>2. ASSUME NEW d \in D
        PROVE  d + 1 \in D
    <3>1. n + d \in Nat /\ n + (d + 1) = (n + d) + 1 /\ n + d \in N /\ Stays(n, d)
      BY <1>14
    <3>2. te[n + d] \subseteq te[n + (d + 1)]
      BY <1>4, <3>1
    <3>3. \A t \in te[n + d] : v[n + (d + 1)][t] = v[n + d][t]
      BY <3>1 DEF Kept
    <3> QED BY <3>1, <3>2, <3>3
  <2>3. D = Nat
    <3>1. D \in SUBSET Nat
      OBVIOUS
    <3> HIDE DEF D
    <3> QED BY <2>1, <2>2, <3>1, NatSet
  <2> QED BY <2>3
<1> DEFINE T == UNION {te[n] : n \in Nat}
           At(t) == CHOOSE n \in Nat : t \in te[n]
           w == [t \in T |-> v[At(t)][t]]
<1>16. ASSUME NEW n \in Nat, NEW t \in te[n]
       PROVE  t \in T /\ w[t] = v[n][t] /\ v[n][t] \in Nat
  <2>1. t \in T
    OBVIOUS
  <2>2. At(t) \in Nat /\ t \in te[At(t)]
    OBVIOUS
  <2>3. v[At(t)][t] = v[n][t]
    <3> DEFINE k == At(t)
    <3> HIDE DEF At
    <3>1. CASE k <= n
      <4>1. n - k \in Nat /\ k + (n - k) = n
        BY <2>2, <3>1
      <4>2. Stays(k, n - k)
        BY <1>15, <2>2, <4>1
      <4> QED BY <2>2, <4>1, <4>2
    <3>2. CASE n <= k
      <4>1. k - n \in Nat /\ n + (k - n) = k
        BY <2>2, <3>2
      <4>2. Stays(n, k - n)
        BY <1>15, <4>1
      <4> QED BY <4>1, <4>2
    <3> QED BY <2>2, <3>1, <3>2
  <2>4. v[n][t] \in Nat
    BY <1>14 DEF Typed
  <2> QED BY <2>1, <2>3, <2>4
<1>17. \A t \in T : \E n \in Nat : t \in te[n]
  OBVIOUS
<1>w. w = [t \in T |-> w[t]]
  OBVIOUS
<1> HIDE DEF w, T, N
<1>18. w \in [T -> Nat]
  BY <1>w, <1>16, <1>17
<1>19. \A t \in Words : t \in T /\ w[t] = wt[t]
  BY <1>3, <1>9, <1>16
<1>20. ASSUME NEW a \in T, NEW b \in T
       PROVE  Parts!Hash(a, b) \in T /\ w[Parts!Hash(a, b)] = w[a] + w[b]
  <2>1. PICK i \in Nat, j \in Nat : a \in te[i] /\ b \in te[j]
    BY <1>17
  <2> DEFINE k == i + j  h == Parts!Hash(a, b)
  <2>2. k \in Nat /\ k + 1 \in Nat /\ a \in te[k] /\ b \in te[k]
    <3>1. Stays(i, j) /\ Stays(j, i) /\ i + j = j + i
      BY <1>15
    <3> QED BY <2>1, <3>1
  <2> HIDE DEF k
  <2>3. h \in te[k + 1] /\ h \notin Words /\ h[2] = a /\ h[3] = b
    <3>1. h \in Hashes(te[k])
      BY <1>5, <2>2
    <3>2. te[k + 1] = te[k] \cup Hashes(te[k])
      BY <1>4, <2>2
    <3>3. h \notin Words /\ h[2] = a /\ h[3] = b
      BY <1>0
    <3> QED BY <3>1, <3>2, <3>3
  <2> HIDE DEF h
  <2>4. v[k + 1][h] = v[k][a] + v[k][b]
    <3>1. v[k + 1] = [t \in te[k + 1] |-> IF t \in Words THEN wt[t] ELSE v[k][t[2]] + v[k][t[3]]]
      BY <1>10, <2>2
    <3> QED BY <2>3, <3>1
  <2>5. w[h] = v[k + 1][h] /\ w[a] = v[k][a] /\ w[b] = v[k][b] /\ h \in T
    BY <1>16, <2>2, <2>3
  <2> QED BY <2>4, <2>5 DEF h
<1>21. Weighs(T, w, S)
  BY <1>0, <1>18, <1>19, <1>20 DEF Weighs
<1> QED BY <1>21

-----------------------------------------------------------------------------
(* Recovering from parts. *)

\* What the variables hold, and how far the loops are.
PartsTypes ==
  /\ config \in [threshold : Thresholds, members : Members]
  /\ signers \in SUBSET Addresses /\ threshold \in Thresholds
  /\ {leaves, index, nodes, level, weight} \subseteq Nat /\ honest \in BOOLEAN
  /\ workspace = [k \in 1 .. leaves |-> workspace[k]]
  /\ phase = "parts" => index <= leaves /\ nodes = leaves /\ level = 0
  /\ phase = "tree" =>
       /\ nodes <= leaves /\ (nodes = 0 => leaves = 0)
       /\ index <= Parts!NextNodes /\ (nodes <= 1 => index = 0)
  /\ phase = "done" => nodes = 1 /\ index = 0 /\ leaves > 0

\* What a node is made of: itself, nothing, or two words that are the children where
\* those are not empty, and else of the witness, which is honest or is not.
Combines(word) ==
  \/ ~ Parts!HasNeighbour /\ word = Parts!NodeA
  \/ /\ Parts!HasNeighbour
     /\ Parts!NodeA = Parts!Zero /\ Parts!NodeB = Parts!Zero /\ word = Parts!Zero
  \/ /\ Parts!HasNeighbour
     /\ \E a, b \in Parts!WitnessWords(config) \cup {Parts!NodeA, Parts!NodeB} :
          /\ word = Parts!Hash(a, b)
          /\ IF Parts!NodeA # Parts!Zero THEN a = Parts!NodeA
             ELSE honest' => a = Parts!Levels(config.members)[level][2 * index + 1]
          /\ IF Parts!NodeB # Parts!Zero THEN b = Parts!NodeB
             ELSE honest' => b = Parts!Levels(config.members)[level][2 * index + 2]

NodeStep ==
  \/ Parts!MoveUp \/ Parts!BothEmpty \/ Parts!JoinFull
  \/ Parts!AtNode /\ \E word \in Parts!WitnessWords(config) : Parts!JoinWithWitness(word)

\* Each way to fill a node in is one of these.
LEMMA NodesCombine ==
  ASSUME NodeStep
  PROVE  /\ Parts!AtNode /\ (honest' => honest)
         /\ \E word : Parts!SetNode(word) /\ Combines(word)
<1>1. CASE Parts!MoveUp
  BY <1>1 DEF Parts!MoveUp, Combines
<1>2. CASE Parts!BothEmpty
  BY <1>2 DEF Parts!BothEmpty, Combines
<1>3. CASE Parts!JoinFull
  <2>1. Parts!Join(Parts!NodeA, Parts!NodeB, Parts!Zero) = Parts!Hash(Parts!NodeA, Parts!NodeB)
    BY <1>3 DEF Parts!JoinFull, Parts!Join
  <2>2. Combines(Parts!Hash(Parts!NodeA, Parts!NodeB))
    BY <1>3 DEF Parts!JoinFull, Combines
  <2> QED BY <1>3, <2>1, <2>2 DEF Parts!JoinFull
<1>4. ASSUME NEW word \in Parts!WitnessWords(config), Parts!JoinWithWitness(word)
      PROVE  /\ Parts!AtNode /\ (honest' => honest)
             /\ \E x : Parts!SetNode(x) /\ Combines(x)
  <2> DEFINE x == Parts!Join(Parts!NodeA, Parts!NodeB, word)
  <2>1. /\ Parts!AtNode /\ Parts!HasNeighbour /\ Parts!SetNode(x)
        /\ (Parts!NodeA = Parts!Zero) # (Parts!NodeB = Parts!Zero)
        /\ honest' = (honest /\ word = Parts!Levels(config.members)[level]
                                  [IF Parts!NodeA = Parts!Zero THEN 2 * index + 1 ELSE 2 * index + 2])
    BY <1>4 DEF Parts!JoinWithWitness
  <2>2. CASE Parts!NodeA = Parts!Zero
    <3>1. x = Parts!Hash(word, Parts!NodeB) /\ Parts!NodeB # Parts!Zero
      BY <2>1, <2>2 DEF Parts!Join
    <3>2. honest' => word = Parts!Levels(config.members)[level][2 * index + 1]
      BY <2>1, <2>2
    <3>3. Combines(x)
      BY <2>1, <2>2, <3>1, <3>2 DEF Combines
    <3> QED BY <2>1, <3>3
  <2>3. CASE Parts!NodeA # Parts!Zero
    <3>1. x = Parts!Hash(Parts!NodeA, word) /\ Parts!NodeB = Parts!Zero
      BY <2>1, <2>3 DEF Parts!Join
    <3>2. honest' => word = Parts!Levels(config.members)[level][2 * index + 2]
      BY <2>1, <2>3
    <3>3. Combines(x)
      BY <2>1, <2>3, <3>1, <3>2 DEF Combines
    <3> QED BY <2>1, <3>3
  <2> QED BY <2>2, <2>3
<1> QED BY <1>1, <1>2, <1>3, <1>4 DEF NodeStep

\* A part is empty, one of a member, or ends the call.
PartStep ==
  \/ Parts!EmptyLeaf \/ Parts!BadPart
  \/ \E m \in Parts!Member :
       Parts!AddressLeaf(m) \/ Parts!SignatureLeaf(m) \/ Parts!DynamicLeaf(m)

Reverts ==
  /\ phase' = "reverted"
  /\ UNCHANGED <<config, signers, threshold, leaves, workspace, weight, index, nodes, honest, level>>

LEMMA PartsFill ==
  ASSUME PartStep
  PROVE  /\ Parts!AtPart
         /\ \/ Reverts
            \/ Parts!EmptyLeaf
            \/ \E m \in Parts!Member :
                 \E gained \in {0, IF m.address \in signers THEN m.weight ELSE 0} :
                   Parts!NextPart(m, gained)
  BY DEF PartStep, Parts!EmptyLeaf, Parts!BadPart, Parts!AddressLeaf, Parts!SignatureLeaf,
         Parts!DynamicLeaf, Parts!Gain, Reverts, Parts!claim

LEMMA PartsNext ==
  Parts!Next <=> PartStep \/ NodeStep \/ Parts!EndParts \/ Parts!NextLevel \/ Parts!EndTree
  BY DEF Parts!Next, PartStep, NodeStep

LEMMA PartsTypesNext ==
  ASSUME PartsTypes, Parts!Next
  PROVE  PartsTypes'
<1> USE DEF Parts!claim
<1>n. Parts!NextNodes \in Nat /\ (nodes > 1 => Parts!NextNodes < nodes /\ Parts!NextNodes > 0)
      /\ (nodes <= 1 => Parts!NextNodes = nodes)
  BY DEF PartsTypes, Parts!NextNodes
<1>w. \A m \in Parts!Member : m.weight \in Nat
  BY PartsAssumption DEF Parts!MemberAssumption, Parts!Member
<1>1. CASE PartStep
  <2>1. CASE Reverts
    BY <2>1 DEF Reverts, PartsTypes
  <2>2. CASE Parts!EmptyLeaf
    BY <2>2 DEF PartsTypes, Parts!EmptyLeaf, Parts!AtPart
  <2>3. ASSUME NEW m \in Parts!Member,
               NEW gained \in {0, IF m.address \in signers THEN m.weight ELSE 0},
               Parts!AtPart, Parts!NextPart(m, gained)
        PROVE  PartsTypes'
    <3>1. weight + gained \in Nat
      BY <1>w DEF PartsTypes
    <3>2. honest' \in BOOLEAN
      BY <2>3 DEF Parts!NextPart
    <3>3. workspace' = [k \in 1 .. leaves' |-> workspace'[k]]
      BY <2>3 DEF PartsTypes, Parts!NextPart
    <3>4. index + 1 \in Nat /\ index + 1 <= leaves
      BY <2>3 DEF PartsTypes, Parts!AtPart
    <3> QED BY <2>3, <3>1, <3>2, <3>3, <3>4 DEF PartsTypes, Parts!AtPart, Parts!NextPart
  <2> QED BY <1>1, <2>1, <2>2, <2>3, PartsFill
<1>2. CASE NodeStep
  <2>1. PICK word : Parts!SetNode(word)
    BY <1>2, NodesCombine
  <2>2. Parts!AtNode /\ honest' \in BOOLEAN
    <3>1. honest' = honest \/ honest' \in BOOLEAN
      <4>1. CASE Parts!MoveUp \/ Parts!BothEmpty \/ Parts!JoinFull
        BY <4>1 DEF Parts!MoveUp, Parts!BothEmpty, Parts!JoinFull
      <4>2. CASE \E x : Parts!JoinWithWitness(x)
        BY <4>2 DEF Parts!JoinWithWitness
      <4> QED BY <1>2, <4>1, <4>2 DEF NodeStep
    <3>2. honest \in BOOLEAN
      BY DEF PartsTypes
    <3>3. Parts!AtNode
      BY <1>2, NodesCombine
    <3> QED BY <3>1, <3>2, <3>3
  <2>3. workspace' = [k \in 1 .. leaves' |-> workspace'[k]]
    BY <2>1 DEF PartsTypes, Parts!SetNode
  <2>4. index' \in Nat /\ index' <= Parts!NextNodes /\ Parts!NextNodes' = Parts!NextNodes
    BY <1>n, <2>1, <2>2 DEF PartsTypes, Parts!AtNode, Parts!SetNode, Parts!NextNodes
  <2>5. phase = "tree" /\ phase' = "tree" /\ nodes > 1
    BY <2>1, <2>2 DEF Parts!AtNode, Parts!SetNode
  <2>6. UNCHANGED <<config, signers, threshold, leaves, weight, nodes, level>>
    BY <2>1 DEF Parts!SetNode
  <2> QED BY <2>2, <2>3, <2>4, <2>5, <2>6 DEF PartsTypes
<1>3. CASE Parts!EndParts
  BY <1>3 DEF PartsTypes, Parts!EndParts, Parts!NextNodes
<1>4. CASE Parts!NextLevel
  BY <1>n, <1>4, SMTT(30) DEF PartsTypes, Parts!NextLevel, Parts!NextNodes
<1>5. CASE Parts!EndTree
  BY <1>5 DEF PartsTypes, Parts!EndTree
<1> QED BY <1>1, <1>2, <1>3, <1>4, <1>5, PartsNext

LEMMA PartsTypesInit == Parts!Init => PartsTypes
  BY PartsAssumption DEF Parts!Init, PartsTypes, Parts!MemberAssumption

\* A node of the level above, and how many there are.
LEMMA LevelUp ==
  ASSUME NEW m \in Seq(Parts!Member), m # <<>>, NEW n \in 0 .. Len(m) - 1
  PROVE  LET tree == Parts!Levels(m)
             k == Size(tree, n)
         IN  /\ Size(tree, n + 1) = (k + 1) \div 2
             /\ \A i \in 1 .. (k + 1) \div 2 :
                  tree[n + 1][i] = IF 2 * i > k THEN tree[n][2 * i - 1]
                                   ELSE Parts!Hash(tree[n][2 * i - 1], tree[n][2 * i])
<1> DEFINE tree == Parts!Levels(m)
           k == Size(tree, n)
           half == (k + 1) \div 2
<1>1. /\ k \in Nat \ {0} /\ tree[n] = [i \in 1 .. k |-> tree[n][i]]
      /\ tree[n + 1] = Parts!Above(tree[n])
  <2>1. Len(m) \in Nat /\ n \in 0 .. Len(m)
    OBVIOUS
  <2> QED BY <2>1, LevelFacts
<1> HIDE DEF k, tree
<1>2. /\ Parts!Above(tree[n]) = [i \in 1 .. half |-> Parts!Above(tree[n])[i]] /\ half \in Nat \ {0}
      /\ \A i \in 1 .. half :
           Parts!Above(tree[n])[i] = IF 2 * i > k THEN tree[n][2 * i - 1]
                                     ELSE Parts!Hash(tree[n][2 * i - 1], tree[n][2 * i])
  BY <1>1, AboveIs
<1>3. Size(tree, n + 1) = half
  BY <1>1, <1>2, LengthOf DEF Size
<1> QED BY <1>1, <1>2, <1>3 DEF k, tree

\* A level of one node is moved up as it is.
LEMMA LevelTop ==
  ASSUME NEW m \in Seq(Parts!Member), m # <<>>, NEW n \in 0 .. Len(m),
         Size(Parts!Levels(m), n) = 1
  PROVE  Parts!Levels(m)[Len(m)][1] = Parts!Levels(m)[n][1]
<1> DEFINE tree == Parts!Levels(m)
           Is(d) == Size(tree, n + d) = 1 /\ tree[n + d][1] = tree[n][1]
           T == {d \in Nat : n + d <= Len(m) => Is(d)}
<1>1. 0 \in T
  OBVIOUS
<1>2. ASSUME NEW d \in T
      PROVE  d + 1 \in T
  <2> SUFFICES ASSUME n + (d + 1) <= Len(m)
               PROVE  Is(d + 1)
    OBVIOUS
  <2>1. Is(d) /\ n + d \in 0 .. Len(m) - 1 /\ n + (d + 1) = (n + d) + 1
    OBVIOUS
  <2> HIDE DEF T, tree
  <2>2. Size(tree, (n + d) + 1) = 1 /\ tree[(n + d) + 1][1] = tree[n + d][1]
    BY <2>1, LevelUp DEF tree
  <2> QED BY <2>1, <2>2
<1>3. T = Nat
  <2> HIDE DEF T
  <2>1. T \subseteq Nat
    BY DEF T
  <2> QED BY <1>1, <1>2, <2>1, NatSet
<1>4. Len(m) - n \in T /\ n + (Len(m) - n) = Len(m)
  <2> HIDE DEF T
  <2> QED BY <1>3
<1> QED BY <1>4

-----------------------------------------------------------------------------
(* Members left out. *)

Tree == Parts!Levels(config.members)

\* While all is honest, a word of the workspace is that of the tree, or empty.
LeftOut ==
  honest =>
    /\ threshold = config.threshold /\ leaves = Len(config.members)
    /\ phase = "parts" => \A k \in 1 .. leaves : workspace[k] \in {Parts!Zero, Tree[0][k]}
    /\ phase \in {"tree", "done"} =>
         /\ level <= Len(config.members) /\ nodes = Size(Tree, level)
         /\ \A k \in 1 .. nodes :
              workspace[k] \in {Parts!Zero,
                                IF k <= index THEN Tree[level + 1][k] ELSE Tree[level][k]}

LEMMA LeftOutInit == Parts!Init => LeftOut
  BY PartsAssumption DEF Parts!Init, LeftOut

\* What a list of members is.
LEMMA MembersAre ==
  ASSUME PartsTypes
  PROVE  /\ config.members \in Seq(Parts!Member) /\ config.members # <<>>
         /\ Len(config.members) \in Nat \ {0}
         /\ \A i \in 1 .. Len(config.members) : config.members[i] \in Parts!Member
<1>1. config.members \in Members
  BY DEF PartsTypes
<1>2. config.members \in Seq(Parts!Member) /\ config.members # <<>>
  BY <1>1, PartsAssumption DEF Parts!MemberAssumption
<1> QED BY <1>2

LEMMA LeftOutNext ==
  ASSUME PartsTypes, LeftOut, Parts!Next
  PROVE  LeftOut'
<1> DEFINE L == Len(config.members)
<1>m. config.members \in Seq(Parts!Member) /\ config.members # <<>> /\ L \in Nat \ {0}
  BY MembersAre
<1>1. CASE PartStep
  <2>1. CASE Reverts
    BY <2>1 DEF Reverts, LeftOut, Tree
  <2>2. CASE Parts!EmptyLeaf
    BY <2>2 DEF LeftOut, Parts!EmptyLeaf, Parts!AtPart, Parts!claim, Tree
  <2>3. ASSUME NEW m \in Parts!Member,
               NEW gained \in {0, IF m.address \in signers THEN m.weight ELSE 0},
               Parts!AtPart, Parts!NextPart(m, gained), honest'
        PROVE  LeftOut'
    <3>1. honest /\ m = config.members[index + 1]
      BY <2>3 DEF Parts!NextPart
    <3>2. /\ phase = "parts" /\ phase' = "parts" /\ index + 1 \in 1 .. leaves /\ leaves \in Nat
          /\ UNCHANGED <<config, threshold, leaves>>
          /\ workspace = [k \in 1 .. leaves |-> workspace[k]]
          /\ workspace' = [workspace EXCEPT ![index + 1] = Parts!Leaf(m)]
      BY <2>3 DEF PartsTypes, Parts!AtPart, Parts!NextPart, Parts!claim
    <3>3. /\ threshold = config.threshold /\ leaves = L
          /\ \A k \in 1 .. leaves : workspace[k] \in {Parts!Zero, Tree[0][k]}
      BY <3>1, <3>2 DEF LeftOut
    <3>4. \A k \in 1 .. L : Tree[0][k] = Parts!Leaf(config.members[k])
      <4>1. Tree[0] = [i \in 1 .. L |-> Parts!Leaf(config.members[i])]
        BY <1>m, LevelFacts DEF Tree
      <4> QED BY <4>1
    <3>5. Tree' = Tree
      BY <3>2 DEF Tree
    <3>6. Parts!Leaf(m) = Tree[0][index + 1]
      BY <3>1, <3>2, <3>3, <3>4
    <3>7. \A k \in 1 .. leaves : workspace'[k] \in {Parts!Zero, Tree[0][k]}
      BY <3>2, <3>3, <3>6
    <3> QED BY <3>2, <3>3, <3>5, <3>7 DEF LeftOut
  <2>4. CASE ~ honest'
    BY <2>4 DEF LeftOut
  <2> QED BY <1>1, <2>1, <2>2, <2>3, <2>4, PartsFill
<1>2. CASE NodeStep /\ honest'
  <2>1. Parts!AtNode /\ honest /\ \E word : Parts!SetNode(word) /\ Combines(word)
    BY <1>2, NodesCombine
  <2>2. PICK word : Parts!SetNode(word) /\ Combines(word)
    BY <2>1
  <2> DEFINE i == index + 1
             up == (nodes + 1) \div 2
  <2>3. /\ phase = "tree" /\ phase' = "tree" /\ nodes > 1 /\ index \in Nat /\ i \in 1 .. up
        /\ nodes \in Nat /\ level \in Nat /\ leaves \in Nat /\ nodes <= leaves
        /\ index' = i
        /\ UNCHANGED <<config, threshold, leaves, nodes, level>>
        /\ workspace = [k \in 1 .. leaves |-> workspace[k]]
        /\ workspace' = [workspace EXCEPT ![i] = word]
    <3>1. phase = "tree" /\ nodes > 1 /\ index < up
      BY <2>1 DEF Parts!AtNode, Parts!NextNodes
    <3>2. /\ {index, nodes, level, leaves} \subseteq Nat /\ nodes <= leaves
          /\ workspace = [k \in 1 .. leaves |-> workspace[k]]
      BY <3>1 DEF PartsTypes
    <3>3. /\ phase' = phase /\ index' = i
          /\ UNCHANGED <<config, threshold, leaves, nodes, level>>
          /\ workspace' = [workspace EXCEPT ![i] = word]
      BY <2>2 DEF Parts!SetNode, Parts!claim
    <3>4. i \in 1 .. up
      BY <3>1, <3>2
    <3> QED BY <3>1, <3>2, <3>3, <3>4
  <2>4. /\ threshold = config.threshold /\ leaves = L /\ level <= L /\ nodes = Size(Tree, level)
        /\ \A k \in 1 .. nodes :
             workspace[k] \in {Parts!Zero,
                               IF k <= index THEN Tree[level + 1][k] ELSE Tree[level][k]}
    BY <2>1, <2>3 DEF LeftOut
  <2>5. level \in 0 .. L - 1
    <3>1. level \in 0 .. L
      BY <1>m, <2>3, <2>4
    <3>2. Size(Tree, level) = 1 \/ Size(Tree, level) + level <= L
      BY <1>m, <3>1, LevelFacts DEF Tree
    <3> QED BY <1>m, <2>3, <2>4, <3>1, <3>2
  <2>6. Tree[level + 1][i] = IF 2 * i > nodes THEN Tree[level][2 * i - 1]
                             ELSE Parts!Hash(Tree[level][2 * i - 1], Tree[level][2 * i])
    <3> HIDE DEF i
    <3> QED BY <1>m, <2>3, <2>4, <2>5, LevelUp DEF Tree
  <2>7. /\ 2 * index + 1 = 2 * i - 1 /\ 2 * index + 2 = 2 * i
        /\ (Parts!HasNeighbour <=> ~ 2 * i > nodes)
        /\ 2 * i - 1 \in 1 .. nodes /\ ~ 2 * i - 1 <= index /\ ~ 2 * i <= index
        /\ i \in 1 .. leaves
    BY <2>3, SMTT(30) DEF Parts!HasNeighbour
  <2>8. Parts!NodeA \in {Parts!Zero, Tree[level][2 * i - 1]}
    <3> DEFINE k == 2 * i - 1
    <3>1. k \in 1 .. nodes /\ ~ k <= index /\ Parts!NodeA = workspace[k]
      BY <2>7 DEF Parts!NodeA
    <3> HIDE DEF k
    <3>2. Parts!NodeA \in {Parts!Zero, Tree[level][k]}
      BY <2>4, <3>1
    <3> QED BY <3>2 DEF k
  <2>9. Parts!HasNeighbour => Parts!NodeB \in {Parts!Zero, Tree[level][2 * i]}
    <3> DEFINE k == 2 * i
    <3>1. Parts!HasNeighbour => k \in 1 .. nodes
      BY <2>3, <2>7, SMTT(30)
    <3>2. ~ k <= index /\ Parts!NodeB = workspace[k]
      BY <2>7 DEF Parts!NodeB
    <3> HIDE DEF k
    <3>3. Parts!HasNeighbour => Parts!NodeB \in {Parts!Zero, Tree[level][k]}
      BY <2>4, <3>1, <3>2
    <3> QED BY <3>3 DEF k
  <2>10. word \in {Parts!Zero, Tree[level + 1][i]}
    <3>1. CASE ~ Parts!HasNeighbour
      BY <2>2, <2>6, <2>7, <2>8, <3>1 DEF Combines
    <3>2. CASE word = Parts!Zero
      BY <3>2
    <3>3. ASSUME NEW a, NEW b, Parts!HasNeighbour,
                 word = Parts!Hash(a, b),
                 IF Parts!NodeA # Parts!Zero THEN a = Parts!NodeA
                 ELSE honest' => a = Parts!Levels(config.members)[level][2 * index + 1],
                 IF Parts!NodeB # Parts!Zero THEN b = Parts!NodeB
                 ELSE honest' => b = Parts!Levels(config.members)[level][2 * index + 2]
          PROVE  word = Tree[level + 1][i]
      <4>1. a = Tree[level][2 * i - 1]
        BY <1>2, <2>7, <2>8, <3>3 DEF Tree
      <4>2. b = Tree[level][2 * i]
        BY <1>2, <2>7, <2>9, <3>3 DEF Tree
      <4> QED BY <2>6, <2>7, <3>3, <4>1, <4>2
    <3> QED BY <2>2, <3>1, <3>2, <3>3 DEF Combines
  <2>11. Tree' = Tree
    BY <2>3 DEF Tree
  <2>12. \A k \in 1 .. nodes :
           workspace'[k] \in {Parts!Zero, IF k <= i THEN Tree[level + 1][k] ELSE Tree[level][k]}
    <3> SUFFICES ASSUME NEW k \in 1 .. nodes
                 PROVE  workspace'[k] \in {Parts!Zero,
                          IF k <= i THEN Tree[level + 1][k] ELSE Tree[level][k]}
      OBVIOUS
    <3>1. CASE k = i
      BY <2>3, <2>7, <2>10, <3>1
    <3>2. CASE k # i
      <4>1. workspace'[k] = workspace[k]
        BY <2>3, <3>2
      <4>2. k <= i <=> k <= index
        BY <2>3, <3>2
      <4> QED BY <2>4, <4>1, <4>2
    <3> QED BY <3>1, <3>2
  <2> QED BY <2>3, <2>4, <2>11, <2>12 DEF LeftOut
<1>3. CASE Parts!EndParts /\ honest'
  <2>1. /\ phase = "parts" /\ phase' = "tree" /\ index' = 0 /\ honest
        /\ UNCHANGED <<config, threshold, leaves, workspace, nodes, level>>
        /\ nodes = leaves /\ level = 0 /\ nodes \in Nat
    BY <1>3 DEF Parts!EndParts, PartsTypes, Parts!claim
  <2>2. /\ threshold = config.threshold /\ leaves = L
        /\ \A k \in 1 .. leaves : workspace[k] \in {Parts!Zero, Tree[0][k]}
    BY <2>1 DEF LeftOut
  <2>3. Size(Tree, 0) = L
    BY <1>m, LevelFacts DEF Tree
  <2>4. Tree' = Tree
    BY <2>1 DEF Tree
  <2>5. \A k \in 1 .. nodes :
          workspace'[k] \in {Parts!Zero,
                             IF k <= 0 THEN Tree[level + 1][k] ELSE Tree[level][k]}
    BY <2>1, <2>2
  <2> QED BY <1>m, <2>1, <2>2, <2>3, <2>4, <2>5 DEF LeftOut
<1>4. CASE Parts!NextLevel /\ honest'
  <2>1. /\ phase = "tree" /\ phase' = "tree" /\ index = Parts!NextNodes /\ nodes' = Parts!NextNodes
        /\ nodes > 1 /\ index' = 0 /\ honest /\ level' = level + 1
        /\ UNCHANGED <<config, threshold, leaves, workspace>>
        /\ nodes \in Nat /\ level \in Nat /\ Parts!NextNodes \in Nat
        /\ Parts!NextNodes = (nodes + 1) \div 2 /\ Parts!NextNodes <= nodes
    BY <1>4 DEF Parts!NextLevel, PartsTypes, Parts!claim, Parts!NextNodes
  <2>2. /\ threshold = config.threshold /\ leaves = L /\ level <= L /\ nodes = Size(Tree, level)
        /\ \A k \in 1 .. nodes :
             workspace[k] \in {Parts!Zero,
                               IF k <= index THEN Tree[level + 1][k] ELSE Tree[level][k]}
    BY <2>1 DEF LeftOut
  <2>3. level \in 0 .. L - 1
    <3>1. level \in 0 .. L
      BY <1>m, <2>1, <2>2
    <3>2. Size(Tree, level) = 1 \/ Size(Tree, level) + level <= L
      BY <1>m, <3>1, LevelFacts DEF Tree
    <3> QED BY <1>m, <2>1, <2>2, <3>1, <3>2
  <2>4. Size(Tree, level + 1) = Parts!NextNodes
    BY <1>m, <2>1, <2>2, <2>3, LevelUp DEF Tree
  <2>5. Tree' = Tree
    BY <2>1 DEF Tree
  <2>6. \A k \in 1 .. Parts!NextNodes : workspace[k] \in {Parts!Zero, Tree[level + 1][k]}
    BY <2>1, <2>2, SMTT(30)
  <2>7. \A k \in 1 .. nodes' :
          workspace'[k] \in {Parts!Zero,
                             IF k <= 0 THEN Tree[level' + 1][k] ELSE Tree[level'][k]}
    BY <2>1, <2>6
  <2>8. level' <= L /\ nodes' = Size(Tree, level')
    BY <1>m, <2>1, <2>3, <2>4
  <2> QED BY <2>1, <2>2, <2>5, <2>7, <2>8 DEF LeftOut
<1>5. CASE Parts!EndTree
  BY <1>5 DEF LeftOut, Parts!EndTree, Parts!claim, Tree
<1>6. CASE ~ honest'
  BY <1>6 DEF LeftOut
<1> QED BY <1>1, <1>2, <1>3, <1>4, <1>5, <1>6, PartsNext

LEMMA LeftOutEnd ==
  ASSUME PartsTypes, LeftOut
  PROVE  Parts!MembersMayBeLeftOut
<1> SUFFICES ASSUME phase = "done", honest, workspace[1] # Parts!Zero
             PROVE  Parts!Recovered = Parts!ConfigImage(config)
  BY DEF Parts!MembersMayBeLeftOut
<1>m. /\ config.members \in Seq(Parts!Member) /\ config.members # <<>>
      /\ Len(config.members) \in Nat \ {0}
  BY MembersAre
<1>1. nodes = 1 /\ index = 0 /\ level \in Nat
  BY DEF PartsTypes
<1>2. /\ threshold = config.threshold /\ level <= Len(config.members) /\ Size(Tree, level) = 1
      /\ workspace[1] = Tree[level][1]
  BY <1>1 DEF LeftOut
<1>3. Tree[Len(config.members)][1] = Tree[level][1]
  BY <1>m, <1>1, <1>2, LevelTop DEF Tree
<1> QED BY <1>2, <1>3 DEF Parts!Recovered, Parts!ConfigImage, Tree

-----------------------------------------------------------------------------
(* The weight of a tree. *)

\* The weights of the nodes of a level.
LevelWeights(tree, n, w) == [k \in Nat |-> IF k \in 1 .. Size(tree, n) THEN w[tree[n][k]] ELSE 0]

\* The words of a tree have weights.
LEMMA TreeWords ==
  ASSUME NEW S, NEW T, NEW w, Weighs(T, w, S), NEW m \in Seq(Parts!Member), m # <<>>
  PROVE  \A n \in 0 .. Len(m) : \A k \in 1 .. Size(Parts!Levels(m), n) : Parts!Levels(m)[n][k] \in T
<1> DEFINE tree == Parts!Levels(m)
           N(n) == Size(tree, n)
           In(n) == \A k \in 1 .. N(n) : tree[n][k] \in T
           D == {n \in Nat : n <= Len(m) => In(n)}
<1>m. Len(m) \in Nat /\ \A k \in 1 .. Len(m) : m[k] \in Parts!Member
  OBVIOUS
<1>1. 0 \in D
  <2>1. N(0) = Len(m) /\ tree[0] = [i \in 1 .. Len(m) |-> Parts!Leaf(m[i])]
    BY LevelFacts
  <2>2. \A k \in 1 .. Len(m) : Parts!Leaf(m[k]) \in T
    BY <1>m DEF Weighs
  <2> HIDE DEF N, tree
  <2> QED BY <2>1, <2>2
<1>2. ASSUME NEW n \in D
      PROVE  n + 1 \in D
  <2> SUFFICES ASSUME n + 1 <= Len(m)
               PROVE  In(n + 1)
    OBVIOUS
  <2>1. In(n) /\ n \in 0 .. Len(m) - 1 /\ n \in 0 .. Len(m)
    BY <1>m
  <2>2. /\ N(n + 1) = (N(n) + 1) \div 2
        /\ \A i \in 1 .. (N(n) + 1) \div 2 :
             tree[n + 1][i] = IF 2 * i > N(n) THEN tree[n][2 * i - 1]
                              ELSE Parts!Hash(tree[n][2 * i - 1], tree[n][2 * i])
    BY <2>1, LevelUp
  <2>3. N(n) \in Nat
    BY <2>1, LevelFacts
  <2> HIDE DEF D, tree, N
  <2> SUFFICES ASSUME NEW i \in 1 .. N(n + 1)
               PROVE  tree[n + 1][i] \in T
    BY DEF In
  <2>4. /\ i \in 1 .. (N(n) + 1) \div 2 /\ 2 * i - 1 \in 1 .. N(n)
        /\ ~ 2 * i > N(n) => 2 * i \in 1 .. N(n)
    BY <2>2, <2>3
  <2>5. /\ tree[n][2 * i - 1] \in T
        /\ ~ 2 * i > N(n) => tree[n][2 * i] \in T
    BY <2>1, <2>4 DEF In
  <2>6. \A a, b \in T : Parts!Hash(a, b) \in T
    BY DEF Weighs
  <2> QED BY <2>2, <2>4, <2>5, <2>6
<1>3. D = Nat
  <2> HIDE DEF D
  <2>1. D \subseteq Nat
    BY DEF D
  <2> QED BY <1>1, <1>2, <2>1, NatSet
<1> SUFFICES ASSUME NEW n \in 0 .. Len(m)
             PROVE  In(n)
  OBVIOUS
<1>4. n \in D
  <2> HIDE DEF D
  <2> QED BY <1>m, <1>3
<1> QED BY <1>4

\* Each level weighs what the one below it weighs.
LEMMA LevelsWeigh ==
  ASSUME NEW S, NEW T, NEW w, Weighs(T, w, S), NEW m \in Seq(Parts!Member), m # <<>>,
         NEW n \in 0 .. Len(m) - 1
  PROVE  LET tree == Parts!Levels(m)
             sum(k) == SumTo(LevelWeights(tree, k, w))[Size(tree, k)]
         IN  sum(n + 1) = sum(n)
<1> DEFINE tree == Parts!Levels(m)
           s == Size(tree, n)
           up == Size(tree, n + 1)
           f == LevelWeights(tree, n, w)
           g == LevelWeights(tree, n + 1, w)
           F == SumTo(f)
           G == SumTo(g)
           Upto(k) == IF 2 * k <= s THEN 2 * k ELSE s
           D == {k \in Nat : k <= up => G[k] = F[Upto(k)]}
<1>m. Len(m) \in Nat /\ n \in 0 .. Len(m) /\ n + 1 \in 0 .. Len(m)
  OBVIOUS
<1>s. s \in Nat \ {0}
  BY <1>m, LevelFacts
<1>u. /\ up = (s + 1) \div 2
      /\ \A i \in 1 .. (s + 1) \div 2 :
           tree[n + 1][i] = IF 2 * i > s THEN tree[n][2 * i - 1]
                            ELSE Parts!Hash(tree[n][2 * i - 1], tree[n][2 * i])
  BY LevelUp
<1>t. /\ \A k \in 1 .. s : tree[n][k] \in T
      /\ \A k \in 1 .. up : tree[n + 1][k] \in T
  BY <1>m, TreeWords
<1>w. /\ w \in [T -> Nat]
      /\ \A a, b \in T : Parts!Hash(a, b) \in T /\ w[Parts!Hash(a, b)] = w[a] + w[b]
  BY DEF Weighs
<1> HIDE DEF tree
<1>f. f \in [Nat -> Nat] /\ \A k \in 1 .. s : f[k] = w[tree[n][k]]
  <2> HIDE DEF s
  <2>1. f = [k \in Nat |-> IF k \in 1 .. s THEN w[tree[n][k]] ELSE 0]
    BY DEF LevelWeights, s
  <2>2. \A k \in 1 .. s : w[tree[n][k]] \in Nat /\ k \in Nat
    BY <1>t, <1>w, <1>s
  <2> HIDE DEF f
  <2> QED BY <2>1, <2>2
<1>g. g \in [Nat -> Nat] /\ \A k \in 1 .. up : g[k] = w[tree[n + 1][k]]
  <2> HIDE DEF up
  <2>1. g = [k \in Nat |-> IF k \in 1 .. up THEN w[tree[n + 1][k]] ELSE 0]
    BY DEF LevelWeights, up
  <2>2. \A k \in 1 .. up : w[tree[n + 1][k]] \in Nat /\ k \in Nat
    BY <1>t, <1>w, <1>u, <1>s
  <2> HIDE DEF g
  <2> QED BY <2>1, <2>2
<1> HIDE DEF s, up, f, g
<1>F. F[0] = 0 /\ \A k \in Nat : F[k] \in Nat /\ F[k + 1] = F[k] + f[k + 1]
  BY <1>f, SumFacts
<1>G. G[0] = 0 /\ \A k \in Nat : G[k] \in Nat /\ G[k + 1] = G[k] + g[k + 1]
  BY <1>g, SumFacts
<1> HIDE DEF F, G
<1>1. 0 \in D
  <2>1. Upto(0) = 0
    BY <1>s
  <2>2. G[0] = F[0]
    BY <1>F, <1>G
  <2>3. G[0] = F[Upto(0)]
    BY <2>1, <2>2
  <2> HIDE DEF Upto
  <2> QED BY <2>3
<1>2. ASSUME NEW k \in D
      PROVE  k + 1 \in D
  <2> SUFFICES ASSUME k + 1 <= up
               PROVE  G[k + 1] = F[Upto(k + 1)]
    OBVIOUS
  <2> DEFINE j == 2 * k
  <2>1. k \in Nat /\ k <= up /\ G[k] = F[Upto(k)]
    BY <1>s, <1>u
  <2> HIDE DEF D
  <2>2. /\ j \in Nat /\ j < s /\ Upto(k) = j
        /\ k + 1 \in 1 .. up /\ k + 1 \in 1 .. (s + 1) \div 2
        /\ 2 * (k + 1) = j + 2 /\ 2 * (k + 1) - 1 = j + 1 /\ j + 1 \in 1 .. s
    BY <1>s, <1>u, <2>1
  <2>3. G[k + 1] = F[j] + w[tree[n + 1][k + 1]]
    <3>1. G[k] = F[j]
      BY <2>1, <2>2
    <3>2. g[k + 1] = w[tree[n + 1][k + 1]]
      BY <1>g, <2>2
    <3>3. G[k + 1] = G[k] + g[k + 1]
      BY <1>G, <2>1
    <3> QED BY <3>1, <3>2, <3>3
  <2>4. tree[n][j + 1] \in T /\ F[j + 1] = F[j] + w[tree[n][j + 1]]
    BY <1>f, <1>F, <1>t, <2>2
  <2>5. CASE j + 2 > s
    <3>1. Upto(k + 1) = j + 1
      BY <1>s, <2>2, <2>5
    <3>2. tree[n + 1][k + 1] = tree[n][j + 1]
      BY <1>u, <2>2, <2>5
    <3> QED BY <2>3, <2>4, <3>1, <3>2
  <2>6. CASE ~ j + 2 > s
    <3>1. Upto(k + 1) = j + 2 /\ j + 2 \in 1 .. s /\ j + 1 \in Nat /\ (j + 1) + 1 = j + 2
      BY <1>s, <2>2, <2>6
    <3>2. tree[n + 1][k + 1] = Parts!Hash(tree[n][j + 1], tree[n][j + 2])
      BY <1>u, <2>2, <2>6
    <3>3. tree[n][j + 2] \in T /\ F[j + 2] = F[j + 1] + w[tree[n][j + 2]]
      <4>1. tree[n][j + 2] \in T /\ f[j + 2] = w[tree[n][j + 2]]
        BY <1>f, <1>t, <3>1
      <4>2. F[(j + 1) + 1] = F[j + 1] + f[(j + 1) + 1]
        BY <1>F, <3>1
      <4> QED BY <3>1, <4>1, <4>2
    <3>4. w[tree[n + 1][k + 1]] = w[tree[n][j + 1]] + w[tree[n][j + 2]]
      BY <1>w, <2>4, <3>2, <3>3
    <3>5. /\ w[tree[n][j + 1]] \in Nat /\ w[tree[n][j + 2]] \in Nat /\ F[j] \in Nat
      BY <1>w, <1>F, <2>2, <2>4, <3>3
    <3> QED BY <2>3, <2>4, <3>1, <3>3, <3>4, <3>5, SMTT(30)
  <2> QED BY <2>5, <2>6
<1>3. D = Nat
  <2> HIDE DEF D
  <2>1. D \subseteq Nat
    BY DEF D
  <2> QED BY <1>1, <1>2, <2>1, NatSet
<1>4. up \in Nat /\ Upto(up) = s
  BY <1>s, <1>u
<1>5. up \in D
  <2> HIDE DEF D
  <2> QED BY <1>3, <1>4
<1>6. G[up] = F[s]
  BY <1>4, <1>5
<1> QED BY <1>6 DEF G, F, g, f, up, s, tree

\* The weight of the members who signed is that of the root.
LEMMA RootWeighs ==
  ASSUME NEW T, NEW w, Weighs(T, w, signers), PartsTypes
  PROVE  w[Parts!Levels(config.members)[Len(config.members)][1]] = Parts!SignedWeight
<1> DEFINE m == config.members
           L == Len(m)
           tree == Parts!Levels(m)
           V(n) == LevelWeights(tree, n, w)
           sum(n) == SumTo(V(n))[Size(tree, n)]
           p == [n \in Nat |-> IF m[n].address \in signers THEN m[n].weight ELSE 0]
           first == CHOOSE f : f = [n \in Nat |-> IF n = 0 THEN 0 ELSE f[n - 1] +
                       IF m[n].address \in signers THEN m[n].weight ELSE 0]
           E == {n \in Nat : n <= L => sum(n) = sum(0)}
           D == {n \in Nat : n <= L => first[n] = SumTo(V(0))[n]}
<1>m. /\ m \in Seq(Parts!Member) /\ m # <<>> /\ L \in Nat \ {0}
      /\ \A i \in 1 .. L : m[i] \in Parts!Member
  BY MembersAre
<1>s. Parts!SignedWeight = first[L]
  BY DEF Parts!SignedWeight
<1> HIDE DEF m
<1>t. /\ tree[0] = [i \in 1 .. L |-> Parts!Leaf(m[i])] /\ Size(tree, 0) = L
      /\ Size(tree, L) = 1
  BY <1>m, LevelFacts
<1>w. /\ w \in [T -> Nat]
      /\ \A x \in Parts!Member : /\ Parts!Leaf(x) \in T
                                 /\ w[Parts!Leaf(x)] = IF x.address \in signers THEN x.weight ELSE 0
  BY DEF Weighs
<1>r. tree[L][1] \in T
  BY <1>m, <1>t, TreeWords
<1>l. \A n \in 0 .. L - 1 : sum(n + 1) = sum(n)
  BY <1>m, LevelsWeigh
<1> HIDE DEF tree, L
<1>1. sum(L) = sum(0)
  <2>1. 0 \in E
    OBVIOUS
  <2>2. ASSUME NEW n \in E
        PROVE  n + 1 \in E
    <3> HIDE DEF sum
    <3> QED BY <1>m, <1>l
  <2>3. E = Nat
    <3>1. E \subseteq Nat
      OBVIOUS
    <3> HIDE DEF E
    <3> QED BY <2>1, <2>2, <3>1, NatSet
  <2>4. L \in E
    <3> HIDE DEF E
    <3> QED BY <1>m, <2>3
  <2> HIDE DEF sum
  <2> QED BY <1>m, <2>4
<1>2. SumTo(V(L))[1] = w[tree[L][1]]
  <2>1. V(L) = [k \in Nat |-> IF k \in 1 .. 1 THEN w[tree[L][k]] ELSE 0]
    BY <1>t DEF LevelWeights
  <2>2. V(L) \in [Nat -> Nat] /\ V(L)[1] = w[tree[L][1]]
    <3>1. w[tree[L][1]] \in Nat
      BY <1>r, <1>w
    <3>2. \A k \in 1 .. 1 : k = 1
      OBVIOUS
    <3> HIDE DEF V
    <3> QED BY <2>1, <3>1, <3>2
  <2> HIDE DEF V
  <2>3. SumTo(V(L))[0] = 0 /\ SumTo(V(L))[0 + 1] = SumTo(V(L))[0] + V(L)[0 + 1]
    BY <2>2, SumFacts
  <2>4. V(L)[1] \in Nat /\ 0 + 1 = 1
    BY <2>2
  <2> QED BY <2>2, <2>3, <2>4
<1>3. V(0) \in [Nat -> Nat] /\ \A k \in 1 .. L : V(0)[k] = p[k]
  <2>1. V(0) = [k \in Nat |-> IF k \in 1 .. L THEN w[tree[0][k]] ELSE 0]
    BY <1>t DEF LevelWeights
  <2>2. \A k \in 1 .. L : tree[0][k] = Parts!Leaf(m[k]) /\ k \in Nat
    BY <1>m, <1>t
  <2>3. \A k \in 1 .. L : /\ w[tree[0][k]] \in Nat
                          /\ w[tree[0][k]] = p[k]
    BY <1>m, <1>w, <2>2
  <2> HIDE DEF V, p
  <2> QED BY <2>1, <2>2, <2>3
<1>4. /\ SumTo(V(0))[0] = 0
      /\ \A n \in Nat : SumTo(V(0))[n + 1] = SumTo(V(0))[n] + V(0)[n + 1]
  <2> HIDE DEF V
  <2> QED BY <1>3, SumFacts
<1> HIDE DEF V
<1>5. first = [n \in Nat |-> IF n = 0 THEN 0 ELSE first[n - 1] + p[n]]
  <2> DEFINE Is(f) == f = [n \in Nat |-> IF n = 0 THEN 0 ELSE f[n - 1] +
                       IF m[n].address \in signers THEN m[n].weight ELSE 0]
  <2>1. PICK f : Recursive(f, Nat, "sum", p, 0)
    BY RecursionDefines
  <2>2. f = [n \in Nat |-> IF n = 0 THEN 0 ELSE f[n - 1] + p[n]]
    BY <2>1 DEF Recursive, Step
  <2>3. Is(f)
    BY <2>2
  <2>4. Is(first)
    BY <2>3
  <2> HIDE DEF first
  <2> QED BY <2>4
<1> HIDE DEF first
<1>6. first[0] = 0 /\ \A n \in Nat : first[n + 1] = first[n] + p[n + 1]
  <2>1. first[0] = 0
    BY <1>5
  <2>2. ASSUME NEW n \in Nat
        PROVE  first[n + 1] = first[n] + p[n + 1]
    <3>1. n + 1 \in Nat /\ n + 1 # 0 /\ (n + 1) - 1 = n
      OBVIOUS
    <3> HIDE DEF p
    <3> QED BY <1>5, <3>1
  <2> QED BY <2>1, <2>2
<1> HIDE DEF p
<1>7. first[L] = SumTo(V(0))[L]
  <2>1. 0 \in D
    BY <1>4, <1>6
  <2>2. ASSUME NEW n \in D
        PROVE  n + 1 \in D
    <3> SUFFICES ASSUME n + 1 <= L
                 PROVE  first[n + 1] = SumTo(V(0))[n + 1]
      OBVIOUS
    <3>1. n \in Nat /\ n <= L /\ first[n] = SumTo(V(0))[n] /\ n + 1 \in 1 .. L
      BY <1>m
    <3> HIDE DEF D
    <3> QED BY <1>3, <1>4, <1>6, <3>1
  <2>3. D = Nat
    <3>1. D \subseteq Nat
      OBVIOUS
    <3> HIDE DEF D
    <3> QED BY <2>1, <2>2, <3>1, NatSet
  <2>4. L \in D
    <3> HIDE DEF D
    <3> QED BY <1>m, <2>3
  <2> QED BY <1>m, <2>4
<1> QED BY <1>1, <1>2, <1>7, <1>s, <1>t DEF tree, L, m

-----------------------------------------------------------------------------
(* The weight collected. *)

\* What the words of the workspace weigh.
Laden(w, n, words) == [k \in Nat |-> IF k \in 1 .. n THEN w[words[k]] ELSE 0]

\* The nodes of a level that have a parent already.
Joined == IF 2 * index <= nodes THEN 2 * index ELSE nodes

\* The weight is in the words: those of the parts so far, then those of the nodes of the
\* level and of the nodes of the one below that have no parent yet.
Weighed(T, w) ==
  LET sum == SumTo(Laden(w, leaves, workspace)) IN
  /\ \A k \in 1 .. leaves : workspace[k] \in T
  /\ phase = "parts" => weight <= sum[index]
  /\ phase \in {"tree", "done"} => weight <= sum[index] + (sum[nodes] - sum[Joined])

WeighedInv == \A T, w : Weighs(T, w, signers) => Weighed(T, w)

\* What is known of the weights f of the first n words, and of their sums.
IsLaden(f, w, n, words) ==
  /\ f \in [Nat -> Nat]
  /\ \A k \in 1 .. n : f[k] = w[words[k]]
  /\ SumTo(f)[0] = 0
  /\ \A k \in Nat : SumTo(f)[k] \in Nat /\ SumTo(f)[k + 1] = SumTo(f)[k] + f[k + 1]

LEMMA LadenIs ==
  ASSUME NEW S, NEW T, NEW w, Weighs(T, w, S), NEW n \in Nat, NEW words,
         \A k \in 1 .. n : words[k] \in T
  PROVE  IsLaden(Laden(w, n, words), w, n, words)
<1> DEFINE f == Laden(w, n, words)
<1>1. w \in [T -> Nat]
  BY DEF Weighs
<1>2. \A k \in 1 .. n : w[words[k]] \in Nat /\ k \in Nat
  BY <1>1
<1>3. f = [k \in Nat |-> IF k \in 1 .. n THEN w[words[k]] ELSE 0]
  BY DEF Laden
<1> HIDE DEF f
<1>4. f \in [Nat -> Nat] /\ \A k \in 1 .. n : f[k] = w[words[k]]
  BY <1>2, <1>3
<1>5. SumTo(f)[0] = 0 /\ \A k \in Nat : SumTo(f)[k] \in Nat /\ SumTo(f)[k + 1] = SumTo(f)[k] + f[k + 1]
  BY <1>4, SumFacts
<1>6. IsLaden(f, w, n, words)
  BY <1>4, <1>5 DEF IsLaden
<1> QED BY <1>6 DEF f

\* The words a witness may hold have weights.
LEMMA WitnessIn ==
  ASSUME PartsTypes, NEW T, NEW w, Weighs(T, w, signers)
  PROVE  Parts!WitnessWords(config) \subseteq T
<1> DEFINE m == config.members
           tree == Parts!Levels(m)
<1>m. m \in Seq(Parts!Member) /\ m # <<>> /\ Len(m) \in Nat
  BY MembersAre
<1>1. \A n \in 0 .. Len(m) : /\ \A k \in 1 .. Size(tree, n) : tree[n][k] \in T
                             /\ tree[n] = [i \in 1 .. Size(tree, n) |-> tree[n][i]]
  BY <1>m, TreeWords, LevelFacts
<1>2. DOMAIN tree = 0 .. Len(m)
  BY DEF Parts!Levels
<1>3. Parts!Zero \in T
  BY DEF Weighs
<1>4. ASSUME NEW q \in Parts!Range(tree), NEW x \in Parts!Range(q)
      PROVE  x \in T
  <2>1. PICK n \in DOMAIN tree : q = tree[n]
    BY DEF Parts!Range
  <2>2. PICK k \in DOMAIN q : x = q[k]
    BY DEF Parts!Range
  <2> HIDE DEF tree
  <2>3. k \in 1 .. Size(tree, n)
    BY <1>1, <1>2, <2>1, <2>2
  <2> QED BY <1>1, <1>2, <2>1, <2>2, <2>3
<1> HIDE DEF tree
<1> QED BY <1>3, <1>4 DEF Parts!WitnessWords, tree

\* What fills a node in weighs as much as its children at least.
LEMMA CombinesWeighs ==
  ASSUME PartsTypes, NEW T, NEW w, Weighs(T, w, signers), NEW word, Combines(word),
         Parts!NodeA \in T, Parts!HasNeighbour => Parts!NodeB \in T
  PROVE  /\ word \in T
         /\ w[Parts!NodeA] + (IF Parts!HasNeighbour THEN w[Parts!NodeB] ELSE 0) <= w[word]
<1>1. /\ w \in [T -> Nat] /\ Parts!Zero \in T /\ w[Parts!Zero] = 0
      /\ \A a, b \in T : Parts!Hash(a, b) \in T /\ w[Parts!Hash(a, b)] = w[a] + w[b]
  BY DEF Weighs
<1>2. CASE ~ Parts!HasNeighbour /\ word = Parts!NodeA
  BY <1>1, <1>2
<1>3. CASE /\ Parts!HasNeighbour /\ Parts!NodeA = Parts!Zero /\ Parts!NodeB = Parts!Zero
           /\ word = Parts!Zero
  <2>1. w[word] = 0 /\ w[Parts!NodeA] = 0 /\ w[Parts!NodeB] = 0
    BY <1>1, <1>3
  <2> QED BY <1>1, <1>3, <2>1
<1>4. ASSUME Parts!HasNeighbour,
             NEW a \in Parts!WitnessWords(config) \cup {Parts!NodeA, Parts!NodeB},
             NEW b \in Parts!WitnessWords(config) \cup {Parts!NodeA, Parts!NodeB},
             word = Parts!Hash(a, b),
             Parts!NodeA # Parts!Zero => a = Parts!NodeA,
             Parts!NodeB # Parts!Zero => b = Parts!NodeB
      PROVE  word \in T /\ w[Parts!NodeA] + w[Parts!NodeB] <= w[word]
  <2>1. a \in T /\ b \in T
    BY <1>4, WitnessIn
  <2>2. word \in T /\ w[word] = w[a] + w[b]
    BY <1>1, <1>4, <2>1
  <2>3. /\ w[a] \in Nat /\ w[b] \in Nat
        /\ w[Parts!NodeA] = 0 \/ w[Parts!NodeA] = w[a]
        /\ w[Parts!NodeB] = 0 \/ w[Parts!NodeB] = w[b]
    BY <1>1, <1>4, <2>1
  <2> QED BY <2>2, <2>3
<1> QED BY <1>2, <1>3, <1>4 DEF Combines

LEMMA WeighedInit == Parts!Init => WeighedInv
<1> SUFFICES ASSUME Parts!Init, NEW T, NEW w, Weighs(T, w, signers)
             PROVE  Weighed(T, w)
  BY DEF WeighedInv
<1>1. PartsTypes
  BY PartsTypesInit
<1>2. /\ phase = "parts" /\ weight = 0 /\ index = 0
      /\ \A k \in 1 .. leaves : workspace[k] = Parts!Zero
  BY DEF Parts!Init
<1>3. \A k \in 1 .. leaves : workspace[k] \in T
  BY <1>2 DEF Weighs
<1>4. SumTo(Laden(w, leaves, workspace))[0] = 0
  <2>1. leaves \in Nat
    BY <1>1 DEF PartsTypes
  <2>2. IsLaden(Laden(w, leaves, workspace), w, leaves, workspace)
    BY <1>3, <2>1, LadenIs
  <2> QED BY <2>2 DEF IsLaden
<1> QED BY <1>2, <1>3, <1>4 DEF Weighed

LEMMA WeighedParts ==
  ASSUME PartsTypes, PartsTypes', NEW T, NEW w, Weighs(T, w, signers), Weighed(T, w),
         NEW m \in Parts!Member,
         NEW gained \in {0, IF m.address \in signers THEN m.weight ELSE 0},
         Parts!AtPart, Parts!NextPart(m, gained)
  PROVE  Weighed(T, w)'
<1> DEFINE f == Laden(w, leaves, workspace)
           g == Laden(w, leaves', workspace')
           F == SumTo(f)
           G == SumTo(g)
<1>1. /\ phase = "parts" /\ phase' = "parts" /\ index \in Nat /\ index + 1 \in 1 .. leaves
      /\ leaves \in Nat /\ weight \in Nat
      /\ weight' = weight + gained /\ index' = index + 1 /\ leaves' = leaves /\ signers' = signers
      /\ workspace = [k \in 1 .. leaves |-> workspace[k]]
      /\ workspace' = [workspace EXCEPT ![index + 1] = Parts!Leaf(m)]
  BY DEF PartsTypes, Parts!AtPart, Parts!NextPart, Parts!claim
<1>2. /\ w \in [T -> Nat] /\ Parts!Leaf(m) \in T
      /\ w[Parts!Leaf(m)] = IF m.address \in signers THEN m.weight ELSE 0
  BY DEF Weighs
<1>3. gained \in Nat /\ gained <= w[Parts!Leaf(m)] /\ w[Parts!Leaf(m)] \in Nat
  BY <1>2
<1>4. (\A k \in 1 .. leaves : workspace[k] \in T) /\ weight <= F[index]
  BY <1>1 DEF Weighed
<1>5. /\ workspace'[index + 1] = Parts!Leaf(m)
      /\ \A k \in 1 .. leaves : k # index + 1 => workspace'[k] = workspace[k]
  BY <1>1
<1>6. \A k \in 1 .. leaves' : workspace'[k] \in T
  BY <1>1, <1>2, <1>4, <1>5
<1>f. /\ f \in [Nat -> Nat]
      /\ \A k \in 1 .. leaves : f[k] = w[workspace[k]]
      /\ F[0] = 0 /\ \A n \in Nat : F[n] \in Nat
  <2>1. leaves \in Nat
    BY <1>1
  <2>2. \A k \in 1 .. leaves : workspace[k] \in T
    BY <1>4
  <2>3. IsLaden(f, w, leaves, workspace)
    BY <2>1, <2>2, LadenIs
  <2> HIDE DEF f
  <2> QED BY <2>3 DEF IsLaden
<1>g. /\ g \in [Nat -> Nat]
      /\ \A k \in 1 .. leaves : g[k] = w[workspace'[k]]
      /\ G[0] = 0 /\ \A n \in Nat : G[n] \in Nat /\ G[n + 1] = G[n] + g[n + 1]
  <2>1. leaves' = leaves /\ leaves' \in Nat
    BY <1>1
  <2>2. \A k \in 1 .. leaves' : workspace'[k] \in T
    BY <1>6
  <2>3. IsLaden(g, w, leaves', workspace')
    BY <2>1, <2>2, LadenIs
  <2> HIDE DEF g
  <2> QED BY <2>1, <2>3 DEF IsLaden
<1> HIDE DEF f, g
<1>7. G[index] = F[index]
  <2>1. ASSUME NEW k \in 0 + 1 .. index
        PROVE  f[k] = g[k]
    <3>1. k \in 1 .. leaves /\ k # index + 1
      BY <1>1
    <3>2. workspace'[k] = workspace[k]
      BY <1>5, <3>1
    <3> QED BY <1>f, <1>g, <3>1, <3>2
  <2>2. index \in Nat /\ 0 \in Nat /\ 0 <= index
    BY <1>1
  <2>3. f \in [Nat -> Nat] /\ g \in [Nat -> Nat]
    BY <1>f, <1>g
  <2>4. F[index] - F[0] = G[index] - G[0]
    BY <2>1, <2>2, <2>3, SumsAgree
  <2>5. F[index] \in Nat /\ G[index] \in Nat
    BY <1>1, <1>f, <1>g
  <2> QED BY <1>f, <1>g, <2>4, <2>5
<1>8. G[index + 1] = F[index] + w[Parts!Leaf(m)] /\ F[index] \in Nat
  BY <1>1, <1>5, <1>7, <1>f, <1>g
<1>9. weight' <= G[index']
  BY <1>1, <1>3, <1>4, <1>8
<1> QED BY <1>1, <1>6, <1>9 DEF Weighed, g

\* A node filled in: what it weighs was in the nodes that it is the parent of.
LEMMA WeighedNode ==
  ASSUME PartsTypes, NEW T, NEW w, Weighs(T, w, signers), Weighed(T, w),
         Parts!AtNode, NEW word, Parts!SetNode(word), Combines(word)
  PROVE  Weighed(T, w)'
<1> DEFINE f == Laden(w, leaves, workspace)
           g == Laden(w, leaves', workspace')
           F == SumTo(f)
           G == SumTo(g)
           i == index + 1
           d == 2 * index
           e == Joined'
<1>1. /\ phase = "tree" /\ nodes > 1 /\ {index, nodes, leaves, weight} \subseteq Nat
      /\ nodes <= leaves /\ index < (nodes + 1) \div 2
      /\ workspace = [k \in 1 .. leaves |-> workspace[k]]
  <2>1. phase = "tree" /\ nodes > 1 /\ index < (nodes + 1) \div 2
    BY DEF Parts!AtNode, Parts!NextNodes
  <2> QED BY <2>1 DEF PartsTypes
<1>2. /\ phase' = phase /\ index' = i /\ UNCHANGED <<leaves, nodes, weight>>
      /\ workspace' = [workspace EXCEPT ![i] = word]
  BY DEF Parts!SetNode, Parts!claim
<1>3. /\ i \in 1 .. leaves /\ i \in Nat /\ i <= nodes /\ d \in Nat /\ d < nodes
      /\ d + 1 \in 1 .. leaves /\ d + 1 <= nodes /\ Joined = d
      /\ (Parts!HasNeighbour <=> d + 2 <= nodes)
      /\ Parts!HasNeighbour => d + 2 \in 1 .. leaves
  BY <1>1, SMTT(30) DEF Joined, Parts!HasNeighbour
<1>e. e = IF d + 2 <= nodes THEN d + 2 ELSE nodes
  <2>1. 2 * i = d + 2
    BY <1>1
  <2>2. e = IF 2 * index' <= nodes' THEN 2 * index' ELSE nodes'
    BY DEF Joined
  <2> HIDE DEF e, i, d
  <2> QED BY <1>2, <2>1, <2>2
<1> HIDE DEF e
<1>4. (\A k \in 1 .. leaves : workspace[k] \in T) /\ weight <= F[index] + (F[nodes] - F[d])
  BY <1>1, <1>3 DEF Weighed
<1>5. /\ Parts!NodeA = workspace[d + 1] /\ Parts!NodeA \in T
      /\ Parts!NodeB = workspace[d + 2] /\ (Parts!HasNeighbour => Parts!NodeB \in T)
  BY <1>3, <1>4 DEF Parts!NodeA, Parts!NodeB
<1>6. /\ word \in T
      /\ w[Parts!NodeA] + (IF Parts!HasNeighbour THEN w[Parts!NodeB] ELSE 0) <= w[word]
  BY <1>5, CombinesWeighs
<1>7. /\ workspace'[i] = word
      /\ \A k \in 1 .. leaves : k # i => workspace'[k] = workspace[k]
  BY <1>1, <1>2, <1>3
<1>8. leaves' = leaves /\ \A k \in 1 .. leaves' : workspace'[k] \in T
  BY <1>2, <1>4, <1>6, <1>7
<1>f. /\ f \in [Nat -> Nat]
      /\ \A k \in 1 .. leaves : f[k] = w[workspace[k]]
      /\ \A n \in Nat : F[n] \in Nat /\ F[n + 1] = F[n] + f[n + 1]
      /\ F[0] = 0
  <2>1. leaves \in Nat
    BY <1>1
  <2>2. \A k \in 1 .. leaves : workspace[k] \in T
    BY <1>4
  <2>3. IsLaden(f, w, leaves, workspace)
    BY <2>1, <2>2, LadenIs
  <2> HIDE DEF f
  <2> QED BY <2>3 DEF IsLaden
<1>g. /\ g \in [Nat -> Nat]
      /\ \A k \in 1 .. leaves : g[k] = w[workspace'[k]]
      /\ \A n \in Nat : G[n] \in Nat /\ G[n + 1] = G[n] + g[n + 1]
      /\ G[0] = 0
  <2>1. leaves' = leaves /\ leaves' \in Nat
    BY <1>1, <1>8
  <2>2. \A k \in 1 .. leaves' : workspace'[k] \in T
    BY <1>8
  <2>3. IsLaden(g, w, leaves', workspace')
    BY <2>1, <2>2, LadenIs
  <2> HIDE DEF g
  <2> QED BY <2>1, <2>3 DEF IsLaden
<1> HIDE DEF f, g
<1>k. /\ f \in [Nat -> Nat] /\ g \in [Nat -> Nat]
      /\ \A k \in 1 .. leaves : k # i => f[k] = g[k]
  BY <1>7, <1>f, <1>g, ZenonT(60)
<1>9. G[index] = F[index]
  <2>1. ASSUME NEW k \in 0 + 1 .. index
        PROVE  f[k] = g[k]
    <3>1. k \in 1 .. leaves /\ k # i
      BY <1>1, <1>3, SMTT(30)
    <3> HIDE DEF i
    <3> QED BY <1>k, <3>1
  <2>2. index \in Nat /\ 0 \in Nat /\ 0 <= index
    BY <1>1
  <2>4. F[index] - F[0] = G[index] - G[0]
    BY <1>k, <2>1, <2>2, SumsAgree
  <2>3. F[index] \in Nat /\ G[index] \in Nat
    BY <1>1, <1>f, <1>g
  <2> QED BY <1>f, <1>g, <2>3, <2>4
<1>10. G[i] = F[index] + w[word]
  <2>1. G[i] = G[index] + g[i]
    BY <1>1, <1>g
  <2> QED BY <1>3, <1>7, <1>9, <1>g, <2>1
<1>11. /\ G[nodes] - G[e] = F[nodes] - F[e]
       /\ e \in Nat
  <2>1. e \in Nat /\ i <= e /\ e <= nodes
    BY <1>1, <1>3, <1>e, SMTT(30)
  <2>2. ASSUME NEW k \in e + 1 .. nodes
        PROVE  f[k] = g[k]
    <3>1. k \in 1 .. leaves /\ k # i
      BY <1>1, <1>3, <2>1, SMTT(30)
    <3> HIDE DEF i
    <3> QED BY <1>k, <3>1
  <2>3. F[nodes] - F[e] = G[nodes] - G[e]
    <3>1. nodes \in Nat
      BY <1>1
    <3> QED BY <1>k, <2>1, <2>2, <3>1, SumsAgree
  <2> QED BY <2>1, <2>3
<1>12. F[d + 1] = F[d] + w[Parts!NodeA]
  BY <1>3, <1>5, <1>f
<1>13. F[e] <= F[d] + w[word]
  <2>1. /\ w[Parts!NodeA] \in Nat /\ F[d] \in Nat /\ w[word] \in Nat
        /\ (Parts!HasNeighbour => w[Parts!NodeB] \in Nat)
    <3>1. w \in [T -> Nat]
      BY DEF Weighs
    <3> QED BY <1>3, <1>5, <1>6, <1>f, <3>1
  <2>2. CASE Parts!HasNeighbour
    <3>1. e = d + 2
      BY <1>3, <1>e, <2>2
    <3>2. F[(d + 1) + 1] = F[d + 1] + f[(d + 1) + 1] /\ (d + 1) + 1 = d + 2
      BY <1>3, <1>f
    <3>3. f[d + 2] = w[Parts!NodeB]
      BY <1>3, <1>5, <1>f, <2>2
    <3> QED BY <1>6, <1>12, <2>1, <2>2, <3>1, <3>2, <3>3
  <2>3. CASE ~ Parts!HasNeighbour
    <3>1. e = d + 1
      BY <1>1, <1>3, <1>e, <2>3, SMTT(30)
    <3> QED BY <1>6, <1>12, <2>1, <2>3, <3>1
  <2> QED BY <2>2, <2>3
<1>14. weight <= G[i] + (G[nodes] - G[e])
  <2>1. F[d] \in Nat /\ F[e] \in Nat /\ F[nodes] \in Nat /\ F[index] \in Nat /\ w[word] \in Nat
    <3>1. w[word] \in Nat
      BY <1>6 DEF Weighs
    <3> QED BY <1>1, <1>3, <1>11, <1>f, <3>1
  <2>2. weight \in Nat /\ weight <= F[index] + (F[nodes] - F[d])
    BY <1>1, <1>4
  <2>3. G[nodes] - G[e] = F[nodes] - F[e] /\ G[i] = F[index] + w[word]
    BY <1>10, <1>11
  <2> HIDE DEF F, G, d, i
  <2> QED BY <1>13, <2>1, <2>2, <2>3
<1>15. phase' = "tree" /\ weight' <= G[index'] + (G[nodes'] - G[Joined'])
  BY <1>1, <1>2, <1>14 DEF e
<1> QED BY <1>8, <1>15 DEF Weighed, g

LEMMA WeighedNext ==
  ASSUME PartsTypes, WeighedInv, Parts!Next
  PROVE  WeighedInv'
<1>1. signers' = signers
  BY PartsNext DEF Parts!Next, Parts!EmptyLeaf, Parts!AddressLeaf, Parts!SignatureLeaf,
     Parts!DynamicLeaf, Parts!BadPart, Parts!EndParts, Parts!MoveUp, Parts!BothEmpty,
     Parts!JoinFull, Parts!JoinWithWitness, Parts!NextLevel, Parts!EndTree, Parts!NextPart,
     Parts!SetNode, Parts!claim
<1> SUFFICES ASSUME NEW T, NEW w, Weighs(T, w, signers)
             PROVE  Weighed(T, w)'
  BY <1>1 DEF WeighedInv
<1>w. Weighed(T, w)
  BY DEF WeighedInv
<1> DEFINE F == SumTo(Laden(w, leaves, workspace))
<1>t. /\ {leaves, index, nodes, weight} \subseteq Nat
      /\ \A k \in 1 .. leaves : workspace[k] \in T
  BY <1>w DEF PartsTypes, Weighed
<1>F. /\ F[0] = 0
      /\ \A k \in Nat : F[k] \in Nat /\ F[k + 1] = F[k] + Laden(w, leaves, workspace)[k + 1]
      /\ Laden(w, leaves, workspace) \in [Nat -> Nat]
  <2>1. IsLaden(Laden(w, leaves, workspace), w, leaves, workspace)
    BY <1>t, LadenIs
  <2> QED BY <2>1 DEF IsLaden
<1>2. CASE PartStep
  <2>1. CASE Reverts
    BY <1>w, <2>1 DEF Reverts, Weighed
  <2>2. CASE Parts!EmptyLeaf
    <3>1. /\ phase = "parts" /\ phase' = "parts" /\ index' = index + 1
          /\ UNCHANGED <<leaves, workspace, weight>>
      BY <2>2 DEF Parts!EmptyLeaf, Parts!AtPart, Parts!claim
    <3>2. weight <= F[index]
      BY <1>w, <3>1 DEF Weighed
    <3>3. F[index + 1] >= F[index]
      <4>1. /\ F[index] \in Nat /\ F[index + 1] = F[index] + Laden(w, leaves, workspace)[index + 1]
            /\ Laden(w, leaves, workspace)[index + 1] \in Nat
        BY <1>t, <1>F
      <4> HIDE DEF F
      <4> QED BY <4>1
    <3>4. weight <= F[index + 1]
      <4>1. F[index] \in Nat /\ F[index + 1] \in Nat /\ weight \in Nat
        BY <1>t, <1>F
      <4> HIDE DEF F
      <4> QED BY <3>2, <3>3, <4>1
    <3> QED BY <1>t, <3>1, <3>4 DEF Weighed
  <2>3. ASSUME Parts!AtPart,
               NEW m \in Parts!Member,
               NEW gained \in {0, IF m.address \in signers THEN m.weight ELSE 0},
               Parts!NextPart(m, gained)
        PROVE  Weighed(T, w)'
    <3>1. PartsTypes'
      BY PartsTypesNext
    <3> QED BY <1>w, <2>3, <3>1, WeighedParts
  <2> QED BY <1>2, <2>1, <2>2, <2>3, PartsFill
<1>3. CASE NodeStep
  <2>1. Parts!AtNode
    BY <1>3, NodesCombine
  <2>2. PICK word : Parts!SetNode(word) /\ Combines(word)
    BY <1>3, NodesCombine
  <2> QED BY <1>w, <2>1, <2>2, WeighedNode
<1>4. CASE Parts!EndParts
  <2>1. /\ phase = "parts" /\ index = leaves /\ phase' = "tree" /\ index' = 0
        /\ UNCHANGED <<leaves, workspace, weight, nodes>> /\ nodes = leaves
    BY <1>4 DEF Parts!EndParts, Parts!claim, PartsTypes
  <2>2. weight <= F[leaves]
    BY <1>w, <2>1 DEF Weighed
  <2>3. Joined' = 0
    BY <1>t, <2>1 DEF Joined
  <2>4. weight <= F[0] + (F[nodes] - F[0])
    <3>1. F[0] = 0 /\ F[nodes] \in Nat /\ F[nodes] = F[leaves]
      BY <1>t, <1>F, <2>1
    <3> HIDE DEF F
    <3> QED BY <2>2, <3>1
  <2> QED BY <1>t, <2>1, <2>3, <2>4 DEF Weighed
<1>5. CASE Parts!NextLevel
  <2>1. /\ phase = "tree" /\ phase' = "tree" /\ index = (nodes + 1) \div 2 /\ nodes' = index
        /\ nodes > 1 /\ index' = 0 /\ UNCHANGED <<leaves, workspace, weight>>
    BY <1>5 DEF Parts!NextLevel, Parts!claim, Parts!NextNodes
  <2>2. Joined = nodes /\ Joined' = 0
    BY <1>t, <2>1 DEF Joined
  <2>3. weight <= F[index] + (F[nodes] - F[nodes])
    BY <1>w, <2>1, <2>2 DEF Weighed
  <2>4. weight <= F[0] + (F[index] - F[0])
    <3>1. F[0] = 0 /\ F[nodes] \in Nat /\ F[index] \in Nat
      BY <1>t, <1>F
    <3> HIDE DEF F
    <3> QED BY <2>3, <3>1
  <2> QED BY <1>t, <2>1, <2>2, <2>4 DEF Weighed
<1>6. CASE Parts!EndTree
  <2>1. /\ phase = "tree" /\ phase' \in {"done", "reverted"}
        /\ UNCHANGED <<leaves, workspace, weight, index, nodes>>
    BY <1>6 DEF Parts!EndTree, Parts!claim
  <2>2. Joined' = Joined
    BY <2>1 DEF Joined
  <2> QED BY <1>w, <2>1, <2>2 DEF Weighed
<1> QED BY <1>2, <1>3, <1>4, <1>5, <1>6, PartsNext

LEMMA WeighedEnd ==
  ASSUME PartsTypes, WeighedInv
  PROVE  Parts!NoForgedWeight
<1> DEFINE root == Parts!Levels(config.members)[Len(config.members)][1]
<1> SUFFICES ASSUME phase = "done", Parts!Recovered = Parts!ConfigImage(config),
                    weight >= threshold
             PROVE  Parts!SignedWeight >= weight /\ Parts!SignedWeight >= config.threshold
  BY DEF Parts!NoForgedWeight
<1>1. threshold = config.threshold /\ workspace[1] = root
  <2>1. Parts!Recovered.threshold = threshold /\ Parts!Recovered.root = workspace[1]
    BY DEF Parts!Recovered, Parts!ImageHash
  <2>2. /\ Parts!ConfigImage(config).threshold = config.threshold
        /\ Parts!ConfigImage(config).root = root
    BY DEF Parts!ConfigImage, Parts!ImageHash
  <2> QED BY <2>1, <2>2
<1>2. PICK T, w : Weighs(T, w, signers)
  <2>1. signers \in SUBSET Addresses
    BY DEF PartsTypes
  <2> QED BY <2>1, WordsWeigh
<1>3. Weighed(T, w)
  BY <1>2 DEF WeighedInv
<1> DEFINE f == Laden(w, leaves, workspace)
           F == SumTo(f)
<1>4. nodes = 1 /\ index = 0 /\ leaves \in Nat /\ 1 \in 1 .. leaves /\ weight \in Nat
  BY DEF PartsTypes
<1>5. Joined = 0
  BY <1>4 DEF Joined
<1>6. (\A k \in 1 .. leaves : workspace[k] \in T) /\ weight <= F[0] + (F[1] - F[0])
  BY <1>3, <1>4, <1>5 DEF Weighed
<1>7. /\ F[0] = 0 /\ f[1] = w[workspace[1]] /\ F[0 + 1] = F[0] + f[0 + 1] /\ f[1] \in Nat
  <2>1. IsLaden(f, w, leaves, workspace)
    BY <1>2, <1>4, <1>6, LadenIs
  <2> HIDE DEF f
  <2> QED BY <1>4, <2>1 DEF IsLaden
<1>8. weight <= w[workspace[1]] /\ w[workspace[1]] \in Nat
  <2> HIDE DEF f
  <2>1. F[1] = f[1]
    BY <1>7
  <2> HIDE DEF F
  <2> QED BY <1>4, <1>6, <1>7, <2>1
<1>9. w[root] = Parts!SignedWeight
  BY <1>2, RootWeighs
<1>10. threshold \in Nat
  BY PartsAssumption DEF PartsTypes, Parts!MemberAssumption
<1> HIDE DEF root
<1> QED BY <1>1, <1>4, <1>8, <1>9, <1>10

-----------------------------------------------------------------------------
(* The theorems. *)

PartsInv == PartsTypes /\ LeftOut /\ WeighedInv

LEMMA PartsStart == Parts!Init => PartsInv
  BY PartsTypesInit, LeftOutInit, WeighedInit DEF PartsInv

LEMMA PartsKept == PartsInv /\ [Chain \/ PartsOf]_<<vars, parts, side>> => PartsInv'
<1> SUFFICES ASSUME PartsInv, [Chain \/ PartsOf]_<<vars, parts, side>>
             PROVE  PartsInv'
  OBVIOUS
<1>1. CASE Parts!Next
  BY <1>1, PartsTypesNext, LeftOutNext, WeighedNext DEF PartsInv
<1>2. CASE UNCHANGED parts
  <2>1. PartsTypes'
    BY <1>2 DEF PartsInv, PartsTypes, parts, Parts!NextNodes
  <2>2. LeftOut'
    BY <1>2 DEF PartsInv, LeftOut, Tree, parts
  <2>3. ASSUME NEW T, NEW w, Weighs(T, w, signers)
        PROVE  Weighed(T, w)'
    <3>1. Weighed(T, w)
      BY <2>3 DEF PartsInv, WeighedInv
    <3> QED BY <1>2, <3>1 DEF Weighed, Joined, parts
  <2>4. WeighedInv'
    <3>1. signers' = signers
      BY <1>2 DEF parts
    <3> QED BY <2>3, <3>1 DEF WeighedInv
  <2> QED BY <2>1, <2>2, <2>4 DEF PartsInv
<1> QED BY <1>1, <1>2 DEF Chain, PartsOf

\* Whatever parts are claimed, with whatever witness: a signature that recovers the image
\* hash of the wallet has the weight of members who signed (SequenceBaseSig.recover).
THEOREM NothingIsForged == SideSpec => []NoForgedWeight
<1>1. ChainInit \/ PartsInit => PartsInv
  BY PartsStart DEF ChainInit, PartsInit
<1>2. PartsInv => NoForgedWeight
  BY WeighedEnd DEF PartsInv, NoForgedWeight
<1> QED BY <1>1, <1>2, PartsKept, PTL DEF SideSpec

\* Whatever members are left out: honest parts with an honest witness recover the image
\* hash of the wallet (SequenceBaseSig.recover).
THEOREM SomeMayBeLeftOut == SideSpec => []MembersMayBeLeftOut
<1>1. ChainInit \/ PartsInit => PartsInv
  BY PartsStart DEF ChainInit, PartsInit
<1>2. PartsInv => MembersMayBeLeftOut
  BY LeftOutEnd DEF PartsInv, MembersMayBeLeftOut
<1> QED BY <1>1, <1>2, PartsKept, PTL DEF SideSpec
=============================================================================
