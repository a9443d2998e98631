---------------------------- MODULE WalletProofs ----------------------------
(***************************************************************************)
(* Theorems about Wallet, for every choice of its constants, from two      *)
(* inductive invariants.  Inv says of every storage a revert could bring   *)
(* back what it says of the present one: WorldOK holds of both.  History   *)
(* adds how each call on the stack has changed the storage and the ledger  *)
(* it started from, so that what a whole bundle did is the sum of what its *)
(* calls did.                                                              *)
(* Follows compares what each call on the stack would revert to with what  *)
(* the first one would: the wallet as seen from outside is a RequestLog.   *)
(***************************************************************************)
EXTENDS Wallet, FiniteSetTheorems, SequenceTheorems, TLAPS

\* An accepted request has used its nonce, and nobody else has.
ReplaySafe(s, l) ==
  \A r \in Requests : SpaceOf(r.nonce) # SessionSpace =>
    /\ l.accepted[r] > 0 => s.nonce[SpaceOf(r.nonce)] > NonceOf(r.nonce)
    /\ l.accepted[r] <= 1
    /\ \A q \in Requests :
         q # r /\ q.nonce = r.nonce => l.accepted[r] = 0 \/ l.accepted[q] = 0

\* Only trusted configurations and requests have any authority.
TrustSafe(s, l) ==
  /\ s.imageHash \in TrustedConfigs \cup {NoConfig}
  /\ \A c \in Configs : s.extra[c] # 0 => c \in TrustedConfigs
  /\ \A r \in Requests : s.static[r] # 0 => r \in TrustedRequests
  /\ \A r \in Requests : l.accepted[r] > 0 => r \in TrustedRequests

WorldOK(s, l) ==
  s \in Store /\ l \in Ledger /\ ReplaySafe(s, l) /\ TrustSafe(s, l)

FrameOK(f) ==
  /\ f.code = "wallet" <=> f.batch \in Batches
  /\ f.code = "wallet" => f.batch \in TrustedBatches
  /\ WorldOK(f.saved, f.savedLedger)

\* The call stack st, when the storage is s.
StackOK(st, s) ==
  /\ st \in Seq(Frame)
  /\ Len(st) <= MaxDepth
  /\ \A i \in 1 .. Len(st) :
       /\ FrameOK(st[i])
       /\ NoncesBehind(st[i].saved, s)
       /\ \A j \in i .. Len(st) : NoncesBehind(st[i].saved, st[j].saved)

Inv ==
  /\ WorldOK(store, ledger)
  /\ StackOK(stack, store)
  /\ returned \in {"none", "ok", "failed"}
  /\ now \in Nat

-----------------------------------------------------------------------------
(* The storage. *)

\* decodeNonce returns a nonce that a counter can go past without leaving
\* its range.
LEMMA NonceInRange ==
  ASSUME NEW n \in Nat
  PROVE  NonceOf(n) \in 0 .. NonceSize - 1
BY NonceAssumption DEF NonceOf

\* A request's nonce falls in a space in use, and its batch has a body.
LEMMA RequestFacts ==
  ASSUME NEW r \in Requests
  PROVE  /\ r.nonce \in Nat /\ r.batch \in Batches
         /\ SpaceOf(r.nonce) \in Spaces
         /\ NonceOf(r.nonce) \in 0 .. NonceSize - 1
BY RequestAssumption, NonceInRange DEF Request

\* A transaction of a batch is one of the kinds of Tx.
LEMMA BodyFacts ==
  ASSUME NEW b \in Batches, NEW i \in 1 .. Len(Body[b])
  PROVE  Body[b][i] \in Tx
BY RequestAssumption, ElementOfSeq

\* No counter is ahead of itself.
LEMMA BehindReflexive ==
  ASSUME NEW s \in Store
  PROVE  NoncesBehind(s, s)
BY NonceAssumption DEF NoncesBehind, Store

\* Being behind is transitive among stores.
LEMMA BehindTransitive ==
  ASSUME NEW s \in Store, NEW t \in Store, NEW u \in Store,
         NoncesBehind(s, t), NoncesBehind(t, u)
  PROVE  NoncesBehind(s, u)
BY NonceAssumption DEF NoncesBehind, Store

\* The functions a bundle can call on its wallet keep the storage well
\* formed and leave the nonces alone, but for the session space.
LEMMA ResultOK ==
  ASSUME NEW s \in Store, NEW tx \in Tx, NEW t \in Nat, Succeeds(tx, s, t)
  PROVE  /\ Result(tx, s) \in Store
         /\ NoncesBehind(s, Result(tx, s))
         /\ \A space \in Spaces \ {SessionSpace} :
              Result(tx, s).nonce[space] = s.nonce[space]
<1>1. CASE tx.op = "updateImageHash"
  <2>1. tx.image \in Configs
    BY <1>1 DEF Tx, Succeeds, ImageHashIsZero
  <2>2. Result(tx, s) = UpdateImageHash(s, tx.image)
    BY <1>1 DEF Result
  <2> DEFINE u == UpdateImageHash(s, tx.image)
  <2>3. u \in Store
    BY <2>1 DEF UpdateImageHash, Store, MainModules
  <2>4. u.gapNonce = s.gapNonce /\ u.nonce = s.nonce
    BY DEF UpdateImageHash, Store
  <2> QED BY <2>2, <2>3, <2>4, NonceAssumption DEF Store, NoncesBehind
<1>2. CASE tx.op = "updateImplementation"
  <2>1. tx.target \in MainModules
    BY <1>2 DEF Tx, Succeeds, IsContract
  <2> QED BY <1>2, <2>1, NonceAssumption
      DEF Result, UpdateImplementation, Store, NoncesBehind
<1>3. CASE tx.op = "setExtraImageHash"
  <2>1. tx.image \in Configs /\ tx.expiration \in Nat
    BY <1>3 DEF Tx
  <2> QED BY <1>3, <2>1, NonceAssumption
      DEF Result, SetExtraImageHash, Store, NoncesBehind
<1>4. CASE tx.op = "clearExtraImageHashes"
  BY <1>4, NonceAssumption DEF Result, ClearExtraImageHashes, Store, NoncesBehind
<1>5. CASE tx.op = "setStaticDigest"
  <2>1. tx.expiration \in Nat
    BY <1>5 DEF Tx
  <2> QED BY <1>5, <2>1, NonceAssumption
      DEF Result, SetStaticDigests, Store, NoncesBehind
<1>6. CASE tx.op = "addStaticDigests"
  <2>1. Result(tx, s) = SetStaticDigests(s, tx.requests, Forever)
    BY <1>6 DEF Result
  <2>2. Forever \in Nat
    BY RequestAssumption
  <2> QED BY <2>1, <2>2, NonceAssumption DEF SetStaticDigests, Store, NoncesBehind
<1>7. CASE tx.op = "requireSessionNonce"
  <2>1. tx.gapNonce \in Nat /\ tx.gapNonce > s.gapNonce
    BY <1>7 DEF Tx, Succeeds, RequireGapNonce
  <2>2. Result(tx, s) = UseSessionNonce(s, tx.gapNonce)
    BY <1>7 DEF Result
  <2> DEFINE u == UseSessionNonce(s, tx.gapNonce)
  <2>3. u \in Store
    <3>1. [s.nonce EXCEPT ![SessionSpace] = 0] \in [Spaces -> 0 .. NonceSize]
      BY NonceAssumption DEF Store
    <3>2. u = [s EXCEPT !.gapNonce = tx.gapNonce,
                        !.nonce = [s.nonce EXCEPT ![SessionSpace] = 0]]
      BY DEF UseSessionNonce, Store
    <3> QED BY <2>1, <3>1, <3>2 DEF Store
  <2>4. /\ u.gapNonce = tx.gapNonce
        /\ \A space \in Spaces \ {SessionSpace} : u.nonce[space] = s.nonce[space]
    BY NonceAssumption DEF UseSessionNonce, Store
  <2> QED BY <2>1, <2>2, <2>3, <2>4, NonceAssumption DEF Store, NoncesBehind
<1>8. CASE tx.op \notin {"updateImageHash", "updateImplementation",
                         "setExtraImageHash", "clearExtraImageHashes",
                         "setStaticDigest", "addStaticDigests", "requireSessionNonce"}
  <2>1. Result(tx, s) = s
    BY <1>8 DEF Result
  <2> QED BY <2>1, BehindReflexive
<1> QED BY <1>1, <1>2, <1>3, <1>4, <1>5, <1>6, <1>7, <1>8

\* A trusted transaction puts only trusted configurations in charge.
LEMMA ResultTrusted ==
  ASSUME NEW s \in Store, NEW l \in Ledger, NEW tx \in Tx, NEW t \in Nat,
         Succeeds(tx, s, t), TxIsTrusted(tx), TrustSafe(s, l)
  PROVE  TrustSafe(Result(tx, s), l)
<1>1. CASE tx.op = "updateImageHash"
  BY <1>1 DEF Result, UpdateImageHash, Store, TrustSafe, TxIsTrusted
<1>2. CASE tx.op = "updateImplementation"
  BY <1>2 DEF Result, UpdateImplementation, Store, TrustSafe
<1>3. CASE tx.op = "setExtraImageHash"
  <2>1. tx.image \in Configs /\ tx.image \in TrustedConfigs
    BY <1>3, ConfigAssumption DEF Tx, TxIsTrusted
  <2> QED BY <1>3, <2>1 DEF Result, SetExtraImageHash, Store, TrustSafe
<1>4. CASE tx.op = "clearExtraImageHashes"
  BY <1>4 DEF Result, ClearExtraImageHashes, Store, TrustSafe
<1>5. CASE tx.op = "setStaticDigest"
  BY <1>5 DEF Result, SetStaticDigests, Store, TrustSafe, TxIsTrusted
<1>6. CASE tx.op = "addStaticDigests"
  BY <1>6 DEF Result, SetStaticDigests, Store, TrustSafe, TxIsTrusted
<1>7. CASE tx.op = "requireSessionNonce"
  BY <1>7 DEF Result, UseSessionNonce, Store, TrustSafe
<1>8. CASE tx.op \notin {"updateImageHash", "updateImplementation",
                         "setExtraImageHash", "clearExtraImageHashes",
                         "setStaticDigest", "addStaticDigests", "requireSessionNonce"}
  <2>1. Result(tx, s) = s
    BY <1>8 DEF Result
  <2> QED BY <2>1
<1> QED BY <1>1, <1>2, <1>3, <1>4, <1>5, <1>6, <1>7, <1>8

\* Accepting a request whose nonce is the counter's keeps both safe.
LEMMA AcceptOK ==
  ASSUME NEW s \in Store, NEW l \in Ledger, NEW r \in Requests, NEW t \in Nat,
         WorldOK(s, l), NonceMatches(s, r), SignatureValidation(s, t, r),
         NEW l2 \in Ledger,
         l2.accepted = [l.accepted EXCEPT ![r] = @ + 1]
  PROVE  /\ WorldOK(UseNonce(s, r), l2)
         /\ NoncesBehind(s, UseNonce(s, r))
         /\ r.batch \in TrustedBatches
<1> DEFINE space == SpaceOf(r.nonce)
           n == NonceOf(r.nonce)
           u == UseNonce(s, r)
<1>1. space \in Spaces /\ n \in 0 .. NonceSize - 1 /\ s.nonce[space] = n
  BY RequestFacts DEF NonceMatches
<1>2. [s.nonce EXCEPT ![space] = n + 1] \in [Spaces -> 0 .. NonceSize]
  BY <1>1, NonceAssumption DEF Store
<1>3. u = [s EXCEPT !.nonce = [s.nonce EXCEPT ![space] = n + 1]]
  BY DEF UseNonce, Store
<1>4. u \in Store
  BY <1>2, <1>3 DEF Store
<1>5. u.nonce = [s.nonce EXCEPT ![space] = n + 1]
  BY <1>3 DEF Store
<1>6. NoncesBehind(s, u)
  <2>1. u.gapNonce = s.gapNonce
    BY <1>3 DEF Store
  <2>2. \A p \in Spaces : s.nonce[p] <= u.nonce[p]
    BY <1>1, <1>5, NonceAssumption DEF Store
  <2> QED BY <2>1, <2>2 DEF NoncesBehind, Store
<1>7. r \in TrustedRequests
  <2>1. CASE IsStaticDigest(s, t, r)
    BY <2>1 DEF IsStaticDigest, WorldOK, TrustSafe, Store
  <2>2. CASE \E c \in Signers[r] : IsValidImage(s, t, c)
    <3>1. PICK c \in Signers[r] : IsValidImage(s, t, c)
      BY <2>2
    <3>2. c \in Configs
      BY <3>1, RequestAssumption
    <3>3. c \in TrustedConfigs
      BY <3>1, <3>2, TrustAssumption, ConfigAssumption
      DEF IsValidImage, IsMainImage, WorldOK, TrustSafe
    <3> QED BY <3>1, <3>3, TrustAssumption
  <2> QED BY <2>1, <2>2 DEF SignatureValidation
<1>8. TrustSafe(u, l2)
  <2>1. u.imageHash = s.imageHash /\ u.extra = s.extra /\ u.static = s.static
    BY <1>3 DEF Store
  <2>2. \A q \in Requests : q # r => l2.accepted[q] = l.accepted[q]
    BY DEF Ledger
  <2> QED BY <1>7, <2>1, <2>2 DEF WorldOK, TrustSafe
<1>9. ReplaySafe(u, l2)
  <2> SUFFICES ASSUME NEW q \in Requests, SpaceOf(q.nonce) # SessionSpace
               PROVE  /\ l2.accepted[q] > 0 => u.nonce[SpaceOf(q.nonce)] > NonceOf(q.nonce)
                      /\ l2.accepted[q] <= 1
                      /\ \A p \in Requests :
                           p # q /\ p.nonce = q.nonce =>
                             l2.accepted[q] = 0 \/ l2.accepted[p] = 0
    BY DEF ReplaySafe
  <2>1. ReplaySafe(s, l) /\ l \in Ledger
    BY DEF WorldOK
  <2>2. \A p \in Requests :
          l.accepted[p] \in Nat /\ l2.accepted[p] = IF p = r THEN l.accepted[p] + 1
                                                    ELSE l.accepted[p]
    BY DEF Ledger
  <2>3. SpaceOf(q.nonce) \in Spaces /\ NonceOf(q.nonce) \in Nat
    BY RequestFacts, NonceAssumption
  <2>4. u.nonce[SpaceOf(q.nonce)] =
          IF SpaceOf(q.nonce) = space THEN n + 1 ELSE s.nonce[SpaceOf(q.nonce)]
    BY <1>5, <2>3 DEF Store
  <2>5. \A p \in Requests :
          p.nonce = r.nonce /\ SpaceOf(r.nonce) # SessionSpace => l.accepted[p] = 0
    BY <1>1, <2>1, <2>2, NonceAssumption DEF ReplaySafe
  <2>6. l2.accepted[q] > 0 => u.nonce[SpaceOf(q.nonce)] > NonceOf(q.nonce)
    BY <1>1, <2>1, <2>2, <2>3, <2>4, NonceAssumption DEF ReplaySafe
  <2>7. l2.accepted[q] <= 1
    BY <2>1, <2>2, <2>5 DEF ReplaySafe
  <2>8. ASSUME NEW p \in Requests, p # q, p.nonce = q.nonce
        PROVE  l2.accepted[q] = 0 \/ l2.accepted[p] = 0
    BY <2>1, <2>2, <2>5, <2>8 DEF ReplaySafe
  <2> QED BY <2>6, <2>7, <2>8
<1>10. r.batch \in TrustedBatches
  BY <1>7, TrustAssumption
<1> QED BY <1>4, <1>6, <1>8, <1>9, <1>10 DEF WorldOK

-----------------------------------------------------------------------------
(* The call stack. *)

\* What is left of a sequence without its last element.
LEMMA FrontFacts ==
  ASSUME NEW S, NEW q \in Seq(S), q # <<>>
  PROVE  /\ Front(q) \in Seq(S) /\ Len(Front(q)) = Len(q) - 1
         /\ \A i \in 1 .. Len(q) - 1 : Front(q)[i] = q[i]
BY SMT DEF Front

\* A call finds the storage it was made in behind whatever it writes.
LEMMA StackPush ==
  ASSUME NEW st, NEW s \in Store, NEW u \in Store, NEW f \in Frame,
         StackOK(st, s), FrameOK(f), f.saved = s, NoncesBehind(s, u),
         Len(st) < MaxDepth
  PROVE  StackOK(Append(st, f), u)
<1> DEFINE new == Append(st, f)
<1>1. /\ st \in Seq(Frame) /\ Len(st) \in Nat
      /\ new \in Seq(Frame) /\ Len(new) = Len(st) + 1
      /\ new[Len(st) + 1] = f
      /\ \A i \in 1 .. Len(st) : new[i] = st[i] /\ st[i].saved \in Store
  <2>1. st \in Seq(Frame)
    BY DEF StackOK
  <2>2. \A i \in 1 .. Len(st) : st[i].saved \in Store
    BY DEF StackOK, FrameOK, WorldOK
  <2>3. Len(st) \in Nat
    BY <2>1, LenProperties
  <2> QED BY <2>1, <2>2, <2>3, AppendProperties
<1>2. \A i \in 1 .. Len(st) : NoncesBehind(st[i].saved, s)
  BY DEF StackOK
<1>3. \A i \in 1 .. Len(st) : NoncesBehind(st[i].saved, u)
  BY <1>1, <1>2, BehindTransitive
<1>4. ASSUME NEW i \in 1 .. Len(new)
      PROVE  /\ FrameOK(new[i])
             /\ NoncesBehind(new[i].saved, u)
             /\ \A j \in i .. Len(new) : NoncesBehind(new[i].saved, new[j].saved)
  <2>1. CASE i = Len(st) + 1
    BY <1>1, <2>1, BehindReflexive
  <2>2. CASE i \in 1 .. Len(st)
    <3>1. FrameOK(st[i]) /\ \A j \in i .. Len(st) : NoncesBehind(st[i].saved, st[j].saved)
      BY <2>2 DEF StackOK
    <3>2. ASSUME NEW j \in i .. Len(new)
          PROVE  NoncesBehind(new[i].saved, new[j].saved)
      BY <1>1, <1>2, <2>2, <3>1
    <3> QED BY <1>1, <1>3, <2>2, <3>1, <3>2
  <2> QED BY <1>1, <2>1, <2>2
<1>5. Len(new) <= MaxDepth
  BY <1>1, BoundAssumption
<1> QED BY <1>1, <1>4, <1>5 DEF StackOK

\* The call that ends, whether its effects are kept or reverted.
LEMMA StackPop ==
  ASSUME NEW st, NEW s \in Store, StackOK(st, s), st # <<>>
  PROVE  /\ StackOK(Front(st), s)
         /\ WorldOK(st[Len(st)].saved, st[Len(st)].savedLedger)
         /\ StackOK(Front(st), st[Len(st)].saved)
<1> DEFINE new == Front(st)
<1>1. st \in Seq(Frame) /\ Len(st) \in Nat \ {0} /\ Len(st) <= MaxDepth
  BY EmptySeq DEF StackOK
<1>3. /\ new \in Seq(Frame) /\ Len(new) = Len(st) - 1
      /\ \A i \in 1 .. Len(st) - 1 : new[i] = st[i]
  BY <1>1, FrontFacts
<1> HIDE DEF new
<1>4. \A i \in 1 .. Len(st) :
        /\ FrameOK(st[i])
        /\ NoncesBehind(st[i].saved, s)
        /\ \A j \in i .. Len(st) : NoncesBehind(st[i].saved, st[j].saved)
  BY DEF StackOK
<1>5. Len(new) <= MaxDepth
  BY <1>1, <1>3, BoundAssumption
<1>6. StackOK(new, s)
  BY <1>1, <1>3, <1>4, <1>5, SMTT(30) DEF StackOK
<1>7. StackOK(new, st[Len(st)].saved)
  <2>1. ASSUME NEW i \in 1 .. Len(new)
        PROVE  /\ FrameOK(new[i])
               /\ NoncesBehind(new[i].saved, st[Len(st)].saved)
               /\ \A j \in i .. Len(new) : NoncesBehind(new[i].saved, new[j].saved)
    <3>1. i \in 1 .. Len(st) /\ Len(st) \in i .. Len(st) /\ new[i] = st[i]
      BY <1>1, <1>3
    <3>2. FrameOK(new[i]) /\ NoncesBehind(new[i].saved, st[Len(st)].saved)
      BY <1>4, <3>1
    <3>3. ASSUME NEW j \in i .. Len(new) PROVE NoncesBehind(new[i].saved, new[j].saved)
      <4>1. j \in i .. Len(st) /\ new[j] = st[j]
        BY <1>1, <1>3, <3>1
      <4> QED BY <1>4, <3>1, <4>1
    <3> QED BY <3>2, <3>3
  <2> QED BY <1>3, <1>5, <2>1 DEF StackOK
<1>8. WorldOK(st[Len(st)].saved, st[Len(st)].savedLedger)
  BY <1>1, <1>4 DEF FrameOK
<1> QED BY <1>6, <1>7, <1>8 DEF new

\* The bundle moves on to its next transaction.
LEMMA StackAdvance ==
  ASSUME NEW st, NEW s \in Store, StackOK(st, s), st # <<>>
  PROVE  StackOK([st EXCEPT ![Len(st)].pc = @ + 1], s)
<1> DEFINE top == st[Len(st)]
           f == [top EXCEPT !.pc = @ + 1]
           new == [st EXCEPT ![Len(st)] = f]
<1>1. st \in Seq(Frame) /\ Len(st) \in 1 .. Len(st) /\ Len(st) \in Nat \ {0}
  BY EmptySeq DEF StackOK
<1>2. top \in Frame
  BY <1>1, ElementOfSeq
<1>3. /\ f \in Frame /\ f.saved = top.saved /\ f.savedLedger = top.savedLedger
      /\ f.code = top.code /\ f.batch = top.batch
  BY <1>2 DEF Frame
<1>4. /\ new \in Seq(Frame) /\ Len(new) = Len(st)
      /\ \A i \in 1 .. Len(st) : new[i] = IF i = Len(st) THEN f ELSE st[i]
  <2> HIDE DEF f
  <2> QED BY <1>1, <1>3, ExceptSeq
<1> HIDE DEF f, new
<1>5. /\ Len(st) <= MaxDepth
      /\ \A i \in 1 .. Len(st) :
           /\ FrameOK(st[i])
           /\ NoncesBehind(st[i].saved, s)
           /\ \A j \in i .. Len(st) : NoncesBehind(st[i].saved, st[j].saved)
  BY DEF StackOK
<1>6. \A i \in 1 .. Len(st) : new[i].saved = st[i].saved
  BY <1>3, <1>4
<1>7. \A i \in 1 .. Len(st) : FrameOK(new[i])
  BY <1>3, <1>4, <1>5 DEF FrameOK
<1>8. StackOK(new, s)
  BY <1>1, <1>4, <1>5, <1>6, <1>7 DEF StackOK
<1> QED BY <1>8 DEF new, f

\* The storage moves forward under the same calls.
LEMMA StackStore ==
  ASSUME NEW st, NEW s \in Store, NEW u \in Store, StackOK(st, s), NoncesBehind(s, u)
  PROVE  StackOK(st, u)
<1>1. \A i \in 1 .. Len(st) : st[i].saved \in Store /\ NoncesBehind(st[i].saved, s)
  BY DEF StackOK, FrameOK, WorldOK
<1>2. \A i \in 1 .. Len(st) : NoncesBehind(st[i].saved, u)
  BY <1>1, BehindTransitive
<1> QED BY <1>2 DEF StackOK

-----------------------------------------------------------------------------
(* The invariant. *)

\* A fresh wallet has accepted nothing and trusts its salt configuration.
LEMMA InitInv == Init => Inv
<1> SUFFICES ASSUME Init PROVE Inv
  OBVIOUS
<1>1. FreshStore \in Store
  BY NonceAssumption DEF FreshStore, Store, MainModules
<1>2. EmptyLedger \in Ledger
  BY RequestAssumption DEF EmptyLedger, Ledger
<1>3. \A r \in Requests : EmptyLedger.accepted[r] = 0
  BY DEF EmptyLedger
<1>4. ReplaySafe(FreshStore, EmptyLedger)
  BY <1>3 DEF ReplaySafe
<1>5. TrustSafe(FreshStore, EmptyLedger)
  BY <1>3 DEF TrustSafe, FreshStore
<1>6. StackOK(<<>>, FreshStore)
  BY EmptySeq, BoundAssumption DEF StackOK
<1> QED BY <1>1, <1>2, <1>4, <1>5, <1>6, BoundAssumption DEF Init, Inv, WorldOK

\* The innermost call and, if it is a bundle, the transaction it is at.
LEMMA TopFacts ==
  ASSUME Inv, stack # <<>>
  PROVE  /\ Len(stack) \in Nat \ {0} /\ stack \in Seq(Frame)
         /\ Top \in Frame /\ FrameOK(Top)
         /\ Running("wallet") =>
              Top.batch \in Batches /\ Top.batch \in TrustedBatches
<1>1. stack \in Seq(Frame) /\ Len(stack) \in Nat \ {0}
  BY EmptySeq DEF Inv, StackOK
<1>2. Top \in Frame
  BY <1>1, ElementOfSeq DEF Top
<1>3. FrameOK(Top)
  BY <1>1 DEF Inv, StackOK, Top
<1> QED BY <1>1, <1>2, <1>3 DEF FrameOK, Running

\* The transaction a bundle is at is one of its batch's.
LEMMA CurrentFacts ==
  ASSUME Inv, AtTransaction
  PROVE  /\ Current \in Tx /\ TxIsTrusted(Current)
         /\ Current.op = "selfExecute" =>
              Current.batch \in Batches /\ Current.batch \in TrustedBatches
<1>1. stack # <<>> /\ Running("wallet")
  BY DEF AtTransaction, Running
<1>2. Top.batch \in Batches /\ Top.batch \in TrustedBatches /\ Top \in Frame
  BY <1>1, TopFacts
<1>3. Len(Body[Top.batch]) \in Nat
  BY <1>2, RequestAssumption, LenProperties
<1>4. Top.pc \in 1 .. Len(Body[Top.batch])
  BY <1>2, <1>3 DEF AtTransaction, Frame
<1>5. Current \in Tx
  BY <1>2, <1>4, BodyFacts DEF Current
<1>6. TxIsTrusted(Current)
  BY <1>2, <1>4, TrustAssumption DEF Current
<1>7. Current.op = "selfExecute" => Current.batch \in Batches
  BY <1>5 DEF Tx
<1> QED BY <1>5, <1>6, <1>7 DEF TxIsTrusted

\* Ledgers that differ in the counts of batches agree on the requests.
LEMMA WorldLedger ==
  ASSUME NEW s, NEW l, NEW l2 \in Ledger, WorldOK(s, l), l2.accepted = l.accepted
  PROVE  WorldOK(s, l2)
BY DEF WorldOK, ReplaySafe, TrustSafe

\* A call made now comes back, if it reverts, to the present storage.
LEMMA NewFrameOK ==
  ASSUME Inv, NEW code \in {"wallet", "foreign"}, NEW batch \in Batches \cup {NoBatch},
         code = "wallet" <=> batch \in Batches,
         code = "wallet" => batch \in TrustedBatches
  PROVE  /\ NewFrame(code, batch) \in Frame
         /\ FrameOK(NewFrame(code, batch))
         /\ NewFrame(code, batch).saved = store
BY DEF Inv, WorldOK, NewFrame, Frame, FrameOK

\* A call that returns leaves the storage to its caller.
LEMMA PopInv ==
  ASSUME Inv, stack # <<>>, NEW outcome \in {"ok", "failed"}, Pop(outcome),
         UNCHANGED <<store, ledger, now>>
  PROVE  Inv'
<1>1. StackOK(Front(stack), store)
  BY StackPop DEF Inv, WorldOK
<1> QED BY <1>1 DEF Inv, Pop

\* A call that reverts brings back a storage that was good.
LEMMA RevertInv ==
  ASSUME Inv, stack # <<>>, RevertFrame
  PROVE  Inv'
<1>1. /\ WorldOK(Top.saved, Top.savedLedger)
      /\ StackOK(Front(stack), Top.saved)
  BY StackPop DEF Inv, WorldOK, Top
<1> QED BY <1>1 DEF Inv, RevertFrame, Pop

\* Entering foreign code changes no storage.
LEMMA BeginInv == Inv /\ Begin => Inv'
<1> SUFFICES ASSUME Inv, Begin PROVE Inv'
  OBVIOUS
<1> DEFINE f == NewFrame("foreign", NoBatch)
<1>1. f \in Frame /\ FrameOK(f) /\ f.saved = store
  BY NewFrameOK, BoundAssumption
<1>2. store \in Store /\ StackOK(stack, store)
  BY DEF Inv, WorldOK
<1>3. stack' = Append(stack, f) /\ Len(stack) < MaxDepth
  BY DEF Begin, Push
<1> HIDE DEF f
<1>4. StackOK(Append(stack, f), store)
  BY <1>1, <1>2, <1>3, StackPush, BehindReflexive
<1> QED BY <1>3, <1>4 DEF Inv, Begin

\* A request accepted spends its nonce before its bundle starts.
LEMMA ExecuteInv ==
  ASSUME NEW r \in Requests, Inv, Execute(r)
  PROVE  Inv'
<1> DEFINE f == NewFrame("wallet", r.batch)
<1>1. /\ store \in Store /\ ledger \in Ledger /\ WorldOK(store, ledger)
      /\ StackOK(stack, store) /\ now \in Nat
  BY DEF Inv, WorldOK
<1>2. /\ ledger' \in Ledger
      /\ ledger'.accepted = [ledger.accepted EXCEPT ![r] = @ + 1]
  <2>1. r.batch \in Batches
    BY RequestFacts
  <2>2. [ledger.accepted EXCEPT ![r] = @ + 1] \in [Requests -> Nat]
    BY <1>1 DEF Ledger
  <2>3. [ledger.started EXCEPT ![r.batch] = @ + 1] \in [Batches -> Nat]
    BY <1>1, <2>1 DEF Ledger
  <2>4. ledger' = [ledger EXCEPT !.accepted = [ledger.accepted EXCEPT ![r] = @ + 1],
                                 !.started = [ledger.started EXCEPT ![r.batch] = @ + 1]]
    BY <1>1 DEF Execute, Ledger
  <2> QED BY <1>1, <2>2, <2>3, <2>4 DEF Ledger
<1>3. /\ WorldOK(store', ledger')
      /\ NoncesBehind(store, store')
      /\ r.batch \in TrustedBatches
  BY <1>1, <1>2, AcceptOK DEF Execute
<1>4. f \in Frame /\ FrameOK(f) /\ f.saved = store
  BY <1>3, RequestFacts, NewFrameOK
<1>5. stack' = Append(stack, f) /\ Len(stack) < MaxDepth
  BY DEF Execute, Push
<1> HIDE DEF f
<1>6. StackOK(stack', store')
  BY <1>1, <1>3, <1>4, <1>5, StackPush DEF WorldOK
<1> QED BY <1>3, <1>6 DEF Inv, Execute

\* onlySelf refuses foreign code.
LEMMA CallDirectlyInv ==
  ASSUME NEW tx, Inv, CallDirectly(tx)
  PROVE  Inv'
BY DEF CallDirectly, OnlySelf, Inv

\* What a wallet function or a helper writes is good.
LEMMA CallLocalInv == Inv /\ CallLocal => Inv'
<1> SUFFICES ASSUME Inv, CallLocal PROVE Inv'
  OBVIOUS
<1>1. /\ store \in Store /\ ledger \in Ledger /\ WorldOK(store, ledger)
      /\ StackOK(stack, store) /\ now \in Nat
  BY DEF Inv, WorldOK
<1>2. Current \in Tx /\ TxIsTrusted(Current)
  BY CurrentFacts DEF CallLocal
<1>3. CASE Succeeds(Current, store, now)
  <2> DEFINE u == Result(Current, store)
  <2>1. /\ u \in Store /\ NoncesBehind(store, u)
        /\ \A space \in Spaces \ {SessionSpace} : u.nonce[space] = store.nonce[space]
    BY <1>1, <1>2, <1>3, ResultOK
  <2>2. TrustSafe(u, ledger)
    BY <1>1, <1>2, <1>3, ResultTrusted DEF WorldOK
  <2> HIDE DEF u
  <2>3. ReplaySafe(u, ledger)
    BY <1>1, <2>1, RequestFacts DEF WorldOK, ReplaySafe
  <2>4. StackOK(stack, u)
    BY <1>1, <2>1, StackStore
  <2>5. store' = u
    BY <1>3 DEF CallLocal, u
  <2> QED BY <1>1, <2>1, <2>2, <2>3, <2>4, <2>5 DEF Inv, CallLocal, WorldOK
<1>4. CASE ~ Succeeds(Current, store, now)
  BY <1>4 DEF Inv, CallLocal
<1> QED BY <1>3, <1>4

\* A nested bundle is trusted as the one that calls it.
LEMMA CallSelfExecuteInv == Inv /\ CallSelfExecute => Inv'
<1> SUFFICES ASSUME Inv, CallSelfExecute PROVE Inv'
  OBVIOUS
<1> DEFINE b == Current.batch
           f == NewFrame("wallet", b)
<1>1. store \in Store /\ ledger \in Ledger /\ StackOK(stack, store)
  BY DEF Inv, WorldOK
<1>2. b \in Batches /\ b \in TrustedBatches
  BY CurrentFacts DEF CallSelfExecute
<1>3. f \in Frame /\ FrameOK(f) /\ f.saved = store
  BY <1>2, NewFrameOK
<1>4. stack' = Append(stack, f) /\ Len(stack) < MaxDepth
  BY DEF CallSelfExecute, Push
<1> HIDE DEF f
<1>5. StackOK(stack', store')
  BY <1>1, <1>3, <1>4, StackPush, BehindReflexive DEF CallSelfExecute
<1>6. ledger' \in Ledger /\ ledger'.accepted = ledger.accepted
  <2>1. [ledger.started EXCEPT ![b] = @ + 1] \in [Batches -> Nat]
    BY <1>1, <1>2 DEF Ledger
  <2>2. ledger' = [ledger EXCEPT !.started = [ledger.started EXCEPT ![b] = @ + 1]]
    BY <1>1 DEF CallSelfExecute, Ledger
  <2> QED BY <1>1, <2>1, <2>2 DEF Ledger
<1>7. WorldOK(store', ledger')
  BY <1>6, WorldLedger DEF Inv, CallSelfExecute
<1> QED BY <1>5, <1>7 DEF Inv, CallSelfExecute

\* Calling foreign code changes no storage.
LEMMA CallForeignInv == Inv /\ CallForeign => Inv'
<1> SUFFICES ASSUME Inv, CallForeign PROVE Inv'
  OBVIOUS
<1> DEFINE f == NewFrame("foreign", NoBatch)
<1>1. f \in Frame /\ FrameOK(f) /\ f.saved = store
  BY NewFrameOK, BoundAssumption
<1>2. store \in Store /\ StackOK(stack, store)
  BY DEF Inv, WorldOK
<1>3. stack' = Append(stack, f) /\ Len(stack) < MaxDepth
  BY DEF CallForeign, Push
<1> HIDE DEF f
<1>4. StackOK(Append(stack, f), store)
  BY <1>1, <1>2, <1>3, StackPush, BehindReflexive
<1> QED BY <1>3, <1>4 DEF Inv, CallForeign

\* Moving to the next transaction keeps the call stack.
LEMMA NextTransactionOK ==
  ASSUME Inv, stack # <<>>, NextTransaction
  PROVE  StackOK(stack', store) /\ returned' \in {"none", "ok", "failed"}
BY StackAdvance DEF Inv, WorldOK, NextTransaction

\* Counting a transaction that succeeded touches no request.
LEMMA TxExecutedInv == Inv /\ TxExecuted => Inv'
<1> SUFFICES ASSUME Inv, TxExecuted PROVE Inv'
  OBVIOUS
<1>1. stack # <<>> /\ Running("wallet") /\ ledger \in Ledger
  BY DEF TxExecuted, Running, Inv, WorldOK
<1>2. Top.batch \in Batches /\ ledger.executed[Top.batch] \in Seq(Nat)
  BY <1>1, TopFacts DEF Ledger
<1> DEFINE q == ledger.executed[Top.batch]
<1>3. [q EXCEPT ![Top.pc] = @ + 1] \in Seq(Nat)
  <2>1. CASE Top.pc \in 1 .. Len(q)
    <3>1. q[Top.pc] \in Nat
      BY <1>2, <2>1, ElementOfSeq
    <3> QED BY <1>2, <2>1, <3>1, ExceptSeq, SMTT(30)
  <2>2. CASE Top.pc \notin 1 .. Len(q)
    <3>1. DOMAIN q = 1 .. Len(q)
      BY <1>2, LenProperties
    <3>2. [q EXCEPT ![Top.pc] = @ + 1] = q
      BY <1>2, <2>2, <3>1, SMTT(30)
    <3> QED BY <1>2, <3>2
  <2> QED BY <2>1, <2>2
<1>4. [ledger.executed EXCEPT ![Top.batch] = [q EXCEPT ![Top.pc] = @ + 1]]
        \in [Batches -> Seq(Nat)]
  BY <1>1, <1>3 DEF Ledger
<1>5. ledger' = [ledger EXCEPT !.executed =
                  [ledger.executed EXCEPT ![Top.batch] = [q EXCEPT ![Top.pc] = @ + 1]]]
  BY <1>1 DEF TxExecuted, Ledger
<1>6. ledger' \in Ledger /\ ledger'.accepted = ledger.accepted
  BY <1>1, <1>4, <1>5 DEF Ledger
<1>7. WorldOK(store', ledger')
  BY <1>6, WorldLedger DEF Inv, TxExecuted
<1>8. StackOK(stack', store) /\ returned' \in {"none", "ok", "failed"}
  BY <1>1, NextTransactionOK DEF TxExecuted
<1> QED BY <1>7, <1>8 DEF Inv, TxExecuted

\* Going on without an optional transaction changes no storage.
LEMMA TxFailedInv == Inv /\ TxFailed => Inv'
BY NextTransactionOK DEF TxFailed, Running, Inv

\* Every step of the wallet keeps Inv.
LEMMA NextInv == Inv /\ [Next]_vars => Inv'
<1> SUFFICES ASSUME Inv, [Next]_vars PROVE Inv'
  OBVIOUS
<1>1. CASE Begin
  BY <1>1, BeginInv
<1>2. ASSUME NEW r \in Requests, Execute(r) PROVE Inv'
  BY <1>2, ExecuteInv
<1>3. ASSUME NEW b \in Batches, NEW i \in 1 .. Len(Body[b]), CallDirectly(Body[b][i])
      PROVE  Inv'
  BY <1>3, CallDirectlyInv
<1>4. CASE ForeignReturn
  BY <1>4, PopInv DEF ForeignReturn, Running
<1>5. CASE CallLocal
  BY <1>5, CallLocalInv
<1>6. CASE CallOutOfGas
  BY <1>6 DEF CallOutOfGas, Inv
<1>7. CASE CallSelfExecute
  BY <1>7, CallSelfExecuteInv
<1>8. CASE CallForeign
  BY <1>8, CallForeignInv
<1>9. CASE TxExecuted
  BY <1>9, TxExecutedInv
<1>10. CASE TxFailed
  BY <1>10, TxFailedInv
<1>11. CASE RevertOnError
  BY <1>11, RevertInv DEF RevertOnError, Running
<1>12. CASE EndBundle
  BY <1>12, PopInv DEF EndBundle, Running
<1>13. CASE Fail
  BY <1>13, RevertInv DEF Fail
<1>14. CASE Tick
  BY <1>14 DEF Tick, Inv
<1>15. CASE UNCHANGED vars
  BY <1>15 DEF vars, Inv
<1> QED BY <1>1, <1>2, <1>3, <1>4, <1>5, <1>6, <1>7, <1>8, <1>9, <1>10,
           <1>11, <1>12, <1>13, <1>14, <1>15 DEF Next

\* Inv holds of every state the wallet reaches.
THEOREM Invariance == Spec => []Inv
BY InitInv, NextInv, PTL DEF Spec

-----------------------------------------------------------------------------
(* What follows from it. *)

\* The storage, the history and the call stack keep their types.
THEOREM TypeCorrect == Spec => []TypeOK
<1>1. Inv => TypeOK
  BY DEF Inv, WorldOK, StackOK, FrameOK, TypeOK
<1> QED BY <1>1, Invariance, PTL

\* No request runs twice and no two share a nonce, outside the session
\* space: whoever calls back into execute, and whatever reverts.
THEOREM ReplayProtection == Spec => []NoReplay
<1>1. Inv => NoReplay
  BY DEF Inv, WorldOK, ReplaySafe, NoReplay
<1> QED BY <1>1, Invariance, PTL

\* A revert never brings back a nonce that a call still running has used.
THEOREM NonceMonotonicity == Spec => []NoncesNeverRewind
<1>1. Inv => NoncesNeverRewind
  BY DEF Inv, StackOK, NoncesNeverRewind
<1> QED BY <1>1, Invariance, PTL

\* Only configurations that trusted ones signed for are ever in charge.
THEOREM ControlIsInherited == Spec => []NoTakeover
<1>1. ASSUME Inv, NEW c \in Configs, IsValidImage(store, now, c)
      PROVE  c \in TrustedConfigs
  BY <1>1, TrustAssumption, ConfigAssumption
  DEF Inv, WorldOK, TrustSafe, IsValidImage, IsMainImage
<1>2. Inv => NoTakeover
  BY <1>1 DEF NoTakeover, Inv, WorldOK, TrustSafe
<1> QED BY <1>2, Invariance, PTL

-----------------------------------------------------------------------------
(***************************************************************************)
(* What bundles leave behind.  Each call on the stack is related to the    *)
(* storage and the ledger it was made in and to those of the call it has   *)
(* made (or the present ones): Leads says what a call in progress may have *)
(* changed so far, Settled what a blockchain transaction leaves.           *)
(***************************************************************************)

\* What is true of every storage with its ledger.
HistoryOK(s, l) ==
  /\ \A b \in Batches : Len(l.executed[b]) = Len(Body[b])
  /\ \A r \in Requests : l.accepted[r] <= l.started[r.batch]
  /\ \A b \in Batches : IsSessionBatch(b) /\ l.executed[b][1] > 0 =>
       l.executed[b][1] = 1 /\ Body[b][1].gapNonce <= s.gapNonce
  /\ \A space \in Spaces \ {SessionSpace} :
       SpentNonces(l, space) = 0 .. s.nonce[space] - 1

\* How often transaction i of batch b was started and has not been executed.
Owed(l, b, i) == l.started[b] - l.executed[b][i]

\* 1 if call f still has to come past transaction i of batch b.
Pending(f, b, i) == IF f.code = "wallet" /\ f.batch = b /\ f.pc <= i THEN 1 ELSE 0

Accounted(f, l) ==
  \A b \in Batches : \A i \in 1 .. Len(Body[b]) :
    /\ Owed(l, b, i) >= Owed(f.savedLedger, b, i) + Pending(f, b, i)
    /\ Body[b][i].required =>
         Owed(l, b, i) = Owed(f.savedLedger, b, i) + Pending(f, b, i)
    /\ f.savedLedger.executed[b][i] <= l.executed[b][i]

SetsImage(b, i) == Body[b][i].op = "updateImageHash" /\ Body[b][i].required

Locked(s) == s.implementation = "MainModuleUpgradable" /\ s.imageHash = NoConfig

\* A call that locks the wallet still has to set its image hash.
Upgrading(f, s) ==
  /\ f.saved.imageHash # NoConfig => s.imageHash # NoConfig
  /\ f.code = "wallet" =>
       \A j \in 1 .. Len(Body[f.batch]) :
         SetsImage(f.batch, j) /\ j < f.pc => s.imageHash # NoConfig
  /\ UpgradesAreCompleted /\ Locked(s) =>
       \/ Locked(f.saved)
       \/ /\ f.code = "wallet"
          /\ \E j \in 1 .. Len(Body[f.batch]) : SetsImage(f.batch, j) /\ f.pc <= j

Leads(f, s, l) == Accounted(f, l) /\ Upgrading(f, s)

Settled(s, l) ==
  /\ \A b \in Batches : \A i \in 1 .. Len(Body[b]) :
       /\ Owed(l, b, i) >= 0
       /\ Body[b][i].required => Owed(l, b, i) = 0
  /\ UpgradesAreCompleted => ~ Locked(s)

\* Call f, having made call g: a bundle is at a transaction that makes
\* calls, and foreign code makes them to the wallet.
CallsOut(f, g) ==
  /\ f.code = "foreign" => g.code = "wallet"
  /\ f.code = "wallet" =>
       /\ f.pc <= Len(Body[f.batch])
       /\ Body[f.batch][f.pc].op \in {"call", "createContract", "selfExecute"}

Chain(st, s, l) ==
  /\ \A k \in 1 .. Len(st) : HistoryOK(st[k].saved, st[k].savedLedger)
  /\ \A k \in 1 .. Len(st) - 1 :
       /\ CallsOut(st[k], st[k + 1])
       /\ Leads(st[k], st[k + 1].saved, st[k + 1].savedLedger)
  /\ IF st = <<>> THEN Settled(s, l)
     ELSE Settled(st[1].saved, st[1].savedLedger) /\ Leads(st[Len(st)], s, l)

\* What the answer of a call means for the bundle that made it.
AnswerOK ==
  /\ returned # "none" => Running("wallet") /\ Top.pc <= Len(Body[Top.batch])
  /\ returned = "ok" =>
       /\ Current.op = "requireSessionNonce" =>
            /\ Current.gapNonce <= store.gapNonce
            /\ \A b \in Batches : IsSessionBatch(b) /\ ledger.executed[b][1] > 0 =>
                 Body[b][1].gapNonce < Current.gapNonce
       /\ Current.op = "updateImageHash" => store.imageHash # NoConfig

Past ==
  /\ HistoryOK(store, ledger)
  /\ Chain(stack, store, ledger)
  /\ AnswerOK

History == Inv /\ Past

\* The first transaction of a session batch names a gap nonce.
LEMMA SessionFacts ==
  ASSUME NEW b \in Batches, IsSessionBatch(b)
  PROVE  1 \in 1 .. Len(Body[b]) /\ Body[b][1].gapNonce \in Nat
<1>1. Body[b] \in Seq(Tx) /\ Body[b] # <<>>
  BY RequestAssumption DEF IsSessionBatch
<1>2. 1 \in 1 .. Len(Body[b])
  BY <1>1, EmptySeq
<1>3. Body[b][1] \in Tx
  BY <1>2, BodyFacts
<1> QED BY <1>2, <1>3 DEF IsSessionBatch, Tx

\* The counts of a ledger are numbers, one for each transaction.
LEMMA CountFacts ==
  ASSUME NEW s, NEW l \in Ledger, HistoryOK(s, l), NEW b \in Batches
  PROVE  /\ l.started[b] \in Nat
         /\ Len(Body[b]) \in Nat
         /\ l.executed[b] \in Seq(Nat) /\ Len(l.executed[b]) = Len(Body[b])
         /\ \A i \in 1 .. Len(Body[b]) : l.executed[b][i] \in Nat
<1>1. l.started[b] \in Nat /\ l.executed[b] \in Seq(Nat)
  BY DEF Ledger
<1>2. Len(Body[b]) \in Nat /\ Len(l.executed[b]) = Len(Body[b])
  BY RequestAssumption, LenProperties DEF HistoryOK
<1>3. \A i \in 1 .. Len(Body[b]) : l.executed[b][i] \in Nat
  BY <1>1, <1>2, ElementOfSeq
<1> QED BY <1>1, <1>2, <1>3

\* So is what is owed of each.
LEMMA OwedIsInt ==
  ASSUME NEW s, NEW l \in Ledger, HistoryOK(s, l), NEW b \in Batches,
         NEW i \in 1 .. Len(Body[b])
  PROVE  Owed(l, b, i) \in Int
<1>1. l.started[b] \in Nat /\ l.executed[b][i] \in Nat
  BY CountFacts
<1> QED BY <1>1 DEF Owed

\* A bundle that has come to its end; foreign code may return at any time.
Finished(f) == f.code = "wallet" => f.pc > Len(Body[f.batch])

\* A call that is over has nothing pending.
LEMMA FinishedFacts ==
  ASSUME NEW f \in Frame, Finished(f), NEW b \in Batches, NEW i \in 1 .. Len(Body[b])
  PROVE  Pending(f, b, i) = 0
<1>1. Len(Body[b]) \in Nat
  BY RequestAssumption, LenProperties
<1> QED BY <1>1 DEF Finished, Pending, Frame

\* What a call and, when it is over, the call it made have done is what the
\* first has done.
LEMMA LeadsCompose ==
  ASSUME NEW f \in Frame, NEW g \in Frame, NEW s \in Store, NEW l \in Ledger,
         HistoryOK(f.saved, f.savedLedger), HistoryOK(g.saved, g.savedLedger),
         HistoryOK(s, l),
         Leads(f, g.saved, g.savedLedger), Leads(g, s, l), Finished(g)
  PROVE  Leads(f, s, l)
<1>1. f.savedLedger \in Ledger /\ g.savedLedger \in Ledger
  BY DEF Frame
<1>2. Accounted(f, l)
  <2> SUFFICES ASSUME NEW b \in Batches, NEW i \in 1 .. Len(Body[b])
               PROVE  /\ Owed(l, b, i) >= Owed(f.savedLedger, b, i) + Pending(f, b, i)
                      /\ Body[b][i].required =>
                           Owed(l, b, i) = Owed(f.savedLedger, b, i) + Pending(f, b, i)
                      /\ f.savedLedger.executed[b][i] <= l.executed[b][i]
    BY DEF Accounted
  <2>1. Pending(g, b, i) = 0 /\ Pending(f, b, i) \in Nat
    BY FinishedFacts DEF Pending
  <2>2. /\ l.started[b] \in Nat /\ l.executed[b][i] \in Nat
        /\ f.savedLedger.started[b] \in Nat /\ f.savedLedger.executed[b][i] \in Nat
        /\ g.savedLedger.started[b] \in Nat /\ g.savedLedger.executed[b][i] \in Nat
    BY <1>1, CountFacts
  <2>3. /\ Owed(l, b, i) >= Owed(g.savedLedger, b, i) + Pending(g, b, i)
        /\ Body[b][i].required =>
             Owed(l, b, i) = Owed(g.savedLedger, b, i) + Pending(g, b, i)
        /\ g.savedLedger.executed[b][i] <= l.executed[b][i]
    BY DEF Leads, Accounted
  <2>4. /\ Owed(g.savedLedger, b, i) >= Owed(f.savedLedger, b, i) + Pending(f, b, i)
        /\ Body[b][i].required =>
             Owed(g.savedLedger, b, i) = Owed(f.savedLedger, b, i) + Pending(f, b, i)
        /\ f.savedLedger.executed[b][i] <= g.savedLedger.executed[b][i]
    BY DEF Leads, Accounted
  <2>5. Owed(l, b, i) \in Int /\ Owed(f.savedLedger, b, i) \in Int /\ Owed(g.savedLedger, b, i) \in Int
    BY <1>1, OwedIsInt
  <2>6. Owed(l, b, i) >= Owed(f.savedLedger, b, i) + Pending(f, b, i)
    BY <2>1, <2>3, <2>4, <2>5
  <2>7. Body[b][i].required =>
          Owed(l, b, i) = Owed(f.savedLedger, b, i) + Pending(f, b, i)
    BY <2>1, <2>3, <2>4, <2>5
  <2>8. f.savedLedger.executed[b][i] <= l.executed[b][i]
    BY <2>2, <2>3, <2>4, SMTT(30)
  <2> QED BY <2>6, <2>7, <2>8
<1>3. Upgrading(f, s)
  <2>1. ASSUME UpgradesAreCompleted, Locked(s) PROVE Locked(g.saved)
    <3>1. \/ Locked(g.saved)
          \/ /\ g.code = "wallet"
             /\ \E j \in 1 .. Len(Body[g.batch]) : SetsImage(g.batch, j) /\ g.pc <= j
      BY <2>1 DEF Leads, Upgrading
    <3>2. ASSUME g.code = "wallet", NEW j \in 1 .. Len(Body[g.batch]), g.pc <= j
          PROVE  FALSE
      BY <3>2 DEF Finished, Frame
    <3> QED BY <3>1, <3>2
  <2> QED BY <2>1 DEF Leads, Upgrading
<1> QED BY <1>2, <1>3 DEF Leads

\* A call that is over leaves its caller's settled state settled.
LEMMA SettledCompose ==
  ASSUME NEW g \in Frame, NEW s \in Store, NEW l \in Ledger,
         HistoryOK(g.saved, g.savedLedger), HistoryOK(s, l),
         Settled(g.saved, g.savedLedger), Leads(g, s, l), Finished(g)
  PROVE  Settled(s, l)
<1>1. g.savedLedger \in Ledger
  BY DEF Frame
<1>2. ASSUME NEW b \in Batches, NEW i \in 1 .. Len(Body[b])
      PROVE  /\ Owed(l, b, i) >= 0
             /\ Body[b][i].required => Owed(l, b, i) = 0
  <2>1. Pending(g, b, i) = 0
    BY FinishedFacts
  <2>2. /\ l.started[b] \in Nat /\ l.executed[b][i] \in Nat
        /\ g.savedLedger.started[b] \in Nat /\ g.savedLedger.executed[b][i] \in Nat
    BY <1>1, CountFacts
  <2> QED BY <2>1, <2>2, SMTT(30) DEF Leads, Accounted, Owed, Settled
<1>3. ASSUME UpgradesAreCompleted, Locked(s) PROVE FALSE
  <2>1. ~ Locked(g.saved)
    BY <1>3 DEF Settled
  <2>2. /\ g.code = "wallet"
        /\ \E j \in 1 .. Len(Body[g.batch]) : SetsImage(g.batch, j) /\ g.pc <= j
    BY <1>3, <2>1 DEF Leads, Upgrading
  <2> QED BY <2>2 DEF Finished, Frame
<1> QED BY <1>2, <1>3 DEF Settled

\* A call is made.
LEMMA ChainPush ==
  ASSUME NEW st \in Seq(Frame), NEW s, NEW l, NEW u, NEW m, NEW f \in Frame,
         Chain(st, s, l), HistoryOK(s, l), f.saved = s, f.savedLedger = l,
         st # <<>> => CallsOut(st[Len(st)], f), Leads(f, u, m)
  PROVE  Chain(Append(st, f), u, m)
<1> DEFINE new == Append(st, f)
<1>1. /\ Len(st) \in Nat /\ new \in Seq(Frame) /\ Len(new) = Len(st) + 1
      /\ new[Len(st) + 1] = f /\ new # <<>>
      /\ \A k \in 1 .. Len(st) : new[k] = st[k]
  BY AppendProperties, LenProperties
<1>2. st # <<>> => Len(st) \in 1 .. Len(st)
  BY <1>1, EmptySeq
<1>3. st = <<>> => Len(st) = 0
  OBVIOUS
<1> HIDE DEF new
<1>4. \A k \in 1 .. Len(new) : HistoryOK(new[k].saved, new[k].savedLedger)
  BY <1>1 DEF Chain
<1>5. ASSUME NEW k \in 1 .. Len(new) - 1
      PROVE  /\ CallsOut(new[k], new[k + 1])
             /\ Leads(new[k], new[k + 1].saved, new[k + 1].savedLedger)
  <2>1. CASE k = Len(st)
    <3>1. st # <<>> /\ new[k] = st[Len(st)] /\ new[k + 1] = f
      BY <1>1, <1>3, <2>1
    <3> QED BY <3>1 DEF Chain
  <2>2. CASE k # Len(st)
    <3>1. k \in 1 .. Len(st) - 1 /\ new[k] = st[k] /\ new[k + 1] = st[k + 1]
      BY <1>1, <2>2
    <3> QED BY <3>1 DEF Chain
  <2> QED BY <2>1, <2>2
<1>6. Settled(new[1].saved, new[1].savedLedger)
  <2>1. CASE st = <<>>
    BY <1>1, <1>3, <2>1 DEF Chain
  <2>2. CASE st # <<>>
    BY <1>1, <1>2, <2>2 DEF Chain
  <2> QED BY <2>1, <2>2
<1>7. Chain(new, u, m)
  BY <1>1, <1>4, <1>5, <1>6 DEF Chain
<1> QED BY <1>7 DEF new

\* The innermost call reverts.
LEMMA ChainRevert ==
  ASSUME NEW st \in Seq(Frame), NEW s, NEW l, Chain(st, s, l), st # <<>>
  PROVE  /\ Chain(Front(st), st[Len(st)].saved, st[Len(st)].savedLedger)
         /\ HistoryOK(st[Len(st)].saved, st[Len(st)].savedLedger)
<1> DEFINE new == Front(st)
<1>1. /\ Len(st) \in 1 .. Len(st) /\ new \in Seq(Frame) /\ Len(new) = Len(st) - 1
      /\ \A k \in 1 .. Len(st) - 1 : new[k] = st[k]
  BY FrontFacts, EmptySeq
<1>2. new = <<>> <=> Len(st) = 1
  BY <1>1, EmptySeq
<1> HIDE DEF new
<1>3. CASE Len(st) = 1
  BY <1>1, <1>2, <1>3 DEF Chain, new
<1>4. CASE Len(st) # 1
  <2>1. Leads(new[Len(new)], st[Len(st)].saved, st[Len(st)].savedLedger)
    <3>1. Len(new) \in 1 .. Len(st) - 1 /\ Len(new) + 1 = Len(st) /\ new[Len(new)] = st[Len(new)]
      BY <1>1, <1>4
    <3> QED BY <3>1 DEF Chain
  <2>2. \A k \in 1 .. Len(new) - 1 :
          /\ k \in 1 .. Len(st) - 1 /\ new[k] = st[k] /\ new[k + 1] = st[k + 1]
    BY <1>1
  <2>3. \A k \in 1 .. Len(new) : k \in 1 .. Len(st) /\ new[k] = st[k]
    BY <1>1
  <2>4. 1 \in 1 .. Len(new)
    BY <1>1, <1>4
  <2>5. Settled(new[1].saved, new[1].savedLedger)
    BY <2>3, <2>4 DEF Chain
  <2>6. Chain(new, st[Len(st)].saved, st[Len(st)].savedLedger)
    BY <1>2, <1>4, <2>1, <2>2, <2>3, <2>5 DEF Chain
  <2> QED BY <1>1, <2>6 DEF Chain, new
<1> QED BY <1>3, <1>4

\* The innermost call returns.
LEMMA ChainReturn ==
  ASSUME NEW st \in Seq(Frame), NEW s \in Store, NEW l \in Ledger, st # <<>>,
         Chain(st, s, l), HistoryOK(s, l), Finished(st[Len(st)])
  PROVE  Chain(Front(st), s, l)
<1> DEFINE new == Front(st)
           g == st[Len(st)]
<1>1. /\ Len(st) \in 1 .. Len(st) /\ new \in Seq(Frame) /\ Len(new) = Len(st) - 1
      /\ \A k \in 1 .. Len(st) - 1 : new[k] = st[k]
      /\ \A k \in 1 .. Len(st) : st[k] \in Frame
  BY FrontFacts, EmptySeq, ElementOfSeq
<1>2. new = <<>> <=> Len(st) = 1
  BY <1>1, EmptySeq
<1>3. Chain(new, g.saved, g.savedLedger)
  BY ChainRevert
<1>4. HistoryOK(g.saved, g.savedLedger) /\ g \in Frame /\ Leads(g, s, l) /\ Finished(g)
  BY <1>1, ChainRevert DEF Chain
<1> HIDE DEF new, g
<1>5. CASE new = <<>>
  <2>1. Settled(s, l)
    BY <1>3, <1>4, <1>5, SettledCompose DEF Chain
  <2> QED BY <1>3, <1>5, <2>1 DEF Chain, new
<1>6. CASE new # <<>>
  <2> DEFINE f == new[Len(new)]
  <2>1. Leads(f, g.saved, g.savedLedger) /\ Len(new) \in 1 .. Len(new)
    BY <1>1, <1>2, <1>3, <1>6 DEF Chain
  <2>2. f \in Frame /\ HistoryOK(f.saved, f.savedLedger)
    BY <1>1, <1>3, <2>1, ElementOfSeq DEF Chain
  <2> HIDE DEF f
  <2>3. Leads(f, s, l)
    BY <1>4, <2>1, <2>2, LeadsCompose
  <2> QED BY <1>3, <1>6, <2>3 DEF Chain, new, f
<1> QED BY <1>5, <1>6

\* The innermost call does something of its own.
LEMMA ChainTop ==
  ASSUME NEW st \in Seq(Frame), NEW s, NEW l, NEW u, NEW m, NEW f \in Frame, st # <<>>,
         f.saved = st[Len(st)].saved, f.savedLedger = st[Len(st)].savedLedger,
         f.code = st[Len(st)].code, Chain(st, s, l), Leads(f, u, m)
  PROVE  Chain([st EXCEPT ![Len(st)] = f], u, m)
<1> DEFINE new == [st EXCEPT ![Len(st)] = f]
<1>1. Len(st) \in 1 .. Len(st)
  BY EmptySeq
<1>2. /\ new \in Seq(Frame) /\ Len(new) = Len(st)
      /\ \A i \in 1 .. Len(st) : new[i] = IF i = Len(st) THEN f ELSE st[i]
  BY <1>1, ExceptSeq
<1>3. new # <<>>
  BY <1>1, <1>2, EmptySeq
<1> HIDE DEF new
<1>4. /\ \A k \in 1 .. Len(st) : new[k].saved = st[k].saved /\ new[k].savedLedger = st[k].savedLedger
      /\ \A k \in 1 .. Len(st) - 1 : new[k] = st[k]
      /\ \A k \in 1 .. Len(st) : new[k].code = st[k].code
      /\ 1 \in 1 .. Len(st)
      /\ new[Len(new)] = f
  BY <1>1, <1>2
<1>5. ASSUME NEW k \in 1 .. Len(new) - 1
      PROVE  /\ CallsOut(new[k], new[k + 1])
             /\ Leads(new[k], new[k + 1].saved, new[k + 1].savedLedger)
  <2>1. k \in 1 .. Len(st) - 1 /\ k + 1 \in 1 .. Len(st)
    BY <1>1, <1>2
  <2>2. CallsOut(st[k], st[k + 1]) /\ Leads(st[k], st[k + 1].saved, st[k + 1].savedLedger)
    BY <2>1 DEF Chain
  <2> QED BY <1>4, <2>1, <2>2 DEF CallsOut
<1>6. Chain(new, u, m)
  BY <1>2, <1>3, <1>4, <1>5 DEF Chain
<1> QED BY <1>6 DEF new

\* A call to foreign code has changed nothing yet.
LEMMA ForeignLeads ==
  ASSUME NEW f \in Frame, f.code = "foreign", HistoryOK(f.saved, f.savedLedger)
  PROVE  Leads(f, f.saved, f.savedLedger)
<1>1. f.savedLedger \in Ledger
  BY DEF Frame
<1>2. Accounted(f, f.savedLedger)
  <2> SUFFICES ASSUME NEW b \in Batches, NEW i \in 1 .. Len(Body[b])
               PROVE  /\ Owed(f.savedLedger, b, i) = Owed(f.savedLedger, b, i) + Pending(f, b, i)
                      /\ Owed(f.savedLedger, b, i) \in Int
                      /\ f.savedLedger.executed[b][i] \in Nat
    BY DEF Accounted
  <2>1. f.savedLedger.started[b] \in Nat /\ f.savedLedger.executed[b][i] \in Nat
    BY <1>1, CountFacts
  <2>2. Pending(f, b, i) = 0
    BY DEF Pending
  <2> QED BY <2>1, <2>2 DEF Owed
<1>3. Upgrading(f, f.saved)
  BY DEF Upgrading
<1> QED BY <1>2, <1>3 DEF Leads

\* A bundle that starts owes each of its transactions once.
LEMMA StartLeads ==
  ASSUME NEW f \in Frame, NEW b \in Batches, NEW u \in Store, NEW m \in Ledger,
         f.code = "wallet", f.batch = b, f.pc = 1, HistoryOK(f.saved, f.savedLedger),
         u.imageHash = f.saved.imageHash, u.implementation = f.saved.implementation,
         m.started = [f.savedLedger.started EXCEPT ![b] = @ + 1],
         m.executed = f.savedLedger.executed
  PROVE  Leads(f, u, m)
<1> DEFINE l == f.savedLedger
<1>1. l \in Ledger /\ f.saved \in Store
  BY DEF Frame
<1>2. Accounted(f, m)
  <2> SUFFICES ASSUME NEW a \in Batches, NEW i \in 1 .. Len(Body[a])
               PROVE  /\ Owed(m, a, i) = Owed(l, a, i) + Pending(f, a, i)
                      /\ Owed(m, a, i) \in Int
                      /\ l.executed[a][i] = m.executed[a][i]
                      /\ m.executed[a][i] \in Nat
    BY DEF Accounted
  <2>1. l.started[a] \in Nat /\ l.executed[a][i] \in Nat /\ Len(Body[a]) \in Nat
    BY <1>1, CountFacts
  <2>2. m.started[a] = IF a = b THEN l.started[a] + 1 ELSE l.started[a]
    BY <1>1 DEF Ledger
  <2>3. Pending(f, a, i) = IF a = b THEN 1 ELSE 0
    BY <2>1 DEF Pending
  <2> HIDE DEF l
  <2> QED BY <2>1, <2>2, <2>3, SMTT(30) DEF Owed, l
<1>3. Upgrading(f, u)
  <2>1. Locked(u) => Locked(f.saved)
    BY DEF Locked
  <2>2. \A j \in 1 .. Len(Body[f.batch]) : ~ (j < f.pc)
    BY RequestAssumption, LenProperties
  <2> QED BY <2>1, <2>2 DEF Upgrading
<1> QED BY <1>2, <1>3 DEF Leads

\* A bundle that has come past a transaction: the image hash.
LEMMA AdvanceUpgrading ==
  ASSUME NEW f \in Frame, NEW g \in Frame, NEW s \in Store, f.code = "wallet", f.batch \in Batches,
         g.code = f.code, g.batch = f.batch, g.pc = f.pc + 1, g.saved = f.saved,
         Upgrading(f, s), f.pc <= Len(Body[f.batch]),
         SetsImage(f.batch, f.pc) => s.imageHash # NoConfig
  PROVE  Upgrading(g, s)
<1> DEFINE b == f.batch
           n == f.pc
<1>1. n \in Nat /\ Len(Body[b]) \in Nat
  BY RequestAssumption, LenProperties DEF Frame
<1>2. ASSUME NEW j \in 1 .. Len(Body[b]), SetsImage(b, j), j < n + 1
      PROVE  s.imageHash # NoConfig
  <2>1. CASE j = n
    BY <1>2, <2>1
  <2>2. CASE j # n
    BY <1>1, <1>2, <2>2 DEF Upgrading
  <2> QED BY <2>1, <2>2
<1>3. ASSUME UpgradesAreCompleted, Locked(s), ~ Locked(f.saved)
      PROVE  \E j \in 1 .. Len(Body[b]) : SetsImage(b, j) /\ n + 1 <= j
  <2>1. PICK j \in 1 .. Len(Body[b]) : SetsImage(b, j) /\ n <= j
    BY <1>3 DEF Upgrading
  <2>2. j # n
    BY <1>3, <2>1 DEF Locked
  <2>3. n + 1 <= j
    BY <1>1, <2>1, <2>2
  <2> QED BY <2>1, <2>3
<1> QED BY <1>2, <1>3 DEF Upgrading

\* Ledger m counts one success of transaction i of batch b more than l.
Counts(l, m, b, i) ==
  /\ m.accepted = l.accepted /\ m.started = l.started
  /\ \A a \in Batches :
       /\ Len(m.executed[a]) = Len(l.executed[a])
       /\ \A j \in 1 .. Len(Body[a]) :
            m.executed[a][j] = IF a = b /\ j = i THEN l.executed[a][j] + 1
                               ELSE l.executed[a][j]

\* A transaction that succeeded is owed no longer.
LEMMA ExecutedLeads ==
  ASSUME NEW f \in Frame, NEW g \in Frame, NEW s \in Store, NEW l \in Ledger, NEW m \in Ledger,
         HistoryOK(f.saved, f.savedLedger), HistoryOK(s, l), Leads(f, s, l),
         f.code = "wallet", f.batch \in Batches, f.pc <= Len(Body[f.batch]),
         g.code = f.code, g.batch = f.batch, g.pc = f.pc + 1, g.saved = f.saved,
         g.savedLedger = f.savedLedger,
         SetsImage(f.batch, f.pc) => s.imageHash # NoConfig,
         Counts(l, m, f.batch, f.pc)
  PROVE  Leads(g, s, m)
<1>1. f.savedLedger \in Ledger
  BY DEF Frame
<1>2. Accounted(g, m)
  <2> SUFFICES ASSUME NEW b \in Batches, NEW i \in 1 .. Len(Body[b])
               PROVE  /\ Owed(m, b, i) >= Owed(g.savedLedger, b, i) + Pending(g, b, i)
                      /\ Body[b][i].required =>
                           Owed(m, b, i) = Owed(g.savedLedger, b, i) + Pending(g, b, i)
                      /\ g.savedLedger.executed[b][i] <= m.executed[b][i]
    BY DEF Accounted
  <2>1. /\ l.started[b] \in Nat /\ l.executed[b][i] \in Nat
        /\ f.savedLedger.started[b] \in Nat /\ f.savedLedger.executed[b][i] \in Nat
        /\ f.pc \in Nat /\ Len(Body[b]) \in Nat
    BY <1>1, CountFacts DEF Frame
  <2>2. /\ Owed(l, b, i) >= Owed(f.savedLedger, b, i) + Pending(f, b, i)
        /\ Body[b][i].required =>
             Owed(l, b, i) = Owed(f.savedLedger, b, i) + Pending(f, b, i)
        /\ f.savedLedger.executed[b][i] <= l.executed[b][i]
    BY DEF Leads, Accounted
  <2>m. m.started = l.started /\ m.executed[b][i] = IF b = f.batch /\ i = f.pc
                                                    THEN l.executed[b][i] + 1
                                                    ELSE l.executed[b][i]
    BY DEF Counts
  <2>3. /\ Owed(m, b, i) = Owed(l, b, i) - (Pending(f, b, i) - Pending(g, b, i))
        /\ m.executed[b][i] \in Nat /\ m.executed[b][i] >= l.executed[b][i]
    <3>1. CASE b = f.batch /\ i = f.pc
      <4>1. m.executed[b][i] = l.executed[b][i] + 1
        BY <2>m, <3>1
      <4>2. Pending(f, b, i) = 1 /\ Pending(g, b, i) = 0
        BY <2>1, <3>1 DEF Pending
      <4>3. Owed(m, b, i) = l.started[b] - (l.executed[b][i] + 1)
        BY <2>m, <4>1 DEF Owed
      <4>4. Owed(l, b, i) = l.started[b] - l.executed[b][i]
        BY DEF Owed
      <4>5. m.executed[b][i] \in Nat /\ m.executed[b][i] >= l.executed[b][i]
        BY <2>1, <4>1, SMTT(30)
      <4>6. l.started[b] - (l.executed[b][i] + 1) = l.started[b] - l.executed[b][i] - (1 - 0)
        BY <2>1, SMTT(30)
      <4>7. Owed(m, b, i) = Owed(l, b, i) - (1 - 0)
        BY <4>3, <4>4, <4>6
      <4> QED BY <4>2, <4>5, <4>7
    <3>2. CASE ~ (b = f.batch /\ i = f.pc)
      BY <2>1, <2>m, <3>2, SMTT(30) DEF Owed, Pending
    <3> QED BY <3>1, <3>2
  <2>4. /\ Owed(l, b, i) \in Int /\ Owed(f.savedLedger, b, i) \in Int
        /\ Pending(f, b, i) \in Int /\ Pending(g, b, i) \in Int
    <3>1. Owed(l, b, i) \in Int /\ Owed(f.savedLedger, b, i) \in Int
      BY <1>1, OwedIsInt
    <3>2. Pending(f, b, i) \in Int /\ Pending(g, b, i) \in Int
      BY DEF Pending
    <3> QED BY <3>1, <3>2
  <2>5. Owed(m, b, i) >= Owed(g.savedLedger, b, i) + Pending(g, b, i)
    BY <2>2, <2>3, <2>4
  <2>6. Body[b][i].required =>
          Owed(m, b, i) = Owed(g.savedLedger, b, i) + Pending(g, b, i)
    BY <2>2, <2>3, <2>4
  <2>7. g.savedLedger.executed[b][i] <= m.executed[b][i]
    BY <2>1, <2>2, <2>3, SMTT(30)
  <2> QED BY <2>5, <2>6, <2>7
<1>3. Upgrading(g, s)
  BY AdvanceUpgrading DEF Leads
<1> QED BY <1>2, <1>3 DEF Leads

\* An optional transaction that failed may stay owed.
LEMMA FailedLeads ==
  ASSUME NEW f \in Frame, NEW g \in Frame, NEW s \in Store, NEW l \in Ledger,
         HistoryOK(f.saved, f.savedLedger), HistoryOK(s, l), Leads(f, s, l),
         f.code = "wallet", f.batch \in Batches, f.pc <= Len(Body[f.batch]),
         g.code = f.code, g.batch = f.batch, g.pc = f.pc + 1, g.saved = f.saved,
         g.savedLedger = f.savedLedger, ~ Body[f.batch][f.pc].required
  PROVE  Leads(g, s, l)
<1>1. f.savedLedger \in Ledger
  BY DEF Frame
<1>2. Accounted(g, l)
  <2> SUFFICES ASSUME NEW b \in Batches, NEW i \in 1 .. Len(Body[b])
               PROVE  /\ Owed(l, b, i) >= Owed(g.savedLedger, b, i) + Pending(g, b, i)
                      /\ Body[b][i].required =>
                           Owed(l, b, i) = Owed(g.savedLedger, b, i) + Pending(g, b, i)
                      /\ g.savedLedger.executed[b][i] <= l.executed[b][i]
    BY DEF Accounted
  <2>1. /\ l.started[b] \in Nat /\ l.executed[b][i] \in Nat
        /\ f.savedLedger.started[b] \in Nat /\ f.savedLedger.executed[b][i] \in Nat
        /\ f.pc \in Nat /\ Len(Body[b]) \in Nat
    BY <1>1, CountFacts DEF Frame
  <2>2. /\ Owed(l, b, i) >= Owed(f.savedLedger, b, i) + Pending(f, b, i)
        /\ Body[b][i].required =>
             Owed(l, b, i) = Owed(f.savedLedger, b, i) + Pending(f, b, i)
        /\ f.savedLedger.executed[b][i] <= l.executed[b][i]
    BY DEF Leads, Accounted
  <2>3. /\ Pending(f, b, i) >= Pending(g, b, i)
        /\ ~ (b = f.batch /\ i = f.pc) => Pending(f, b, i) = Pending(g, b, i)
    BY <2>1 DEF Pending
  <2>4. /\ Owed(l, b, i) \in Int /\ Owed(f.savedLedger, b, i) \in Int
        /\ Pending(f, b, i) \in Int /\ Pending(g, b, i) \in Int
    <3>1. Owed(l, b, i) \in Int /\ Owed(f.savedLedger, b, i) \in Int
      BY <1>1, OwedIsInt
    <3>2. Pending(f, b, i) \in Int /\ Pending(g, b, i) \in Int
      BY DEF Pending
    <3> QED BY <3>1, <3>2
  <2>5. Owed(l, b, i) >= Owed(g.savedLedger, b, i) + Pending(g, b, i)
    BY <2>2, <2>3, <2>4
  <2>6. ASSUME Body[b][i].required
        PROVE  Owed(l, b, i) = Owed(g.savedLedger, b, i) + Pending(g, b, i)
    <3>1. Pending(f, b, i) = Pending(g, b, i)
      BY <2>3, <2>6
    <3> QED BY <2>2, <2>6, <3>1
  <2> QED BY <2>2, <2>5, <2>6
<1>3. Upgrading(g, s)
  BY AdvanceUpgrading DEF Leads, SetsImage
<1> QED BY <1>2, <1>3 DEF Leads

\* What the functions a bundle can call on its wallet do to its main
\* configuration.
LEMMA ResultImage ==
  ASSUME NEW s \in Store, NEW tx \in Tx, NEW t \in Nat, Succeeds(tx, s, t)
  PROVE  /\ s.imageHash # NoConfig => Result(tx, s).imageHash # NoConfig
         /\ tx.op = "updateImageHash" => Result(tx, s).imageHash # NoConfig
         /\ Locked(Result(tx, s)) =>
              \/ Locked(s)
              \/ tx.op = "updateImplementation" /\ tx.target = "MainModuleUpgradable"
<1>1. CASE tx.op = "updateImageHash"
  <2>1. tx.image # NoConfig
    BY <1>1 DEF Succeeds, ImageHashIsZero
  <2> QED BY <1>1, <2>1 DEF Result, UpdateImageHash, Store, Locked
<1>2. CASE tx.op = "updateImplementation"
  BY <1>2 DEF Result, UpdateImplementation, Store, Locked
<1>3. CASE tx.op = "setExtraImageHash"
  BY <1>3 DEF Result, SetExtraImageHash, Store, Locked
<1>4. CASE tx.op = "clearExtraImageHashes"
  BY <1>4 DEF Result, ClearExtraImageHashes, Store, Locked
<1>5. CASE tx.op = "setStaticDigest"
  BY <1>5 DEF Result, SetStaticDigests, Store, Locked
<1>6. CASE tx.op = "addStaticDigests"
  BY <1>6 DEF Result, SetStaticDigests, Store, Locked
<1>7. CASE tx.op = "requireSessionNonce"
  BY <1>7 DEF Result, UseSessionNonce, Store, Locked
<1>8. CASE tx.op \notin {"updateImageHash", "updateImplementation",
                         "setExtraImageHash", "clearExtraImageHashes",
                         "setStaticDigest", "addStaticDigests", "requireSessionNonce"}
  <2>1. Result(tx, s) = s
    BY <1>8 DEF Result
  <2> QED BY <1>8, <2>1
<1> QED BY <1>1, <1>2, <1>3, <1>4, <1>5, <1>6, <1>7, <1>8

\* A transaction on the wallet itself: the bundle may owe its image hash now.
LEMMA LocalLeads ==
  ASSUME NEW f \in Frame, NEW s \in Store, NEW l \in Ledger, NEW t \in Nat, Leads(f, s, l),
         f.code = "wallet", f.batch \in Batches, f.pc <= Len(Body[f.batch]),
         Succeeds(Body[f.batch][f.pc], s, t)
  PROVE  Leads(f, Result(Body[f.batch][f.pc], s), l)
<1> DEFINE b == f.batch
           tx == Body[b][f.pc]
           u == Result(tx, s)
<1>1. f.pc \in 1 .. Len(Body[b])
  BY RequestAssumption, LenProperties DEF Frame
<1>2. tx \in Tx
  BY <1>1, BodyFacts
<1>3. /\ s.imageHash # NoConfig => u.imageHash # NoConfig
      /\ tx.op = "updateImageHash" => u.imageHash # NoConfig
      /\ Locked(u) => \/ Locked(s)
                      \/ tx.op = "updateImplementation" /\ tx.target = "MainModuleUpgradable"
  BY <1>2, ResultImage
<1> HIDE DEF u
<1>4. ASSUME UpgradesAreCompleted, Locked(u)
      PROVE  \/ Locked(f.saved)
             \/ \E j \in 1 .. Len(Body[b]) : SetsImage(b, j) /\ f.pc <= j
  <2>1. CASE Locked(s)
    BY <1>4, <2>1 DEF Leads, Upgrading
  <2>2. CASE tx.op = "updateImplementation" /\ tx.target = "MainModuleUpgradable"
    <3>1. PICK j \in 1 .. Len(Body[b]) : SetsImage(b, j)
      BY <1>1, <1>4, <2>2 DEF UpgradesAreCompleted, SetsImage
    <3>2. CASE j < f.pc
      <4>1. s.imageHash # NoConfig
        BY <3>1, <3>2 DEF Leads, Upgrading
      <4> QED BY <1>3, <1>4, <4>1 DEF Locked
    <3>3. CASE ~ (j < f.pc)
      <4>1. f.pc <= j
        BY <1>1, <3>3
      <4> QED BY <3>1, <4>1
    <3> QED BY <3>2, <3>3
  <2> QED BY <1>3, <1>4, <2>1, <2>2
<1>5. Upgrading(f, u)
  BY <1>3, <1>4 DEF Leads, Upgrading
<1> QED BY <1>5 DEF Leads, u

\* A request accepted is counted with its batch, and spends the next nonce.
LEMMA AcceptHistory ==
  ASSUME NEW s \in Store, NEW l \in Ledger, NEW m \in Ledger, NEW r \in Requests,
         HistoryOK(s, l), NonceMatches(s, r),
         m.accepted = [l.accepted EXCEPT ![r] = @ + 1],
         m.started = [l.started EXCEPT ![r.batch] = @ + 1],
         m.executed = l.executed
  PROVE  HistoryOK(UseNonce(s, r), m)
<1> DEFINE space == SpaceOf(r.nonce)
           n == NonceOf(r.nonce)
           u == UseNonce(s, r)
<1>1. space \in Spaces /\ n \in Nat /\ s.nonce[space] = n /\ r.batch \in Batches
  BY RequestFacts, NonceAssumption DEF NonceMatches
<1>2. u.nonce = [s.nonce EXCEPT ![space] = n + 1] /\ u.gapNonce = s.gapNonce
  BY DEF UseNonce, Store
<1> HIDE DEF u
<1>3. \A q \in Requests :
        /\ l.accepted[q] \in Nat /\ l.started[q.batch] \in Nat
        /\ m.accepted[q] = IF q = r THEN l.accepted[q] + 1 ELSE l.accepted[q]
        /\ m.started[q.batch] = IF q.batch = r.batch THEN l.started[q.batch] + 1
                                ELSE l.started[q.batch]
  BY RequestFacts, SMTT(30) DEF Ledger
<1>4. \A q \in Requests : m.accepted[q] <= m.started[q.batch]
  BY <1>3 DEF HistoryOK
<1>5. ASSUME NEW p \in Spaces \ {SessionSpace}
      PROVE  SpentNonces(m, p) = 0 .. u.nonce[p] - 1
  <2>1. SpentNonces(l, p) = 0 .. s.nonce[p] - 1
    BY DEF HistoryOK
  <2>2. CASE p # space
    <3>1. u.nonce[p] = s.nonce[p]
      BY <1>2, <2>2 DEF Store
    <3>2. {q \in Requests : SpaceOf(q.nonce) = p /\ m.accepted[q] > 0} =
          {q \in Requests : SpaceOf(q.nonce) = p /\ l.accepted[q] > 0}
      BY <1>3, <2>2
    <3> QED BY <2>1, <3>1, <3>2 DEF SpentNonces
  <2>3. CASE p = space
    <3>1. u.nonce[p] = n + 1
      BY <1>1, <1>2, <2>3 DEF Store
    <3>2. {q \in Requests : SpaceOf(q.nonce) = p /\ m.accepted[q] > 0} =
          {q \in Requests : SpaceOf(q.nonce) = p /\ l.accepted[q] > 0} \cup {r}
      BY <1>3, <2>3
    <3>3. SpentNonces(m, p) = SpentNonces(l, p) \cup {n}
      BY <3>2 DEF SpentNonces
    <3>4. (0 .. n - 1) \cup {n} = 0 .. (n + 1) - 1
      BY <1>1
    <3> QED BY <1>1, <2>1, <2>3, <3>1, <3>3, <3>4
  <2> QED BY <2>2, <2>3
<1> QED BY <1>2, <1>4, <1>5 DEF HistoryOK, u

\* A nested bundle that starts was asked for by no request.
LEMMA NestedHistory ==
  ASSUME NEW s \in Store, NEW l \in Ledger, NEW m \in Ledger, NEW b \in Batches,
         HistoryOK(s, l), m.accepted = l.accepted,
         m.started = [l.started EXCEPT ![b] = @ + 1], m.executed = l.executed
  PROVE  HistoryOK(s, m)
<1>1. \A r \in Requests :
        /\ r.batch \in Batches /\ l.accepted[r] \in Nat /\ l.started[r.batch] \in Nat
        /\ m.started[r.batch] = IF r.batch = b THEN l.started[b] + 1 ELSE l.started[r.batch]
  BY RequestFacts DEF Ledger
<1>2. \A r \in Requests : m.accepted[r] <= m.started[r.batch]
  BY <1>1 DEF HistoryOK
<1>3. \A space \in Spaces : SpentNonces(m, space) = SpentNonces(l, space)
  BY DEF SpentNonces
<1> QED BY <1>2, <1>3 DEF HistoryOK

\* What a function of the wallet writes fits its history.
LEMMA LocalHistory ==
  ASSUME NEW s \in Store, NEW l \in Ledger, NEW tx \in Tx, NEW t \in Nat,
         Succeeds(tx, s, t), HistoryOK(s, l)
  PROVE  HistoryOK(Result(tx, s), l)
<1> DEFINE u == Result(tx, s)
<1>1. /\ u \in Store /\ s.gapNonce <= u.gapNonce
      /\ \A space \in Spaces \ {SessionSpace} : u.nonce[space] = s.nonce[space]
  BY ResultOK DEF NoncesBehind
<1> HIDE DEF u
<1>2. ASSUME NEW b \in Batches, IsSessionBatch(b), l.executed[b][1] > 0
      PROVE  l.executed[b][1] = 1 /\ Body[b][1].gapNonce <= u.gapNonce
  <2>1. l.executed[b][1] = 1 /\ Body[b][1].gapNonce <= s.gapNonce /\ Body[b][1].gapNonce \in Nat
    BY <1>2, SessionFacts DEF HistoryOK
  <2> QED BY <1>1, <2>1 DEF Store
<1> QED BY <1>1, <1>2 DEF HistoryOK, u

\* A transaction that succeeded is counted; a session batch's first one has
\* a gap nonce later than any that was used before.
LEMMA ExecutedHistory ==
  ASSUME NEW s \in Store, NEW l \in Ledger, NEW m \in Ledger, NEW b \in Batches,
         NEW i \in 1 .. Len(Body[b]), HistoryOK(s, l),
         Counts(l, m, b, i),
         Body[b][i].op = "requireSessionNonce" =>
           /\ Body[b][i].gapNonce <= s.gapNonce
           /\ \A a \in Batches : IsSessionBatch(a) /\ l.executed[a][1] > 0 =>
                Body[a][1].gapNonce < Body[b][i].gapNonce
  PROVE  HistoryOK(s, m)
<1>1. ASSUME NEW a \in Batches, IsSessionBatch(a), m.executed[a][1] > 0
      PROVE  m.executed[a][1] = 1 /\ Body[a][1].gapNonce <= s.gapNonce
  <2>1. 1 \in 1 .. Len(Body[a]) /\ Body[a][1].gapNonce \in Nat
    BY <1>1, SessionFacts
  <2>2. l.executed[a][1] \in Nat
    BY <2>1, CountFacts
  <2>3. m.executed[a][1] = IF a = b /\ 1 = i THEN l.executed[a][1] + 1 ELSE l.executed[a][1]
    BY <2>1 DEF Counts
  <2>4. CASE a = b /\ 1 = i
    <3>1. Body[a][1].op = "requireSessionNonce"
      BY <1>1 DEF IsSessionBatch
    <3>2. ~ (l.executed[a][1] > 0)
      BY <1>1, <2>1, <2>4, <3>1
    <3> QED BY <2>2, <2>3, <2>4, <3>1, <3>2
  <2>5. CASE ~ (a = b /\ 1 = i)
    BY <1>1, <2>3, <2>5 DEF HistoryOK
  <2> QED BY <2>4, <2>5
<1>2. \A space \in Spaces : SpentNonces(m, space) = SpentNonces(l, space)
  BY DEF SpentNonces, Counts
<1>3. \A a \in Batches : Len(m.executed[a]) = Len(Body[a])
  BY DEF HistoryOK, Counts
<1> QED BY <1>1, <1>2, <1>3 DEF HistoryOK, Counts

\* A fresh wallet owes nothing.
LEMMA InitHistory == Init => History
<1> SUFFICES ASSUME Init PROVE History
  OBVIOUS
<1>1. /\ store = FreshStore /\ ledger = EmptyLedger /\ stack = <<>> /\ returned = "none"
  BY DEF Init
<1>2. ASSUME NEW b \in Batches
      PROVE  /\ ledger.started[b] = 0 /\ Len(ledger.executed[b]) = Len(Body[b])
             /\ \A i \in 1 .. Len(Body[b]) : ledger.executed[b][i] = 0
  <2>1. Len(Body[b]) \in Nat
    BY RequestAssumption, LenProperties
  <2>2. ledger.executed[b] = [i \in 1 .. Len(Body[b]) |-> 0] /\ ledger.started[b] = 0
    BY <1>1 DEF EmptyLedger
  <2>3. ledger.executed[b] \in Seq(Nat)
    BY <2>1, <2>2
  <2>4. 1 .. Len(ledger.executed[b]) = 1 .. Len(Body[b]) /\ Len(ledger.executed[b]) \in Nat
    <3>1. DOMAIN ledger.executed[b] = 1 .. Len(Body[b])
      BY <2>2
    <3> QED BY <2>3, <3>1, LenProperties
  <2>5. Len(ledger.executed[b]) = Len(Body[b])
    BY <2>1, <2>4
  <2> QED BY <2>2, <2>5
<1>4. \A r \in Requests : ledger.accepted[r] = 0 /\ ledger.started[r.batch] = 0
  BY <1>1, RequestFacts DEF EmptyLedger
<1>5. \A b \in Batches : IsSessionBatch(b) => ledger.executed[b][1] = 0
  BY <1>2, SessionFacts
<1>6. \A space \in Spaces : SpentNonces(ledger, space) = {}
  BY <1>4 DEF SpentNonces
<1>7. \A space \in Spaces : 0 .. store.nonce[space] - 1 = {}
  BY <1>1 DEF FreshStore
<1>8. HistoryOK(store, ledger)
  <2>1. \A b \in Batches : IsSessionBatch(b) => ~ (ledger.executed[b][1] > 0)
    BY <1>5
  <2>2. \A r \in Requests : ledger.accepted[r] <= ledger.started[r.batch]
    BY <1>4
  <2> QED BY <1>2, <1>6, <1>7, <2>1, <2>2 DEF HistoryOK
<1>9. Settled(store, ledger)
  <2>1. ~ Locked(store)
    BY <1>1 DEF Locked, FreshStore
  <2>2. \A b \in Batches : \A i \in 1 .. Len(Body[b]) : Owed(ledger, b, i) = 0
    BY <1>2 DEF Owed
  <2> QED BY <2>1, <2>2 DEF Settled
<1>10. Chain(stack, store, ledger)
  BY <1>1, <1>9 DEF Chain
<1>11. AnswerOK
  BY <1>1 DEF AnswerOK
<1> QED BY <1>8, <1>10, <1>11, InitInv DEF History, Past

-----------------------------------------------------------------------------
(* Every step keeps the history. *)

\* The innermost call, its storage and the present ones.
LEMMA HistoryFacts ==
  ASSUME History, stack # <<>>
  PROVE  /\ stack \in Seq(Frame) /\ Len(stack) \in 1 .. Len(stack)
         /\ store \in Store /\ ledger \in Ledger /\ now \in Nat
         /\ Top \in Frame
         /\ HistoryOK(Top.saved, Top.savedLedger) /\ HistoryOK(store, ledger)
         /\ Leads(Top, store, ledger)
         /\ Running("wallet") => Top.batch \in Batches
<1>1. stack \in Seq(Frame) /\ Len(stack) \in 1 .. Len(stack)
  BY EmptySeq DEF History, Inv, StackOK
<1>2. Top \in Frame /\ (Running("wallet") => Top.batch \in Batches)
  BY TopFacts DEF History
<1> QED BY <1>1, <1>2 DEF History, Inv, WorldOK, Past, Chain, Top

\* Only a bundle that is at a transaction waits for an answer.
LEMMA NobodyWaits ==
  ASSUME AnswerOK, stack = <<>> \/ Running("foreign")
  PROVE  returned = "none"
BY DEF AnswerOK, Running

\* The caller that gets an answer is at a transaction that makes calls.
LEMMA PopAnswer ==
  ASSUME History, stack # <<>>, NEW outcome \in {"ok", "failed"}, Pop(outcome)
  PROVE  AnswerOK'
<1>1. stack \in Seq(Frame) /\ Len(stack) \in 1 .. Len(stack)
  BY HistoryFacts
<1>2. /\ stack' \in Seq(Frame) /\ Len(stack') = Len(stack) - 1
      /\ \A k \in 1 .. Len(stack) - 1 : stack'[k] = stack[k]
  BY <1>1, FrontFacts DEF Pop
<1>3. CASE Len(stack) > 1 /\ stack[Len(stack) - 1].code = "wallet"
  <2> DEFINE n == Len(stack) - 1
             f == stack[n]
  <2>1. n \in 1 .. Len(stack) - 1 /\ Len(stack') = n /\ stack'[n] = f /\ f.code = "wallet"
    BY <1>1, <1>2, <1>3
  <2>2. CallsOut(stack[n], stack[n + 1])
    BY <2>1 DEF History, Past, Chain
  <2> HIDE DEF n
  <2>3. /\ f.pc <= Len(Body[f.batch])
        /\ Body[f.batch][f.pc].op \in {"call", "createContract", "selfExecute"}
    BY <2>1, <2>2 DEF CallsOut
  <2>4. stack' # <<>>
    BY <1>2, <2>1, EmptySeq
  <2>5. Top' = f /\ Running("wallet")'
    BY <2>1, <2>4 DEF Top, Running
  <2>6. Current' = Body[f.batch][f.pc]
    BY <2>5 DEF Current
  <2> HIDE DEF f
  <2> QED BY <2>3, <2>5, <2>6 DEF AnswerOK
<1>4. CASE ~ (Len(stack) > 1 /\ stack[Len(stack) - 1].code = "wallet")
  BY <1>4 DEF Pop, AnswerOK
<1> QED BY <1>3, <1>4

\* A call that returns.
LEMMA ReturnPast ==
  ASSUME History, stack # <<>>, NEW outcome \in {"ok", "failed"}, Pop(outcome),
         Finished(Top), UNCHANGED <<store, ledger>>
  PROVE  Past'
<1>1. Chain(Front(stack), store, ledger)
  BY HistoryFacts, ChainReturn DEF History, Past, Top
<1> QED BY <1>1, PopAnswer DEF History, Past, Pop

\* A call that reverts.
LEMMA RevertPast ==
  ASSUME History, stack # <<>>, RevertFrame
  PROVE  Past'
<1>1. /\ Chain(Front(stack), Top.saved, Top.savedLedger)
      /\ HistoryOK(Top.saved, Top.savedLedger)
  BY HistoryFacts, ChainRevert DEF History, Past, Top
<1>2. AnswerOK'
  BY PopAnswer DEF RevertFrame
<1> QED BY <1>1, <1>2 DEF Past, RevertFrame, Pop

\* A blockchain transaction begins.
LEMMA BeginPast == History /\ Begin => Past'
<1> SUFFICES ASSUME History, Begin PROVE Past'
  OBVIOUS
<1> DEFINE f == NewFrame("foreign", NoBatch)
<1>1. f \in Frame /\ f.saved = store /\ f.savedLedger = ledger /\ f.code = "foreign"
  BY NewFrameOK, BoundAssumption DEF History, NewFrame
<1>2. /\ stack \in Seq(Frame) /\ stack = <<>> /\ HistoryOK(store, ledger)
      /\ Chain(stack, store, ledger)
  BY DEF History, Inv, StackOK, Past, Begin
<1>3. stack' = Append(stack, f)
  BY DEF Begin, Push
<1> HIDE DEF f
<1>4. Leads(f, store, ledger)
  BY <1>1, <1>2, ForeignLeads
<1>5. Chain(stack', store, ledger)
  BY <1>1, <1>2, <1>3, <1>4, ChainPush
<1>6. returned = "none"
  BY NobodyWaits DEF History, Past, Begin
<1> QED BY <1>2, <1>5, <1>6 DEF Begin, Past, AnswerOK

\* A request is accepted.
LEMMA ExecutePast ==
  ASSUME NEW r \in Requests, History, Execute(r)
  PROVE  Past'
<1> DEFINE f == NewFrame("wallet", r.batch)
<1>1. stack # <<>> /\ Top.code = "foreign" /\ r.batch \in Batches
  BY RequestFacts DEF Execute, Running
<1>2. /\ stack \in Seq(Frame) /\ Len(stack) \in 1 .. Len(stack)
      /\ store \in Store /\ ledger \in Ledger /\ HistoryOK(store, ledger)
      /\ Chain(stack, store, ledger)
  BY <1>1, HistoryFacts DEF History, Past
<1>3. /\ ledger' \in Ledger /\ store' \in Store
      /\ ledger'.accepted = [ledger.accepted EXCEPT ![r] = @ + 1]
      /\ ledger'.started = [ledger.started EXCEPT ![r.batch] = @ + 1]
      /\ ledger'.executed = ledger.executed
  <2>1. ledger' \in Ledger /\ store' \in Store
    BY ExecuteInv DEF History, Inv, WorldOK
  <2>2. ledger' = [ledger EXCEPT !.accepted = [ledger.accepted EXCEPT ![r] = @ + 1],
                                 !.started = [ledger.started EXCEPT ![r.batch] = @ + 1]]
    BY <1>2 DEF Execute, Ledger
  <2> QED BY <1>2, <2>1, <2>2 DEF Ledger
<1>4. HistoryOK(store', ledger')
  BY <1>2, <1>3, AcceptHistory DEF Execute
<1>5. /\ f \in Frame /\ f.saved = store /\ f.savedLedger = ledger
      /\ f.code = "wallet" /\ f.batch = r.batch /\ f.pc = 1
  BY <1>1, <1>2 DEF NewFrame, Frame
<1>6. stack' = Append(stack, f)
  BY DEF Execute, Push
<1> HIDE DEF f
<1>7. store'.imageHash = store.imageHash /\ store'.implementation = store.implementation
  BY <1>2 DEF Execute, UseNonce, Store
<1>8. Leads(f, store', ledger')
  BY <1>1, <1>2, <1>3, <1>5, <1>7, StartLeads
<1>9. CallsOut(stack[Len(stack)], f)
  BY <1>1, <1>5 DEF CallsOut, Top
<1>10. Chain(stack', store', ledger')
  BY <1>2, <1>5, <1>6, <1>8, <1>9, ChainPush
<1>11. returned = "none"
  BY NobodyWaits DEF History, Past, Execute
<1> QED BY <1>4, <1>10, <1>11 DEF Execute, Past, AnswerOK

\* A bundle at a transaction.
LEMMA AtTransactionFacts ==
  ASSUME History, Running("wallet"), Top.pc <= Len(Body[Top.batch])
  PROVE  /\ stack # <<>> /\ Top.batch \in Batches /\ Top.code = "wallet"
         /\ Top.pc \in 1 .. Len(Body[Top.batch])
         /\ Current \in Tx
<1>1. stack # <<>> /\ Top.batch \in Batches /\ Top.code = "wallet" /\ Top \in Frame
  BY HistoryFacts DEF Running
<1>2. Top.pc \in 1 .. Len(Body[Top.batch])
  BY <1>1, RequestAssumption, LenProperties DEF Frame
<1> QED BY <1>1, <1>2, BodyFacts DEF Current

\* A transaction on the wallet itself.
LEMMA CallLocalPast == History /\ CallLocal => Past'
<1> SUFFICES ASSUME History, CallLocal PROVE Past'
  OBVIOUS
<1>1. AtTransaction /\ Running("wallet") /\ Top.pc <= Len(Body[Top.batch])
  BY DEF CallLocal, AtTransaction
<1>2. /\ stack # <<>> /\ Top.batch \in Batches /\ Top.code = "wallet" /\ Current \in Tx
  BY <1>1, AtTransactionFacts
<1>3. /\ store \in Store /\ ledger \in Ledger /\ now \in Nat /\ Top \in Frame
      /\ HistoryOK(store, ledger) /\ Leads(Top, store, ledger)
  BY <1>2, HistoryFacts
<1>4. /\ Running("wallet")' /\ (Top.pc <= Len(Body[Top.batch]))'
      /\ Current' = Current /\ stack' = stack /\ ledger' = ledger
  BY <1>1 DEF CallLocal, Running, Top, Current
<1>5. CASE Succeeds(Current, store, now)
  <2>1. store' = Result(Current, store)
    BY <1>5 DEF CallLocal
  <2>2. HistoryOK(store', ledger')
    BY <1>2, <1>3, <1>4, <1>5, <2>1, LocalHistory
  <2>3. Leads(Top, store', ledger')
    BY <1>1, <1>2, <1>3, <1>4, <1>5, <2>1, LocalLeads DEF Current
  <2>4. Chain(stack', store', ledger')
    BY <1>2, <1>4, <2>3 DEF History, Past, Chain, Top
  <2>5. ASSUME Current.op = "requireSessionNonce"
        PROVE  /\ Current.gapNonce <= store'.gapNonce
               /\ \A b \in Batches : IsSessionBatch(b) /\ ledger.executed[b][1] > 0 =>
                    Body[b][1].gapNonce < Current.gapNonce
    <3>1. Current.gapNonce \in Nat
      BY <1>2, <2>5 DEF Tx
    <3>2. store.gapNonce < Current.gapNonce /\ store.gapNonce \in Nat
      BY <1>3, <1>5, <2>5 DEF Succeeds, RequireGapNonce, Store
    <3>3. store'.gapNonce = Current.gapNonce
      BY <1>3, <2>1, <2>5 DEF Result, UseSessionNonce, Store
    <3>4. \A b \in Batches : IsSessionBatch(b) /\ ledger.executed[b][1] > 0 =>
            Body[b][1].gapNonce \in Nat /\ Body[b][1].gapNonce <= store.gapNonce
      BY <1>3, SessionFacts DEF HistoryOK
    <3> QED BY <3>1, <3>2, <3>3, <3>4
  <2>6. Current.op = "updateImageHash" => store'.imageHash # NoConfig
    BY <1>2, <1>3, <1>5, <2>1, ResultImage
  <2>7. AnswerOK'
    BY <1>4, <2>5, <2>6 DEF AnswerOK
  <2> QED BY <2>2, <2>4, <2>7 DEF Past
<1>6. CASE ~ Succeeds(Current, store, now)
  <2>1. store' = store /\ returned' = "failed"
    BY <1>6 DEF CallLocal
  <2> QED BY <1>4, <2>1 DEF History, Past, AnswerOK
<1> QED BY <1>5, <1>6

\* A call that runs out of gas.
LEMMA CallOutOfGasPast == History /\ CallOutOfGas => Past'
BY DEF CallOutOfGas, AtTransaction, History, Past, AnswerOK, Running, Top

\* A nested bundle.
LEMMA CallSelfExecutePast == History /\ CallSelfExecute => Past'
<1> SUFFICES ASSUME History, CallSelfExecute PROVE Past'
  OBVIOUS
<1> DEFINE b == Current.batch
           f == NewFrame("wallet", b)
<1>1. AtTransaction /\ Running("wallet") /\ Top.pc <= Len(Body[Top.batch]) /\ returned = "none"
  BY DEF CallSelfExecute, AtTransaction
<1>2. stack # <<>> /\ Top.code = "wallet" /\ Current \in Tx
  BY <1>1, AtTransactionFacts
<1>3. b \in Batches /\ Current.op = "selfExecute"
  BY <1>1, CurrentFacts DEF CallSelfExecute, History
<1>4. /\ stack \in Seq(Frame) /\ Len(stack) \in 1 .. Len(stack)
      /\ store \in Store /\ ledger \in Ledger /\ HistoryOK(store, ledger)
      /\ Chain(stack, store, ledger)
  BY <1>2, HistoryFacts DEF History, Past
<1>5. /\ ledger' \in Ledger /\ store' = store
      /\ ledger'.accepted = ledger.accepted
      /\ ledger'.started = [ledger.started EXCEPT ![b] = @ + 1]
      /\ ledger'.executed = ledger.executed
  <2>1. ledger' \in Ledger /\ store' = store
    BY CallSelfExecuteInv DEF History, Inv, WorldOK, CallSelfExecute
  <2>2. ledger' = [ledger EXCEPT !.started = [ledger.started EXCEPT ![b] = @ + 1]]
    BY <1>4 DEF CallSelfExecute, Ledger
  <2> QED BY <1>4, <2>1, <2>2 DEF Ledger
<1>6. HistoryOK(store', ledger')
  BY <1>3, <1>4, <1>5, NestedHistory
<1>7. /\ f \in Frame /\ f.saved = store /\ f.savedLedger = ledger
      /\ f.code = "wallet" /\ f.batch = b /\ f.pc = 1
  BY <1>3, <1>4 DEF NewFrame, Frame
<1>8. stack' = Append(stack, f)
  BY DEF CallSelfExecute, Push
<1>9. CallsOut(stack[Len(stack)], f)
  BY <1>1, <1>2, <1>3 DEF CallsOut, Top, Current
<1> HIDE DEF f, b
<1>10. Leads(f, store', ledger')
  BY <1>3, <1>4, <1>5, <1>7, StartLeads
<1>11. Chain(stack', store', ledger')
  BY <1>4, <1>7, <1>8, <1>9, <1>10, ChainPush
<1> QED BY <1>1, <1>6, <1>11 DEF CallSelfExecute, Past, AnswerOK

\* A call to foreign code.
LEMMA CallForeignPast == History /\ CallForeign => Past'
<1> SUFFICES ASSUME History, CallForeign PROVE Past'
  OBVIOUS
<1> DEFINE f == NewFrame("foreign", NoBatch)
<1>1. AtTransaction /\ Running("wallet") /\ Top.pc <= Len(Body[Top.batch]) /\ returned = "none"
  BY DEF CallForeign, AtTransaction
<1>2. stack # <<>> /\ Top.code = "wallet"
  BY <1>1, AtTransactionFacts
<1>3. /\ stack \in Seq(Frame) /\ Len(stack) \in 1 .. Len(stack)
      /\ HistoryOK(store, ledger) /\ Chain(stack, store, ledger)
  BY <1>2, HistoryFacts DEF History, Past
<1>4. f \in Frame /\ f.saved = store /\ f.savedLedger = ledger /\ f.code = "foreign"
  BY NewFrameOK, BoundAssumption DEF History, NewFrame
<1>5. stack' = Append(stack, f)
  BY DEF CallForeign, Push
<1>6. CallsOut(stack[Len(stack)], f)
  BY <1>1, <1>2 DEF CallsOut, CallForeign, Top, Current
<1> HIDE DEF f
<1>7. Leads(f, store, ledger)
  BY <1>3, <1>4, ForeignLeads
<1>8. Chain(stack', store, ledger)
  BY <1>3, <1>4, <1>5, <1>6, <1>7, ChainPush
<1> QED BY <1>1, <1>3, <1>8 DEF CallForeign, Past, AnswerOK

\* Moving past a transaction, as a new frame in place of the innermost.
LEMMA AdvanceFacts ==
  ASSUME History, stack # <<>>, NextTransaction
  PROVE  \E g \in Frame :
           /\ stack' = [stack EXCEPT ![Len(stack)] = g]
           /\ g.code = Top.code /\ g.batch = Top.batch /\ g.pc = Top.pc + 1
           /\ g.saved = Top.saved /\ g.savedLedger = Top.savedLedger
<1> DEFINE g == [Top EXCEPT !.pc = @ + 1]
<1>1. Top \in Frame
  BY HistoryFacts
<1>2. /\ g \in Frame /\ g.code = Top.code /\ g.batch = Top.batch /\ g.pc = Top.pc + 1
      /\ g.saved = Top.saved /\ g.savedLedger = Top.savedLedger
  BY <1>1 DEF Frame
<1>3. stack' = [stack EXCEPT ![Len(stack)] = g]
  BY DEF NextTransaction, Top
<1> HIDE DEF g
<1> QED BY <1>2, <1>3

\* A transaction succeeded.
LEMMA TxExecutedPast == History /\ TxExecuted => Past'
<1> SUFFICES ASSUME History, TxExecuted PROVE Past'
  OBVIOUS
<1> DEFINE b == Top.batch
           i == Top.pc
           q == ledger.executed[b]
<1>1. Running("wallet") /\ Top.pc <= Len(Body[Top.batch]) /\ AnswerOK /\ returned = "ok"
  BY DEF TxExecuted, History, Past, AnswerOK
<1>2. stack # <<>> /\ b \in Batches /\ Top.code = "wallet" /\ i \in 1 .. Len(Body[b])
  BY <1>1, AtTransactionFacts
<1>3. /\ stack \in Seq(Frame) /\ store \in Store /\ ledger \in Ledger /\ Top \in Frame
      /\ HistoryOK(Top.saved, Top.savedLedger) /\ HistoryOK(store, ledger)
      /\ Leads(Top, store, ledger) /\ Chain(stack, store, ledger)
  BY <1>2, HistoryFacts, SMTT(30) DEF History, Past
<1>4. /\ ledger' \in Ledger /\ ledger'.accepted = ledger.accepted
      /\ ledger'.started = ledger.started
      /\ ledger'.executed = [ledger.executed EXCEPT ![b] = [q EXCEPT ![i] = @ + 1]]
  <2>1. ledger' \in Ledger
    BY TxExecutedInv DEF History, Inv, WorldOK
  <2>2. ledger' = [ledger EXCEPT !.executed =
                    [ledger.executed EXCEPT ![b] = [q EXCEPT ![i] = @ + 1]]]
    BY <1>3 DEF TxExecuted, Ledger
  <2> QED BY <1>3, <2>1, <2>2 DEF Ledger
<1>5. ASSUME NEW a \in Batches
      PROVE  /\ Len(ledger'.executed[a]) = Len(ledger.executed[a])
             /\ \A j \in 1 .. Len(Body[a]) :
                  ledger'.executed[a][j] = IF a = b /\ j = i THEN ledger.executed[a][j] + 1
                                           ELSE ledger.executed[a][j]
  <2>1. /\ ledger.executed[a] \in Seq(Nat) /\ Len(ledger.executed[a]) = Len(Body[a])
        /\ \A j \in 1 .. Len(Body[a]) : ledger.executed[a][j] \in Nat
    BY <1>3, CountFacts
  <2>2. CASE a = b
    <3>1. ledger'.executed[a] = [q EXCEPT ![i] = q[i] + 1]
      BY <1>2, <1>3, <1>4, <2>2 DEF Ledger
    <3>2. q \in Seq(Nat) /\ i \in 1 .. Len(q) /\ q[i] + 1 \in Nat
      BY <1>2, <2>1, <2>2, SMTT(30)
    <3> HIDE DEF i
    <3>3. /\ Len([q EXCEPT ![i] = q[i] + 1]) = Len(q)
          /\ \A j \in 1 .. Len(q) :
               [q EXCEPT ![i] = q[i] + 1][j] = IF j = i THEN q[i] + 1 ELSE q[j]
      BY <3>2, ExceptSeq
    <3> QED BY <2>1, <2>2, <3>1, <3>3
  <2>3. CASE a # b
    <3>1. ledger'.executed[a] = ledger.executed[a]
      BY <1>3, <1>4, <2>3 DEF Ledger
    <3> QED BY <2>3, <3>1
  <2> QED BY <2>2, <2>3
<1>6. Body[b][i] = Current
  BY DEF Current
<1>7. store' = store /\ returned' = "none"
  BY DEF TxExecuted, NextTransaction
<1>8. PICK g \in Frame :
        /\ stack' = [stack EXCEPT ![Len(stack)] = g]
        /\ g.code = Top.code /\ g.batch = b /\ g.pc = i + 1
        /\ g.saved = Top.saved /\ g.savedLedger = Top.savedLedger
  BY <1>2, AdvanceFacts DEF TxExecuted
<1>9. Current.op = "requireSessionNonce" =>
        /\ Current.gapNonce <= store.gapNonce
        /\ \A a \in Batches : IsSessionBatch(a) /\ ledger.executed[a][1] > 0 =>
             Body[a][1].gapNonce < Current.gapNonce
  BY <1>1 DEF AnswerOK
<1>10. SetsImage(b, i) => store.imageHash # NoConfig
  BY <1>1, <1>6 DEF AnswerOK, SetsImage
<1>11. Counts(ledger, ledger', b, i)
  BY <1>4, <1>5 DEF Counts
<1>12. HistoryOK(store, ledger')
  <2>1. Body[b][i].op = "requireSessionNonce" =>
          /\ Body[b][i].gapNonce <= store.gapNonce
          /\ \A a \in Batches : IsSessionBatch(a) /\ ledger.executed[a][1] > 0 =>
               Body[a][1].gapNonce < Body[b][i].gapNonce
    BY <1>6, <1>9
  <2> HIDE DEF b, i, q
  <2> QED BY <1>2, <1>3, <1>4, <1>11, <2>1, ExecutedHistory
<1>13. Leads(g, store, ledger')
  BY <1>2, <1>3, <1>4, <1>8, <1>10, <1>11, ExecutedLeads
<1>14. Chain(stack', store, ledger')
  BY <1>2, <1>3, <1>8, <1>13, ChainTop DEF Top
<1> QED BY <1>7, <1>12, <1>14 DEF Past, AnswerOK

\* An optional transaction failed.
LEMMA TxFailedPast == History /\ TxFailed => Past'
<1> SUFFICES ASSUME History, TxFailed PROVE Past'
  OBVIOUS
<1>1. Running("wallet") /\ Top.pc <= Len(Body[Top.batch])
  BY DEF TxFailed, History, Past, AnswerOK
<1>2. stack # <<>> /\ Top.batch \in Batches /\ Top.code = "wallet"
  BY <1>1, AtTransactionFacts
<1>3. /\ stack \in Seq(Frame) /\ store \in Store /\ ledger \in Ledger /\ Top \in Frame
      /\ HistoryOK(Top.saved, Top.savedLedger) /\ HistoryOK(store, ledger)
      /\ Leads(Top, store, ledger) /\ Chain(stack, store, ledger)
  BY <1>2, HistoryFacts DEF History, Past
<1>4. PICK g \in Frame :
        /\ stack' = [stack EXCEPT ![Len(stack)] = g]
        /\ g.code = Top.code /\ g.batch = Top.batch /\ g.pc = Top.pc + 1
        /\ g.saved = Top.saved /\ g.savedLedger = Top.savedLedger
  BY <1>2, AdvanceFacts DEF TxFailed
<1>5. ~ Body[Top.batch][Top.pc].required
  BY DEF TxFailed, Current
<1>6. Leads(g, store, ledger)
  BY <1>1, <1>2, <1>3, <1>4, <1>5, FailedLeads
<1>7. Chain(stack', store, ledger)
  BY <1>2, <1>3, <1>4, <1>6, ChainTop DEF Top
<1>8. store' = store /\ ledger' = ledger /\ returned' = "none"
  BY DEF TxFailed, NextTransaction
<1> QED BY <1>3, <1>7, <1>8 DEF Past, AnswerOK

\* Every step of the wallet keeps its history.
LEMMA NextHistory == History /\ [Next]_vars => History'
<1> SUFFICES ASSUME History, [Next]_vars PROVE Past'
  BY NextInv DEF History
<1>1. CASE Begin
  BY <1>1, BeginPast
<1>2. ASSUME NEW r \in Requests, Execute(r) PROVE Past'
  BY <1>2, ExecutePast
<1>3. ASSUME NEW b \in Batches, NEW i \in 1 .. Len(Body[b]), CallDirectly(Body[b][i])
      PROVE  Past'
  <2>1. UNCHANGED <<store, ledger, stack, returned>>
    BY <1>3 DEF CallDirectly, OnlySelf
  <2> QED BY <2>1 DEF History, Past, AnswerOK, Running, Top, Current
<1>4. CASE ForeignReturn
  <2>1. stack # <<>> /\ Finished(Top) /\ Pop("ok") /\ UNCHANGED <<store, ledger>>
    BY <1>4 DEF ForeignReturn, Running, Finished
  <2> QED BY <2>1, ReturnPast
<1>5. CASE CallLocal
  BY <1>5, CallLocalPast
<1>6. CASE CallOutOfGas
  BY <1>6, CallOutOfGasPast
<1>7. CASE CallSelfExecute
  BY <1>7, CallSelfExecutePast
<1>8. CASE CallForeign
  BY <1>8, CallForeignPast
<1>9. CASE TxExecuted
  BY <1>9, TxExecutedPast
<1>10. CASE TxFailed
  BY <1>10, TxFailedPast
<1>11. CASE RevertOnError
  BY <1>11, RevertPast DEF RevertOnError, Running
<1>12. CASE EndBundle
  <2>1. stack # <<>> /\ Finished(Top) /\ Pop("ok") /\ UNCHANGED <<store, ledger>>
    BY <1>12 DEF EndBundle, Running, Finished
  <2> QED BY <2>1, ReturnPast
<1>13. CASE Fail
  BY <1>13, RevertPast DEF Fail
<1>14. CASE Tick
  BY <1>14 DEF Tick, History, Past, AnswerOK, Running, Top, Current
<1>15. CASE UNCHANGED vars
  BY <1>15 DEF vars, History, Past, AnswerOK, Running, Top, Current
<1> QED BY <1>1, <1>2, <1>3, <1>4, <1>5, <1>6, <1>7, <1>8, <1>9, <1>10,
           <1>11, <1>12, <1>13, <1>14, <1>15 DEF Next

\* History holds of every state the wallet reaches.
THEOREM HistoryInvariance == Spec => []History
BY InitHistory, NextHistory, PTL DEF Spec

-----------------------------------------------------------------------------
(* What follows from the history. *)

\* Outside the session space no nonce is skipped or lost: those below the
\* counter are the spent ones.
THEOREM NoncesAreSpentInOrder == Spec => []NoncesCountRequests
<1>1. History => NoncesCountRequests
  BY DEF History, Past, HistoryOK, NoncesCountRequests
<1> QED BY <1>1, HistoryInvariance, PTL

\* The revertOnError transactions of a bundle that lasts have all run, once;
\* none has run twice.
THEOREM BundlesAreAtomic == Spec => []AllOrNothing
<1>1. ASSUME History, stack = <<>>, NEW b \in Batches, NEW i \in 1 .. Len(Body[b])
      PROVE  IF Body[b][i].required
             THEN ledger.executed[b][i] = ledger.started[b]
             ELSE ledger.executed[b][i] <= ledger.started[b]
  <2>1. ledger.started[b] \in Nat /\ ledger.executed[b][i] \in Nat
    BY <1>1, CountFacts DEF History, Past, Inv, WorldOK
  <2>2. /\ Owed(ledger, b, i) >= 0
        /\ Body[b][i].required => Owed(ledger, b, i) = 0
    BY <1>1 DEF History, Past, Chain, Settled
  <2> QED BY <2>1, <2>2 DEF Owed
<1>2. History => AllOrNothing
  BY <1>1 DEF AllOrNothing
<1> QED BY <1>2, HistoryInvariance, PTL

\* A session request runs at most once, although its nonce starts over.
THEOREM SessionsRunOnce == Spec => []SessionOnce
<1>1. ASSUME History, stack = <<>>, NEW r \in Requests, IsSessionBatch(r.batch)
      PROVE  ledger.accepted[r] <= 1
  <2> DEFINE b == r.batch
  <2>1. /\ b \in Batches /\ ledger \in Ledger /\ HistoryOK(store, ledger)
        /\ ledger.accepted[r] \in Nat /\ ledger.accepted[r] <= ledger.started[b]
    BY <1>1, RequestFacts DEF History, Past, Inv, WorldOK, HistoryOK, Ledger
  <2>2. 1 \in 1 .. Len(Body[b])
    BY <1>1, <2>1, SessionFacts
  <2>3. ledger.started[b] \in Nat /\ ledger.executed[b][1] \in Nat
    BY <2>1, <2>2, CountFacts
  <2>4. Owed(ledger, b, 1) = 0
    BY <1>1, <2>1, <2>2 DEF History, Past, Chain, Settled, IsSessionBatch
  <2>5. ledger.executed[b][1] > 0 => ledger.executed[b][1] = 1
    BY <1>1, <2>1 DEF HistoryOK
  <2> QED BY <2>1, <2>3, <2>4, <2>5 DEF Owed
<1>2. History => SessionOnce
  BY <1>1 DEF SessionOnce
<1> QED BY <1>2, HistoryInvariance, PTL

\* The wallet is not locked out, provided that every batch that upgrades it
\* sets its image hash too.
THEOREM WalletStaysOpen ==
  ASSUME UpgradesAreCompleted
  PROVE  Spec => []NeverLocked
<1>1. ASSUME History, stack = <<>>
      PROVE  \E c \in Configs : IsMainImage(store, c)
  <2>1. ~ Locked(store) /\ store \in Store
    BY <1>1 DEF History, Past, Inv, WorldOK, Chain, Settled
  <2>2. CASE store.implementation = "MainModule"
    BY <2>2, ConfigAssumption DEF IsMainImage
  <2>3. CASE store.implementation = "MainModuleUpgradable" /\ store.imageHash # NoConfig
    <3>1. store.imageHash \in Configs
      BY <2>1, <2>3 DEF Store
    <3> QED BY <2>3, <3>1 DEF IsMainImage
  <2> QED BY <2>1, <2>2, <2>3 DEF Locked, Store, MainModules
<1>2. History => NeverLocked
  BY <1>1 DEF NeverLocked
<1> QED BY <1>2, HistoryInvariance, PTL

\* A reverted call takes back executed transactions, and never adds any.
LEMMA ExecutedBySteps ==
  ASSUME History, [Next]_vars, ~ TxExecuted, NEW b \in Batches, NEW i \in 1 .. Len(Body[b])
  PROVE  ledger'.executed[b][i] <= ledger.executed[b][i]
<1>1. ledger \in Ledger /\ HistoryOK(store, ledger)
  BY DEF History, Past, Inv, WorldOK
<1>2. ledger.executed[b][i] \in Nat
  BY <1>1, CountFacts
<1>3. CASE ledger'.executed = ledger.executed
  BY <1>2, <1>3
<1>4. CASE stack # <<>> /\ RevertFrame
  <2>1. Leads(Top, store, ledger)
    BY <1>4, HistoryFacts
  <2>2. ledger' = Top.savedLedger
    BY <1>4 DEF RevertFrame
  <2> QED BY <2>1, <2>2 DEF Leads, Accounted
<1>5. ledger'.executed = ledger.executed \/ (stack # <<>> /\ RevertFrame)
  <2>1. ASSUME NEW r \in Requests, Execute(r) PROVE ledger'.executed = ledger.executed
    BY <1>1, <2>1 DEF Execute, Ledger
  <2>2. CASE CallSelfExecute
    BY <1>1, <2>2 DEF CallSelfExecute, Ledger
  <2>3. CASE RevertOnError \/ Fail
    BY <2>3 DEF RevertOnError, Fail, Running
  <2>4. CASE Begin \/ ForeignReturn \/ CallLocal \/ CallOutOfGas \/ CallForeign
             \/ TxFailed \/ EndBundle \/ Tick \/ UNCHANGED vars
    BY <2>4 DEF Begin, ForeignReturn, CallLocal, CallOutOfGas, CallForeign, TxFailed,
                EndBundle, Tick, vars
  <2>5. ASSUME NEW a \in Batches, NEW j \in 1 .. Len(Body[a]), CallDirectly(Body[a][j])
        PROVE  ledger'.executed = ledger.executed
    BY <2>5 DEF CallDirectly
  <2> QED BY <2>1, <2>2, <2>3, <2>4, <2>5 DEF Next
<1> QED BY <1>3, <1>4, <1>5

\* Session batches pass their check in the order of their gap nonces.
THEOREM SessionsRunInOrder == Spec => SessionOrder
<1>1. ASSUME History, [Next]_vars, NEW a \in Batches, NEW b \in Batches,
             IsSessionBatch(a), IsSessionBatch(b),
             Body[a][1].gapNonce <= Body[b][1].gapNonce, ledger.executed[b][1] > 0
      PROVE  ledger'.executed[a][1] <= ledger.executed[a][1]
  <2>1. 1 \in 1 .. Len(Body[a])
    BY <1>1, SessionFacts
  <2>2. CASE ~ TxExecuted
    BY <1>1, <2>1, <2>2, ExecutedBySteps
  <2>3. CASE TxExecuted
    <3>1. Running("wallet") /\ returned = "ok" /\ Top.pc <= Len(Body[Top.batch])
      BY <1>1, <2>3 DEF TxExecuted, History, Past, AnswerOK
    <3>2. ~ (Top.batch = a /\ Top.pc = 1)
      <4>1. Body[a][1].gapNonce \in Nat /\ Body[b][1].gapNonce \in Nat
        BY <1>1, SessionFacts
      <4>2. SUFFICES ASSUME Top.batch = a, Top.pc = 1 PROVE FALSE
        OBVIOUS
      <4>3. Current = Body[a][1] /\ Current.op = "requireSessionNonce"
        BY <1>1, <4>2 DEF Current, IsSessionBatch
      <4>4. Body[b][1].gapNonce < Body[a][1].gapNonce
        BY <1>1, <3>1, <4>3 DEF History, Past, AnswerOK
      <4> QED BY <1>1, <4>1, <4>4
    <3>3. ledger \in Ledger /\ HistoryOK(store, ledger) /\ Top.batch \in Batches
      BY <1>1, <3>1, HistoryFacts DEF Running
    <3>4. ledger'.executed = [ledger.executed EXCEPT ![Top.batch] =
                               [ledger.executed[Top.batch] EXCEPT ![Top.pc] = @ + 1]]
      BY <2>3, <3>3 DEF TxExecuted, Ledger
    <3>5. ledger.executed[a] \in Seq(Nat) /\ 1 \in 1 .. Len(ledger.executed[a])
          /\ ledger.executed[a][1] \in Nat
      BY <2>1, <3>3, CountFacts
    <3>6. ledger'.executed[a][1] = ledger.executed[a][1]
      <4>1. CASE Top.batch # a
        <5>1. ledger'.executed[a] = ledger.executed[a]
          BY <3>3, <3>4, <4>1 DEF Ledger
        <5> QED BY <5>1
      <4>2. CASE Top.batch = a
        <5>1. ledger'.executed[a] = [ledger.executed[a] EXCEPT ![Top.pc] = @ + 1]
          BY <3>3, <3>4, <4>2 DEF Ledger
        <5>2. Top.pc # 1
          BY <3>2, <4>2
        <5> QED BY <3>5, <5>1, <5>2
      <4> QED BY <4>1, <4>2
    <3> QED BY <3>5, <3>6
  <2> QED BY <2>2, <2>3
<1>2. History /\ [Next]_vars =>
        [\A a, b \in Batches :
           /\ IsSessionBatch(a) /\ IsSessionBatch(b)
           /\ Body[a][1].gapNonce <= Body[b][1].gapNonce
           /\ ledger.executed[b][1] > 0
           => ledger'.executed[a][1] <= ledger.executed[a][1]]_vars
  BY <1>1
<1> QED BY <1>2, HistoryInvariance, PTL DEF Spec, SessionOrder

\* No configuration becomes valid by the mere passing of time, by a call of
\* foreign code, or by a revert to anything but the beginning.
THEOREM AuthorityNeedsABundle == Spec => AuthorityIsGranted
<1>1. ASSUME History, [Next]_vars, NEW c \in Configs, IsValidImage(store, now, c)',
             ~ IsValidImage(store, now, c), ~ \E i \in 1 .. Len(stack) : stack[i].code = "wallet"
      PROVE  stack # <<>> /\ IsValidImage(stack[1].saved, now, c)
  <2>1. stack # <<>> => Len(stack) \in 1 .. Len(stack) /\ ~ Running("wallet")
    <3>1. stack # <<>> => Len(stack) \in 1 .. Len(stack)
      BY <1>1, HistoryFacts
    <3> QED BY <1>1, <3>1 DEF Running, Top
  <2>2. ~ Running("wallet")
    BY <2>1 DEF Running
  <2>3. CASE Fail
    <3>1. stack # <<>> /\ store' = Top.saved /\ now' = now /\ stack \in Seq(Frame)
      BY <1>1, <2>3, HistoryFacts DEF Fail, RevertFrame
    <3>2. Len(stack) = 1
      <4>1. SUFFICES ASSUME Len(stack) # 1 PROVE FALSE
        OBVIOUS
      <4>2. Len(stack) \in Nat \ {0}
        BY <1>1, <3>1, TopFacts DEF History
      <4> DEFINE k == Len(stack) - 1
      <4>3. k \in 1 .. Len(stack) - 1 /\ k \in 1 .. Len(stack) /\ k + 1 = Len(stack)
        <5>1. \A n \in Nat \ {0} : n # 1 =>
                n - 1 \in 1 .. n - 1 /\ n - 1 \in 1 .. n /\ (n - 1) + 1 = n
          OBVIOUS
        <5> QED BY <4>1, <4>2, <5>1
      <4>4. CallsOut(stack[k], stack[k + 1])
        BY <1>1, <4>3 DEF History, Past, Chain
      <4>5. stack[k] \in Frame
        BY <3>1, <4>3, ElementOfSeq
      <4>6. stack[k].code = "foreign"
        BY <1>1, <4>3, <4>5 DEF Frame
      <4>7. stack[Len(stack)].code = "wallet"
        BY <4>3, <4>4, <4>6 DEF CallsOut
      <4> QED BY <1>1, <2>1, <3>1, <4>7
    <3> QED BY <1>1, <3>1, <3>2 DEF Top, IsValidImage, IsMainImage
  <2>4. CASE Tick
    <3>1. store' = store /\ now' = now + 1 /\ now \in Nat /\ store \in Store
      BY <1>1, <2>4 DEF Tick, History, Inv, WorldOK
    <3> QED BY <1>1, <3>1 DEF IsValidImage, IsMainImage, Store
  <2>5. ASSUME NEW r \in Requests, Execute(r) PROVE FALSE
    <3>1. /\ store'.imageHash = store.imageHash /\ store'.implementation = store.implementation
          /\ store'.extra = store.extra /\ now' = now
      BY <1>1, <2>5 DEF Execute, UseNonce, History, Inv, WorldOK, Store
    <3> QED BY <1>1, <3>1 DEF IsValidImage, IsMainImage
  <2>6. ASSUME store' = store, now' = now PROVE FALSE
    BY <1>1, <2>6 DEF IsValidImage, IsMainImage
  <2>7. CASE Begin \/ ForeignReturn \/ UNCHANGED vars
    BY <2>6, <2>7 DEF Begin, ForeignReturn, vars
  <2>8. ASSUME NEW a \in Batches, NEW j \in 1 .. Len(Body[a]), CallDirectly(Body[a][j])
        PROVE  FALSE
    BY <2>6, <2>8 DEF CallDirectly, OnlySelf
  <2>9. CASE CallLocal \/ CallOutOfGas \/ CallSelfExecute \/ CallForeign \/ TxExecuted
             \/ TxFailed \/ RevertOnError \/ EndBundle
    BY <2>2, <2>9 DEF CallLocal, CallOutOfGas, CallSelfExecute, CallForeign, TxExecuted,
                      TxFailed, RevertOnError, EndBundle, AtTransaction
  <2> QED BY <1>1, <2>3, <2>4, <2>5, <2>7, <2>8, <2>9 DEF Next
<1>2. History /\ [Next]_vars =>
        [\A c \in Configs :
           IsValidImage(store, now, c)' =>
             \/ IsValidImage(store, now, c)
             \/ \E i \in 1 .. Len(stack) : stack[i].code = "wallet"
             \/ stack # <<>> /\ IsValidImage(stack[1].saved, now, c)]_vars
  BY <1>1
<1> QED BY <1>2, HistoryInvariance, PTL DEF Spec, AuthorityIsGranted

-----------------------------------------------------------------------------
(***************************************************************************)
(* The wallet is a log of requests.  A blockchain transaction in progress  *)
(* is seen as the state it began in, which is what its first call would    *)
(* revert to; Follows relates that state to the present one and to those   *)
(* that the calls in between would revert to.                              *)
(***************************************************************************)

\* The requests for batch b that ledger m has over ledger l.
NewRequests(l, m, b) == {r \in Requests : l.accepted[r] < m.accepted[r] /\ r.batch = b}

Continues(l, m) ==
  /\ \A r \in Requests : l.accepted[r] <= m.accepted[r]
  /\ \A b \in Batches :
       /\ IsFiniteSet(NewRequests(l, m, b))
       /\ Cardinality(NewRequests(l, m, b)) <= m.started[b] - l.started[b]
       /\ \A r \in NewRequests(l, m, b) :
            m.accepted[r] - l.accepted[r] <= m.started[b] - l.started[b]

Adds(l, m) == \E r \in Requests : l.accepted[r] < m.accepted[r]

\* Storage s and ledger l come after those that call f was made in, and are
\* the same unless a request was accepted.
After(f, s, l) ==
  /\ Continues(f.savedLedger, l)
  /\ Adds(f.savedLedger, l) \/ (s = f.saved /\ l = f.savedLedger)

Follows(st, s, l) ==
  st # <<>> =>
    /\ st[1].code = "foreign"
    /\ After(st[1], s, l)
    /\ Len(st) > 1 => Adds(st[1].savedLedger, l)
    /\ \A k \in 2 .. Len(st) : After(st[1], st[k].saved, st[k].savedLedger)
    /\ \A k \in 3 .. Len(st) : Adds(st[1].savedLedger, st[k].savedLedger)

\* What a ledger has over itself.
LEMMA ContinuesItself ==
  ASSUME NEW l \in Ledger
  PROVE  Continues(l, l)
<1>1. \A b \in Batches : NewRequests(l, l, b) = {}
  <2>1. \A r \in Requests : ~ (l.accepted[r] < l.accepted[r])
    BY DEF Ledger
  <2> QED BY <2>1 DEF NewRequests
<1>2. \A r \in Requests : l.accepted[r] <= l.accepted[r]
  BY DEF Ledger
<1>3. \A b \in Batches : 0 <= l.started[b] - l.started[b]
  BY DEF Ledger
<1> QED BY <1>1, <1>2, <1>3, FS_EmptySet DEF Continues

\* A request accepted is one more, and starts its batch once more.
LEMMA ContinuesAccept ==
  ASSUME NEW l \in Ledger, NEW m \in Ledger, NEW n \in Ledger, NEW r \in Requests,
         Continues(l, m),
         n.accepted = [m.accepted EXCEPT ![r] = @ + 1],
         n.started = [m.started EXCEPT ![r.batch] = @ + 1]
  PROVE  Continues(l, n) /\ Adds(l, n)
<1>1. \A q \in Requests :
        /\ l.accepted[q] \in Nat /\ m.accepted[q] \in Nat /\ l.accepted[q] <= m.accepted[q]
        /\ n.accepted[q] = IF q = r THEN m.accepted[q] + 1 ELSE m.accepted[q]
  BY DEF Ledger, Continues
<1>2. \A b \in Batches :
        /\ l.started[b] \in Nat /\ m.started[b] \in Nat
        /\ n.started[b] = IF b = r.batch THEN m.started[b] + 1 ELSE m.started[b]
  BY DEF Ledger
<1>3. ASSUME NEW b \in Batches
      PROVE  /\ IsFiniteSet(NewRequests(l, n, b))
             /\ Cardinality(NewRequests(l, n, b)) <= n.started[b] - l.started[b]
             /\ \A q \in NewRequests(l, n, b) :
                  n.accepted[q] - l.accepted[q] <= n.started[b] - l.started[b]
  <2> DEFINE S == NewRequests(l, m, b)
  <2>1. /\ IsFiniteSet(S) /\ Cardinality(S) \in Nat
        /\ Cardinality(S) <= m.started[b] - l.started[b]
        /\ \A q \in S : m.accepted[q] - l.accepted[q] <= m.started[b] - l.started[b]
    BY FS_CardinalityType DEF Continues
  <2>2. CASE b # r.batch
    <3>1. NewRequests(l, n, b) = S
      BY <1>1, <2>2 DEF NewRequests
    <3>2. \A q \in S : n.accepted[q] = m.accepted[q]
      BY <1>1, <2>2 DEF NewRequests
    <3> HIDE DEF S
    <3> QED BY <1>2, <2>1, <2>2, <3>1, <3>2
  <2>3. CASE b = r.batch
    <3>1. NewRequests(l, n, b) = S \cup {r}
      BY <1>1, <2>3 DEF NewRequests
    <3>2. IsFiniteSet(S \cup {r}) /\ Cardinality(S \cup {r}) <= Cardinality(S) + 1
      <4> HIDE DEF S
      <4>1. /\ IsFiniteSet(S \cup {r})
            /\ Cardinality(S \cup {r}) = IF r \in S THEN Cardinality(S) ELSE Cardinality(S) + 1
        BY <2>1, FS_AddElement
      <4> QED BY <2>1, <4>1
    <3>3. ASSUME NEW q \in S \cup {r}
          PROVE  n.accepted[q] - l.accepted[q] <= n.started[b] - l.started[b]
      <4>1. q \in Requests
        BY DEF NewRequests
      <4>2. CASE q \in S
        <5>1. m.accepted[q] - l.accepted[q] <= m.started[b] - l.started[b]
          BY <2>1, <4>2
        <5> HIDE DEF S
        <5> QED BY <1>1, <1>2, <2>3, <4>1, <5>1
      <4>3. CASE q \notin S
        <5>1. q = r /\ m.accepted[q] = l.accepted[q]
          BY <1>1, <2>3, <4>1, <4>3 DEF NewRequests
        <5> HIDE DEF S
        <5> QED BY <1>1, <1>2, <2>1, <2>3, <5>1
      <4> QED BY <4>2, <4>3
    <3>4. Cardinality(S \cup {r}) <= n.started[b] - l.started[b]
      <4>1. Cardinality(S \cup {r}) \in Nat
        BY <3>2, FS_CardinalityType
      <4> HIDE DEF S
      <4> QED BY <1>2, <2>1, <2>3, <3>2, <4>1
    <3> HIDE DEF S
    <3> QED BY <3>1, <3>2, <3>3, <3>4
  <2> QED BY <2>2, <2>3
<1>4. Adds(l, n)
  BY <1>1 DEF Adds
<1>5. \A q \in Requests : l.accepted[q] <= n.accepted[q]
  BY <1>1
<1> QED BY <1>3, <1>4, <1>5 DEF Continues

\* A bundle started or a transaction executed leaves the requests alone.
LEMMA ContinuesAlong ==
  ASSUME NEW l \in Ledger, NEW m \in Ledger, NEW n \in Ledger, Continues(l, m),
         n.accepted = m.accepted, \A b \in Batches : m.started[b] <= n.started[b]
  PROVE  Continues(l, n) /\ (Adds(l, m) => Adds(l, n))
<1>1. \A b \in Batches : NewRequests(l, n, b) = NewRequests(l, m, b)
  BY DEF NewRequests
<1>2. \A b \in Batches :
        l.started[b] \in Nat /\ m.started[b] \in Nat /\ n.started[b] \in Nat
  BY DEF Ledger
<1>3. \A r \in Requests : l.accepted[r] \in Nat /\ m.accepted[r] \in Nat
  BY DEF Ledger
<1>4. ASSUME NEW b \in Batches
      PROVE  /\ IsFiniteSet(NewRequests(l, n, b))
             /\ Cardinality(NewRequests(l, n, b)) <= n.started[b] - l.started[b]
             /\ \A q \in NewRequests(l, n, b) :
                  n.accepted[q] - l.accepted[q] <= n.started[b] - l.started[b]
  <2> DEFINE S == NewRequests(l, m, b)
  <2>1. /\ IsFiniteSet(S) /\ Cardinality(S) \in Nat /\ S \subseteq Requests
        /\ Cardinality(S) <= m.started[b] - l.started[b]
        /\ \A q \in S : m.accepted[q] - l.accepted[q] <= m.started[b] - l.started[b]
    BY FS_CardinalityType DEF Continues, NewRequests
  <2>2. NewRequests(l, n, b) = S
    BY <1>1
  <2> HIDE DEF S
  <2> QED BY <1>2, <1>3, <2>1, <2>2
<1> QED BY <1>4 DEF Continues, Adds

\* A call is made in the present state, which has added requests or is about to.
LEMMA FollowsPush ==
  ASSUME NEW st \in Seq(Frame), NEW s, NEW l, NEW u, NEW m, NEW f \in Frame,
         Follows(st, s, l), st # <<>>, f.saved = s, f.savedLedger = l,
         Continues(st[1].savedLedger, m), Adds(st[1].savedLedger, m)
  PROVE  Follows(Append(st, f), u, m)
<1> DEFINE new == Append(st, f)
<1>1. /\ Len(st) \in Nat \ {0} /\ new \in Seq(Frame) /\ Len(new) = Len(st) + 1
      /\ new[Len(st) + 1] = f
      /\ \A k \in 1 .. Len(st) : new[k] = st[k]
  BY AppendProperties, EmptySeq
<1> HIDE DEF new
<1>2. new[1] = st[1] /\ st[1].code = "foreign"
  BY <1>1 DEF Follows
<1>3. After(new[1], u, m)
  <2>1. After(st[1], u, m)
    BY DEF After
  <2> QED BY <1>2, <2>1
<1>4. ASSUME NEW k \in 2 .. Len(new)
      PROVE  After(new[1], new[k].saved, new[k].savedLedger)
  <2>1. CASE k = Len(st) + 1
    BY <1>1, <1>2, <2>1 DEF Follows
  <2>2. CASE k # Len(st) + 1
    <3>1. k \in 2 .. Len(st) /\ k \in 1 .. Len(st)
      BY <1>1, <2>2
    <3> QED BY <1>1, <1>2, <3>1 DEF Follows
  <2> QED BY <2>1, <2>2
<1>5. ASSUME NEW k \in 3 .. Len(new)
      PROVE  Adds(new[1].savedLedger, new[k].savedLedger)
  <2>1. CASE k = Len(st) + 1
    <3>1. Len(st) > 1
      BY <1>1, <2>1
    <3> QED BY <1>1, <1>2, <2>1, <3>1 DEF Follows
  <2>2. CASE k # Len(st) + 1
    <3>1. k \in 3 .. Len(st) /\ k \in 1 .. Len(st)
      BY <1>1, <2>2
    <3> QED BY <1>1, <1>2, <3>1 DEF Follows
  <2> QED BY <2>1, <2>2
<1>6. Follows(new, u, m)
  BY <1>2, <1>3, <1>4, <1>5 DEF Follows
<1> QED BY <1>6 DEF new

\* The innermost call ends, and its effects are kept or reverted.
LEMMA FollowsPop ==
  ASSUME NEW st \in Seq(Frame), NEW s, NEW l, Follows(st, s, l), st # <<>>
  PROVE  /\ Follows(Front(st), s, l)
         /\ Follows(Front(st), st[Len(st)].saved, st[Len(st)].savedLedger)
<1> DEFINE new == Front(st)
           g == st[Len(st)]
<1>1. /\ Len(st) \in Nat \ {0} /\ new \in Seq(Frame) /\ Len(new) = Len(st) - 1
      /\ \A k \in 1 .. Len(st) - 1 : new[k] = st[k]
  BY FrontFacts, EmptySeq
<1> HIDE DEF new
<1>2. SUFFICES ASSUME new # <<>>
               PROVE  Follows(new, s, l) /\ Follows(new, g.saved, g.savedLedger)
  BY DEF Follows, new
<1>3. Len(new) \in Nat \ {0} /\ new[1] = st[1] /\ Len(st) \in 2 .. Len(st)
  BY <1>1, <1>2, EmptySeq
<1>4. \A k \in 2 .. Len(new) : k \in 2 .. Len(st) /\ new[k] = st[k]
  BY <1>1
<1>5. \A k \in 3 .. Len(new) : k \in 3 .. Len(st) /\ new[k] = st[k]
  BY <1>1
<1>6. /\ new[1].code = "foreign"
      /\ \A k \in 2 .. Len(new) : After(new[1], new[k].saved, new[k].savedLedger)
      /\ \A k \in 3 .. Len(new) : Adds(new[1].savedLedger, new[k].savedLedger)
  BY <1>3, <1>4, <1>5 DEF Follows
<1>7. After(new[1], s, l) /\ Adds(new[1].savedLedger, l)
  BY <1>3 DEF Follows
<1>8. After(new[1], g.saved, g.savedLedger)
  BY <1>3 DEF Follows
<1>9. Len(new) > 1 => Adds(new[1].savedLedger, g.savedLedger)
  <2>1. Len(new) > 1 => Len(st) \in 3 .. Len(st)
    BY <1>1
  <2> QED BY <1>3, <2>1 DEF Follows
<1> QED BY <1>6, <1>7, <1>8, <1>9 DEF Follows

\* The innermost call does something of its own.
LEMMA FollowsTop ==
  ASSUME NEW st \in Seq(Frame), NEW s, NEW l, NEW u, NEW m, NEW f \in Frame,
         Follows(st, s, l), st # <<>>, f.code = st[Len(st)].code,
         f.saved = st[Len(st)].saved, f.savedLedger = st[Len(st)].savedLedger,
         After(st[1], u, m), Len(st) > 1 => Adds(st[1].savedLedger, m)
  PROVE  Follows([st EXCEPT ![Len(st)] = f], u, m)
<1> DEFINE new == [st EXCEPT ![Len(st)] = f]
<1>1. Len(st) \in Nat \ {0} /\ Len(st) \in 1 .. Len(st)
  BY EmptySeq
<1>2. /\ new \in Seq(Frame) /\ Len(new) = Len(st)
      /\ \A i \in 1 .. Len(st) : new[i] = IF i = Len(st) THEN f ELSE st[i]
  BY <1>1, ExceptSeq
<1> HIDE DEF new
<1>3. \A k \in 1 .. Len(st) : /\ new[k].saved = st[k].saved
                              /\ new[k].savedLedger = st[k].savedLedger
                              /\ new[k].code = st[k].code
  BY <1>2
<1>4. 1 \in 1 .. Len(st) /\ 2 .. Len(st) \subseteq 1 .. Len(st) /\ 3 .. Len(st) \subseteq 1 .. Len(st)
  BY <1>1
<1>5. new[1].code = "foreign" /\ After(new[1], u, m)
  BY <1>3, <1>4 DEF Follows, After
<1>6. \A k \in 2 .. Len(new) : After(new[1], new[k].saved, new[k].savedLedger)
  BY <1>2, <1>3, <1>4 DEF Follows, After
<1>7. \A k \in 3 .. Len(new) : Adds(new[1].savedLedger, new[k].savedLedger)
  BY <1>2, <1>3, <1>4 DEF Follows
<1>8. Len(new) > 1 => Adds(new[1].savedLedger, m)
  BY <1>2, <1>3, <1>4
<1>9. Follows(new, u, m)
  BY <1>5, <1>6, <1>7, <1>8 DEF Follows
<1> QED BY <1>9 DEF new

\* A bundle never runs as the first call, and its caller has added requests.
LEMMA BundlesFollow ==
  ASSUME History, Follows(stack, store, ledger), stack # <<>>
  PROVE  /\ stack \in Seq(Frame) /\ stack[1] \in Frame /\ stack[1].savedLedger \in Ledger
         /\ Len(stack) \in Nat \ {0}
         /\ Continues(stack[1].savedLedger, ledger)
         /\ Running("wallet") => Len(stack) > 1 /\ Adds(stack[1].savedLedger, ledger)
<1>1. stack \in Seq(Frame) /\ Len(stack) \in Nat \ {0}
  BY HistoryFacts, TopFacts DEF History
<1>2. stack[1] \in Frame
  BY <1>1, ElementOfSeq
<1>3. stack[1].savedLedger \in Ledger
  BY <1>2 DEF Frame
<1>4. Running("wallet") => Len(stack) # 1
  BY DEF Running, Top, Follows
<1>5. Continues(stack[1].savedLedger, ledger)
  BY DEF Follows, After
<1>6. Running("wallet") => Len(stack) > 1
  BY <1>1, <1>4
<1>7. Running("wallet") => Adds(stack[1].savedLedger, ledger)
  BY <1>6 DEF Follows
<1> QED BY <1>1, <1>2, <1>3, <1>5, <1>6, <1>7

-----------------------------------------------------------------------------

FollowsNow == Follows(stack, store, ledger)

\* A call that a bundle makes.
LEMMA BundlePush ==
  ASSUME History, FollowsNow, Running("wallet"), NEW code \in {"wallet", "foreign"},
         NEW batch \in Batches \cup {NoBatch},
         stack' = Append(stack, NewFrame(code, batch)), store' = store,
         ledger' \in Ledger, ledger'.accepted = ledger.accepted,
         \A b \in Batches : ledger.started[b] <= ledger'.started[b]
  PROVE  FollowsNow'
<1> DEFINE f == NewFrame(code, batch)
           l == stack[1].savedLedger
<1>1. stack # <<>>
  BY DEF Running
<1>2. /\ stack \in Seq(Frame) /\ store \in Store /\ ledger \in Ledger
      /\ l \in Ledger /\ Continues(l, ledger) /\ Adds(l, ledger)
  BY <1>1, BundlesFollow, HistoryFacts DEF FollowsNow
<1>3. Continues(l, ledger') /\ Adds(l, ledger')
  BY <1>2, ContinuesAlong
<1>4. f \in Frame /\ f.saved = store /\ f.savedLedger = ledger
  BY <1>2 DEF NewFrame, Frame
<1>5. stack' = Append(stack, f)
  OBVIOUS
<1> HIDE DEF f
<1>6. Follows(Append(stack, f), store', ledger')
  BY <1>1, <1>2, <1>3, <1>4, FollowsPush DEF FollowsNow
<1> QED BY <1>5, <1>6 DEF FollowsNow

\* A bundle does something of its own.
LEMMA BundleStore ==
  ASSUME History, FollowsNow, Running("wallet"), stack' = stack, ledger' = ledger
  PROVE  FollowsNow'
<1>1. stack # <<>> /\ Adds(stack[1].savedLedger, ledger)
  BY BundlesFollow DEF FollowsNow, Running
<1> QED BY <1>1 DEF FollowsNow, Follows, After

\* A bundle moves on to its next transaction.
LEMMA BundleAdvance ==
  ASSUME History, FollowsNow, Running("wallet"), NextTransaction, store' = store,
         ledger' \in Ledger, ledger'.accepted = ledger.accepted,
         ledger'.started = ledger.started
  PROVE  FollowsNow'
<1> DEFINE l == stack[1].savedLedger
<1>1. stack # <<>>
  BY DEF Running
<1>2. /\ stack \in Seq(Frame) /\ ledger \in Ledger
      /\ l \in Ledger /\ Continues(l, ledger) /\ Adds(l, ledger)
  BY <1>1, BundlesFollow, HistoryFacts DEF FollowsNow
<1>3. Continues(l, ledger') /\ Adds(l, ledger')
  <2>1. \A b \in Batches : ledger.started[b] <= ledger'.started[b]
    BY <1>2 DEF Ledger
  <2> QED BY <1>2, <2>1, ContinuesAlong
<1>4. After(stack[1], store', ledger')
  BY <1>3 DEF After
<1>5. PICK g \in Frame :
        /\ stack' = [stack EXCEPT ![Len(stack)] = g]
        /\ g.code = Top.code /\ g.batch = Top.batch /\ g.pc = Top.pc + 1
        /\ g.saved = Top.saved /\ g.savedLedger = Top.savedLedger
  BY <1>1, AdvanceFacts
<1>6. Follows([stack EXCEPT ![Len(stack)] = g], store', ledger')
  BY <1>1, <1>2, <1>3, <1>4, <1>5, FollowsTop DEF FollowsNow, Top
<1> QED BY <1>5, <1>6 DEF FollowsNow

\* A call returns or reverts.
LEMMA CallFollows ==
  ASSUME History, FollowsNow, stack # <<>>, stack' = Front(stack),
         \/ store' = store /\ ledger' = ledger
         \/ store' = Top.saved /\ ledger' = Top.savedLedger
  PROVE  FollowsNow'
<1>1. stack \in Seq(Frame)
  BY HistoryFacts
<1>2. /\ Follows(Front(stack), store, ledger)
      /\ Follows(Front(stack), Top.saved, Top.savedLedger)
  BY <1>1, FollowsPop DEF FollowsNow, Top
<1> QED BY <1>2 DEF FollowsNow

\* A blockchain transaction begins in the state that it is seen in.
LEMMA BeginFollows == History /\ Begin => FollowsNow'
<1> SUFFICES ASSUME History, Begin PROVE FollowsNow'
  OBVIOUS
<1> DEFINE f == NewFrame("foreign", NoBatch)
<1>1. /\ stack = <<>> /\ stack' = Append(stack, f) /\ store' = store /\ ledger' = ledger
      /\ f.code = "foreign" /\ f.saved = store /\ f.savedLedger = ledger
  BY DEF Begin, Push, NewFrame
<1>2. Continues(ledger, ledger)
  BY ContinuesItself DEF History, Inv, WorldOK
<1> HIDE DEF f
<1>3. stack' = <<f>> /\ Len(stack') = 1 /\ stack'[1] = f
  BY <1>1
<1>4. After(f, store, ledger)
  BY <1>1, <1>2 DEF After
<1>5. 2 .. 1 = {} /\ 3 .. 1 = {} /\ ~ (1 > 1)
  OBVIOUS
<1> QED BY <1>1, <1>3, <1>4, <1>5 DEF FollowsNow, Follows

\* A request is accepted.
LEMMA ExecuteFollows ==
  ASSUME NEW r \in Requests, History, FollowsNow, Execute(r)
  PROVE  FollowsNow'
<1> DEFINE f == NewFrame("wallet", r.batch)
           l == stack[1].savedLedger
<1>1. stack # <<>> /\ stack' = Append(stack, f)
  BY DEF Execute, Running, Push
<1>2. /\ stack \in Seq(Frame) /\ store \in Store /\ ledger \in Ledger
      /\ l \in Ledger /\ Continues(l, ledger)
  BY <1>1, BundlesFollow, HistoryFacts DEF FollowsNow
<1>3. /\ ledger' \in Ledger
      /\ ledger'.accepted = [ledger.accepted EXCEPT ![r] = @ + 1]
      /\ ledger'.started = [ledger.started EXCEPT ![r.batch] = @ + 1]
  <2>1. ledger' \in Ledger
    BY ExecuteInv DEF History, Inv, WorldOK
  <2>2. ledger' = [ledger EXCEPT !.accepted = [ledger.accepted EXCEPT ![r] = @ + 1],
                                 !.started = [ledger.started EXCEPT ![r.batch] = @ + 1]]
    BY <1>2 DEF Execute, Ledger
  <2> QED BY <1>2, <2>1, <2>2 DEF Ledger
<1>4. Continues(l, ledger') /\ Adds(l, ledger')
  BY <1>2, <1>3, ContinuesAccept
<1>5. f \in Frame /\ f.saved = store /\ f.savedLedger = ledger
  BY <1>2, RequestFacts DEF NewFrame, Frame
<1> HIDE DEF f
<1>6. Follows(Append(stack, f), store', ledger')
  BY <1>1, <1>2, <1>4, <1>5, FollowsPush DEF FollowsNow
<1> QED BY <1>1, <1>6 DEF FollowsNow

\* Every step keeps to what the blockchain transaction began with.
LEMMA NextFollows == History /\ FollowsNow /\ [Next]_vars => FollowsNow'
<1> SUFFICES ASSUME History, FollowsNow, [Next]_vars PROVE FollowsNow'
  OBVIOUS
<1>l. ledger \in Ledger /\ ledger' \in Ledger
  BY NextHistory DEF History, Inv, WorldOK
<1>s. \A b \in Batches : ledger.started[b] <= ledger.started[b]
  BY <1>l DEF Ledger
<1>1. CASE Begin
  BY <1>1, BeginFollows
<1>2. ASSUME NEW r \in Requests, Execute(r) PROVE FollowsNow'
  BY <1>2, ExecuteFollows
<1>3. ASSUME NEW b \in Batches, NEW i \in 1 .. Len(Body[b]), CallDirectly(Body[b][i])
      PROVE  FollowsNow'
  BY <1>3 DEF CallDirectly, OnlySelf, FollowsNow
<1>4. CASE ForeignReturn \/ EndBundle
  <2>1. stack # <<>> /\ stack' = Front(stack) /\ store' = store /\ ledger' = ledger
    BY <1>4 DEF ForeignReturn, EndBundle, Running, Pop
  <2> QED BY <2>1, CallFollows
<1>5. CASE CallLocal \/ CallOutOfGas
  <2>1. Running("wallet") /\ stack' = stack /\ ledger' = ledger
    BY <1>5 DEF CallLocal, CallOutOfGas, AtTransaction
  <2> QED BY <2>1, BundleStore
<1>6. CASE CallSelfExecute
  <2>1. /\ Running("wallet") /\ AtTransaction /\ Current.op = "selfExecute" /\ store' = store
        /\ stack' = Append(stack, NewFrame("wallet", Current.batch))
        /\ ledger' = [ledger EXCEPT !.started[Current.batch] = @ + 1]
    BY <1>6 DEF CallSelfExecute, AtTransaction, Push
  <2>2. Current.batch \in Batches
    BY <2>1, CurrentFacts DEF History
  <2>3. /\ ledger'.accepted = ledger.accepted
        /\ ledger'.started = [ledger.started EXCEPT ![Current.batch] = @ + 1]
    BY <1>l, <2>1 DEF Ledger
  <2>4. \A b \in Batches : ledger.started[b] <= ledger'.started[b]
    BY <1>l, <2>3 DEF Ledger
  <2> QED BY <1>l, <2>1, <2>2, <2>3, <2>4, BundlePush
<1>7. CASE CallForeign
  <2>1. /\ Running("wallet") /\ store' = store /\ ledger' = ledger
        /\ stack' = Append(stack, NewFrame("foreign", NoBatch))
    BY <1>7 DEF CallForeign, AtTransaction, Push
  <2> QED BY <1>l, <1>s, <2>1, BundlePush
<1>8. CASE TxExecuted
  <2>1. Running("wallet") /\ NextTransaction /\ store' = store
    BY <1>8 DEF TxExecuted
  <2>2. ledger'.accepted = ledger.accepted /\ ledger'.started = ledger.started
    BY <1>l, <1>8 DEF TxExecuted, Ledger
  <2> QED BY <1>l, <2>1, <2>2, BundleAdvance
<1>9. CASE TxFailed
  <2>1. Running("wallet") /\ NextTransaction /\ store' = store /\ ledger' = ledger
    BY <1>9 DEF TxFailed
  <2> QED BY <1>l, <2>1, BundleAdvance
<1>10. CASE RevertOnError \/ Fail
  <2>1. /\ stack # <<>> /\ stack' = Front(stack)
        /\ store' = Top.saved /\ ledger' = Top.savedLedger
    BY <1>10 DEF RevertOnError, Fail, RevertFrame, Running, Pop
  <2> QED BY <2>1, CallFollows
<1>11. CASE Tick \/ UNCHANGED vars
  BY <1>11 DEF Tick, vars, FollowsNow
<1> QED BY <1>1, <1>2, <1>3, <1>4, <1>5, <1>6, <1>7, <1>8, <1>9, <1>10, <1>11 DEF Next

-----------------------------------------------------------------------------

\* The first call on the stack stays there while the blockchain transaction
\* is in progress.
LEMMA FirstStays ==
  ASSUME History, [Next]_vars, stack # <<>>, stack' # <<>>
  PROVE  stack'[1].saved = stack[1].saved /\ stack'[1].savedLedger = stack[1].savedLedger
<1>1. stack \in Seq(Frame) /\ Len(stack) \in Nat \ {0}
  BY HistoryFacts, TopFacts DEF History
<1>2. ASSUME NEW f, stack' = Append(stack, f) PROVE stack'[1] = stack[1]
  BY <1>1, <1>2
<1>3. ASSUME stack' = Front(stack) PROVE stack'[1] = stack[1]
  <2>1. /\ stack' \in Seq(Frame) /\ Len(stack') = Len(stack) - 1
        /\ \A i \in 1 .. Len(stack) - 1 : stack'[i] = stack[i]
    BY <1>1, <1>3, FrontFacts
  <2>2. Len(stack') # 0
    BY <2>1, EmptySeq
  <2>3. 1 \in 1 .. Len(stack) - 1
    BY <1>1, <2>1, <2>2
  <2> QED BY <2>1, <2>3
<1>4. ASSUME NextTransaction
      PROVE  stack'[1].saved = stack[1].saved /\ stack'[1].savedLedger = stack[1].savedLedger
  <2>1. PICK g \in Frame :
          /\ stack' = [stack EXCEPT ![Len(stack)] = g]
          /\ g.code = Top.code /\ g.batch = Top.batch /\ g.pc = Top.pc + 1
          /\ g.saved = Top.saved /\ g.savedLedger = Top.savedLedger
    BY <1>4, AdvanceFacts
  <2>2. stack'[1] = IF 1 = Len(stack) THEN g ELSE stack[1]
    BY <1>1, <2>1
  <2> QED BY <2>1, <2>2 DEF Top
<1>5. CASE Begin \/ (\E r \in Requests : Execute(r)) \/ CallSelfExecute \/ CallForeign
  BY <1>2, <1>5 DEF Begin, Execute, CallSelfExecute, CallForeign, Push
<1>6. CASE ForeignReturn \/ EndBundle \/ RevertOnError \/ Fail
  BY <1>3, <1>6 DEF ForeignReturn, EndBundle, RevertOnError, Fail, RevertFrame, Pop
<1>7. CASE TxExecuted \/ TxFailed
  BY <1>4, <1>7 DEF TxExecuted, TxFailed
<1>8. CASE \/ \E b \in Batches : \E i \in 1 .. Len(Body[b]) : CallDirectly(Body[b][i])
           \/ CallLocal \/ CallOutOfGas \/ Tick \/ UNCHANGED vars
  BY <1>8 DEF CallDirectly, CallLocal, CallOutOfGas, Tick, vars
<1> QED BY <1>5, <1>6, <1>7, <1>8 DEF Next

\* How a blockchain transaction ends: its first call returns, or reverts.
LEMMA LastReturns ==
  ASSUME History, [Next]_vars, stack # <<>>, stack' = <<>>
  PROVE  /\ Len(stack) = 1
         /\ \/ store' = store /\ ledger' = ledger
            \/ store' = stack[1].saved /\ ledger' = stack[1].savedLedger
<1>1. stack \in Seq(Frame) /\ Len(stack) \in Nat \ {0}
  BY HistoryFacts, TopFacts DEF History
<1>2. ASSUME stack' = Front(stack) PROVE Len(stack) = 1 /\ Top = stack[1]
  <2>1. Len(Front(stack)) = Len(stack) - 1
    BY <1>1, FrontFacts
  <2>2. Len(stack) = 1
    BY <1>1, <1>2, <2>1, EmptySeq
  <2> QED BY <2>2 DEF Top
<1>3. ASSUME NEW f PROVE stack' # Append(stack, f)
  BY <1>1, AppendProperties
<1>4. ~ NextTransaction
  <2>1. DOMAIN stack = 1 .. Len(stack) /\ 1 \in 1 .. Len(stack)
    BY <1>1, LenProperties
  <2>2. DOMAIN stack' = {}
    OBVIOUS
  <2> QED BY <2>1, <2>2 DEF NextTransaction
<1>5. ~ (Begin \/ (\E r \in Requests : Execute(r)) \/ CallSelfExecute \/ CallForeign)
  BY <1>3 DEF Begin, Execute, CallSelfExecute, CallForeign, Push
<1>6. CASE ForeignReturn \/ EndBundle
  BY <1>2, <1>6 DEF ForeignReturn, EndBundle, Pop
<1>7. CASE RevertOnError \/ Fail
  BY <1>2, <1>7 DEF RevertOnError, Fail, RevertFrame, Pop
<1>8. ~ (TxExecuted \/ TxFailed)
  BY <1>4 DEF TxExecuted, TxFailed
<1>9. CASE \/ \E b \in Batches : \E i \in 1 .. Len(Body[b]) : CallDirectly(Body[b][i])
           \/ CallLocal \/ CallOutOfGas \/ Tick \/ UNCHANGED vars
  BY <1>9 DEF CallDirectly, CallLocal, CallOutOfGas, Tick, vars
<1> QED BY <1>5, <1>6, <1>7, <1>8, <1>9 DEF Next

\* A nonce is its space and its nonce in the space.
LEMMA NonceIsBoth ==
  ASSUME NEW m \in Nat, NEW n \in Nat, SpaceOf(m) = SpaceOf(n), NonceOf(m) = NonceOf(n)
  PROVE  m = n
<1>1. NonceSize \in Nat /\ NonceSize > 0
  BY NonceAssumption
<1>2. m \div NonceSize = n \div NonceSize /\ m % NonceSize = n % NonceSize
  BY DEF SpaceOf, NonceOf
<1> QED BY <1>1, <1>2

-----------------------------------------------------------------------------

\* The requests of a space that ledger m has over ledger l.
AddedTo(l, m, space) ==
  {r \in {q \in Requests : l.accepted[q] < m.accepted[q]} : SpaceOf(r.nonce) = space}

\* What a blockchain transaction adds to a space has the next nonces.
LEMMA AddedInOrder ==
  ASSUME NEW s, NEW l, NEW u, NEW m, WorldOK(s, l), WorldOK(u, m),
         HistoryOK(s, l), HistoryOK(u, m), NoncesBehind(s, u), Continues(l, m),
         NEW space \in Spaces \ {SessionSpace}
  PROVE  /\ s.nonce[space] <= u.nonce[space]
         /\ {NonceOf(r.nonce) : r \in AddedTo(l, m, space)} =
              s.nonce[space] .. u.nonce[space] - 1
         /\ \A r \in AddedTo(l, m, space) : m.accepted[r] = 1
         /\ \A q, r \in AddedTo(l, m, space) : NonceOf(q.nonce) = NonceOf(r.nonce) => q = r
<1> DEFINE new == AddedTo(l, m, space)
<1>1. /\ s.nonce[space] \in Nat /\ u.nonce[space] \in Nat
      /\ s.nonce[space] <= u.nonce[space]
  BY NonceAssumption DEF WorldOK, Store, NoncesBehind
<1>2. \A r \in Requests :
        /\ l.accepted[r] \in Nat /\ m.accepted[r] \in Nat /\ l.accepted[r] <= m.accepted[r]
        /\ r.nonce \in Nat /\ NonceOf(r.nonce) \in Nat
  BY RequestFacts, NonceAssumption DEF WorldOK, Ledger, Continues
<1>3. /\ SpentNonces(l, space) = 0 .. s.nonce[space] - 1
      /\ SpentNonces(m, space) = 0 .. u.nonce[space] - 1
  BY DEF HistoryOK
<1>4. \A r \in new : /\ r \in Requests /\ SpaceOf(r.nonce) = space
                     /\ l.accepted[r] < m.accepted[r] /\ m.accepted[r] > 0
  BY <1>2 DEF AddedTo
<1>5. \A r \in new : m.accepted[r] <= 1
  BY <1>4 DEF WorldOK, ReplaySafe
<1>6. \A r \in new : m.accepted[r] = 1
  BY <1>2, <1>4, <1>5
<1>7. ASSUME NEW q \in Requests, NEW r \in Requests, m.accepted[q] > 0, m.accepted[r] > 0,
             SpaceOf(q.nonce) = space, SpaceOf(r.nonce) = space,
             NonceOf(q.nonce) = NonceOf(r.nonce)
      PROVE  q = r
  <2>1. q.nonce = r.nonce
    BY <1>2, <1>7, NonceIsBoth
  <2>2. q # r => m.accepted[q] = 0 \/ m.accepted[r] = 0
    BY <1>7, <2>1 DEF WorldOK, ReplaySafe
  <2> QED BY <1>2, <1>7, <2>2
<1>8. ASSUME NEW r \in new
      PROVE  NonceOf(r.nonce) \in s.nonce[space] .. u.nonce[space] - 1
  <2>1. NonceOf(r.nonce) \in SpentNonces(m, space)
    BY <1>4 DEF SpentNonces
  <2>2. NonceOf(r.nonce) \notin SpentNonces(l, space)
    <3>1. SUFFICES ASSUME NEW q \in Requests, SpaceOf(q.nonce) = space, l.accepted[q] > 0,
                          NonceOf(q.nonce) = NonceOf(r.nonce)
                   PROVE  FALSE
      BY DEF SpentNonces
    <3>2. m.accepted[q] > 0
      BY <1>2, <3>1
    <3>3. q = r
      BY <1>4, <1>7, <3>1, <3>2
    <3> QED BY <1>2, <1>4, <1>6, <3>1, <3>3
  <2> QED BY <1>1, <1>2, <1>3, <1>4, <2>1, <2>2
<1>9. ASSUME NEW n \in s.nonce[space] .. u.nonce[space] - 1
      PROVE  \E r \in new : NonceOf(r.nonce) = n
  <2>1. n \in 0 .. u.nonce[space] - 1 /\ n \notin 0 .. s.nonce[space] - 1
    BY <1>1
  <2>2. PICK r \in Requests : SpaceOf(r.nonce) = space /\ m.accepted[r] > 0 /\ n = NonceOf(r.nonce)
    BY <1>3, <2>1 DEF SpentNonces
  <2>3. ~ (l.accepted[r] > 0)
    BY <1>3, <2>1, <2>2 DEF SpentNonces
  <2>4. r \in new
    BY <1>2, <2>2, <2>3 DEF AddedTo
  <2> QED BY <2>2, <2>4
<1>10. {NonceOf(r.nonce) : r \in new} = s.nonce[space] .. u.nonce[space] - 1
  <2> HIDE DEF new
  <2> QED BY <1>8, <1>9
<1>11. \A q, r \in new : NonceOf(q.nonce) = NonceOf(r.nonce) => q = r
  BY <1>4, <1>7
<1> QED BY <1>1, <1>6, <1>10, <1>11

\* A blockchain transaction whose first call returns has added requests in
\* order, and run what it started.
LEMMA ReturnSettles ==
  ASSUME History, FollowsNow, Len(stack) = 1, stack' = <<>>,
         store' = store, ledger' = ledger, Adds(stack[1].savedLedger, ledger)
  PROVE  Log!Settle
<1> DEFINE f == stack[1]
           s == f.saved
           l == f.savedLedger
<1>1. stack # <<>> /\ 1 \in 1 .. Len(stack) /\ Top = f
  BY DEF Top
<1>2. /\ f \in Frame /\ l \in Ledger /\ Continues(l, ledger) /\ f.code = "foreign"
      /\ Leads(f, store, ledger)
  BY <1>1, BundlesFollow, HistoryFacts DEF FollowsNow, Follows
<1>3. /\ WorldOK(s, l) /\ NoncesBehind(s, store) /\ WorldOK(store, ledger)
      /\ HistoryOK(s, l) /\ HistoryOK(store, ledger)
  BY <1>1 DEF History, Past, Chain, Inv, StackOK, FrameOK
<1>4. /\ PublicStore = s /\ PublicLedger = l
      /\ PublicStore' = store /\ PublicLedger' = ledger
  BY <1>1 DEF PublicStore, PublicLedger
<1> HIDE DEF f
<1>5. Log!Added = {r \in Requests : l.accepted[r] < ledger.accepted[r]}
  BY <1>4 DEF Log!Added
<1>6. Log!Added # {}
  BY <1>5 DEF Adds, f
<1>7. Log!NothingIsRemoved
  BY <1>2, <1>4 DEF Log!NothingIsRemoved, Continues
<1>8. ASSUME NEW space \in Spaces \ {SessionSpace}
      PROVE  Log!InOrder(space)
  <2> DEFINE new == AddedTo(l, ledger, space)
  <2>1. /\ s.nonce[space] <= store.nonce[space]
        /\ {NonceOf(r.nonce) : r \in new} = s.nonce[space] .. store.nonce[space] - 1
        /\ \A r \in new : ledger.accepted[r] = 1
        /\ \A q, r \in new : NonceOf(q.nonce) = NonceOf(r.nonce) => q = r
    BY <1>2, <1>3, AddedInOrder
  <2>2. new = {r \in Log!Added : SpaceOf(r.nonce) = space}
    BY <1>5 DEF AddedTo
  <2> HIDE DEF new
  <2> QED BY <1>4, <2>1, <2>2 DEF Log!InOrder
<1>9. ASSUME NEW b \in Batches
      PROVE  Log!Starts(b)
  <2> DEFINE new == NewRequests(l, ledger, b)
  <2>1. /\ Cardinality(new) <= ledger.started[b] - l.started[b]
        /\ \A r \in new : ledger.accepted[r] - l.accepted[r] <= ledger.started[b] - l.started[b]
    BY <1>2 DEF Continues
  <2>2. new = {r \in Log!Added : r.batch = b}
    BY <1>5 DEF NewRequests
  <2>3. Log!Cardinality(new) = Cardinality(new)
    BY DEF Cardinality, Log!Cardinality
  <2> HIDE DEF new
  <2> QED BY <1>4, <2>1, <2>2, <2>3 DEF Log!Starts
<1>10. ASSUME NEW b \in Batches
       PROVE  Log!Runs(b)
  <2> SUFFICES ASSUME NEW i \in 1 .. Len(Body[b])
               PROVE  IF Body[b][i].required
                      THEN ledger.executed[b][i] - l.executed[b][i] = ledger.started[b] - l.started[b]
                      ELSE ledger.executed[b][i] - l.executed[b][i]
                             \in 0 .. ledger.started[b] - l.started[b]
    BY <1>4 DEF Log!Runs
  <2>1. /\ l.started[b] \in Nat /\ l.executed[b][i] \in Nat
        /\ ledger.started[b] \in Nat /\ ledger.executed[b][i] \in Nat
    BY <1>2, <1>3, CountFacts DEF WorldOK
  <2>2. Pending(f, b, i) = 0
    BY <1>2 DEF Pending
  <2>3. /\ Owed(ledger, b, i) >= Owed(l, b, i) + 0
        /\ Body[b][i].required => Owed(ledger, b, i) = Owed(l, b, i) + 0
        /\ l.executed[b][i] <= ledger.executed[b][i]
    BY <1>2, <2>2 DEF Leads, Accounted
  <2> DEFINE x == l.executed[b][i]
             y == ledger.executed[b][i]
             p == l.started[b]
             q == ledger.started[b]
  <2>4. x <= y /\ q - y >= p - x + 0 /\ (Body[b][i].required => q - y = p - x + 0)
    BY <2>3 DEF Owed
  <2>5. {x, y, p, q} \subseteq Nat
    BY <2>1
  <2> HIDE DEF x, y, p, q
  <2>6. y - x \in 0 .. q - p /\ (Body[b][i].required => y - x = q - p)
    BY <2>4, <2>5, SMTT(30)
  <2> QED BY <2>6 DEF x, y, p, q
<1>11. s.gapNonce <= store.gapNonce
  BY <1>3 DEF NoncesBehind
<1> QED BY <1>4, <1>6, <1>7, <1>8, <1>9, <1>10, <1>11 DEF Log!Settle

\* Every step of the wallet is a step of the log, or none.
LEMMA NextKeepsLog ==
  ASSUME History, FollowsNow, [Next]_vars
  PROVE  [Log!Settle]_(Log!vars)
<1>1. ASSUME PublicStore' = PublicStore, PublicLedger' = PublicLedger
      PROVE  UNCHANGED Log!vars
  BY <1>1 DEF Log!vars
<1>2. CASE stack = <<>>
  <2>1. CASE Begin
    <3>1. stack' = <<NewFrame("foreign", NoBatch)>> /\ stack' # <<>>
      BY <2>1 DEF Begin, Push
    <3>2. stack'[1].saved = store /\ stack'[1].savedLedger = ledger
      BY <3>1 DEF NewFrame
    <3> QED BY <1>1, <1>2, <3>1, <3>2 DEF PublicStore, PublicLedger
  <2>2. CASE Tick \/ UNCHANGED vars
    BY <1>1, <2>2 DEF PublicStore, PublicLedger, Tick, vars
  <2>3. Begin \/ Tick \/ UNCHANGED vars
    BY <1>2 DEF Next, Execute, CallDirectly, ForeignReturn, CallLocal, CallOutOfGas,
       CallSelfExecute, CallForeign, TxExecuted, TxFailed, RevertOnError, EndBundle, Fail,
       AtTransaction, Running
  <2> QED BY <2>1, <2>2, <2>3
<1>3. CASE stack # <<>> /\ stack' # <<>>
  BY <1>1, <1>3, FirstStays DEF PublicStore, PublicLedger
<1>4. CASE stack # <<>> /\ stack' = <<>>
  <2>1. /\ Len(stack) = 1
        /\ \/ store' = store /\ ledger' = ledger
           \/ store' = stack[1].saved /\ ledger' = stack[1].savedLedger
    BY <1>4, LastReturns
  <2>2. CASE store' = stack[1].saved /\ ledger' = stack[1].savedLedger
    BY <1>1, <1>4, <2>2 DEF PublicStore, PublicLedger
  <2>3. CASE store' = store /\ ledger' = ledger /\ Adds(stack[1].savedLedger, ledger)
    BY <1>4, <2>1, <2>3, ReturnSettles
  <2>4. Adds(stack[1].savedLedger, ledger) \/
          (store = stack[1].saved /\ ledger = stack[1].savedLedger)
    BY <1>4 DEF FollowsNow, Follows, After
  <2> QED BY <2>1, <2>2, <2>3, <2>4
<1> QED BY <1>2, <1>3, <1>4

\* Seen between blockchain transactions the wallet is a log of requests that
\* ran as a whole, in the order of their nonces.
THEOREM WalletIsALog == Spec => KeepsLog
<1>1. Init => Log!Init
  <2> SUFFICES ASSUME Init PROVE Log!Init
    OBVIOUS
  <2>1. PublicStore = FreshStore /\ PublicLedger = EmptyLedger
    BY DEF Init, PublicStore, PublicLedger
  <2> QED BY <2>1 DEF Log!Init, FreshStore, EmptyLedger
<1>2. Init => FollowsNow
  BY DEF Init, FollowsNow, Follows
<1>3. History /\ FollowsNow /\ [Next]_vars => [Log!Settle]_(Log!vars)
  BY NextKeepsLog
<1>4. Spec => []FollowsNow
  BY <1>2, NextFollows, HistoryInvariance, PTL DEF Spec
<1> QED BY <1>1, <1>3, <1>4, HistoryInvariance, PTL DEF Spec, KeepsLog, Log!Spec

=============================================================================
