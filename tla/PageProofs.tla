----------------------------- MODULE PageProofs ------------------------------
(***************************************************************************)
(* What the watching actions promise, for any number of calls and chains.  *)
(***************************************************************************)
EXTENDS Pages, FiniteSetTheorems, TLAPS

\* The inductive invariant: `unwatch` holds the one watcher of a call, and a
\* call that is at work has one, on the chain it follows.
IInv ==
    /\ TypeOK
    /\ \A r \in running : phase[r[1]] # "idle" /\ r[2] = unwatch[r[1]]
    /\ \A r, q \in running : r[1] = q[1] => r = q
    /\ \A w \in Watches : phase[w] = "on" => \E r \in running : r[1] = w
    /\ \A w \in Following : \A r \in running : r[1] = w => r[3] = chainId
    /\ \A w \in Watches \ Syncing :
         /\ unwatch[w] = unlisten[w]
         /\ phase[w] # "on" => \A r \in running : r[1] # w

LEMMA InitOK == Init => IInv
BY WatchAssumption DEF Init, IInv, TypeOK, Which, Following

LEMMA WatchOK ==
    ASSUME IInv, NEW w \in Watches, Watch(w)
    PROVE IInv'
<1>1. PICK ch \in Chains : /\ w \in Syncing => ch = chainId
                           /\ running' = running \cup {<<w, "first", ch>>}
  BY DEF Watch, Client
<1>2. \A r \in running : r[1] # w
  BY DEF IInv, Watch
<1>3. TypeOK'
  BY <1>1 DEF IInv, TypeOK, Watch, Which
<1>4. \A r \in running' : r \in running \/ r = <<w, "first", ch>>
  BY <1>1
<1>5. \A r \in running : r[1] \in Watches
  BY DEF IInv, TypeOK
<1>6. (\A r \in running : phase[r[1]] # "idle" /\ r[2] = unwatch[r[1]])'
  <2> SUFFICES ASSUME NEW r \in running'
               PROVE (phase[r[1]] # "idle" /\ r[2] = unwatch[r[1]])'
    OBVIOUS
  <2>1. CASE r \in running
    <3>1. r[1] # w /\ r[1] \in Watches
      BY <2>1, <1>2, <1>5
    <3> QED
      BY <2>1, <3>1 DEF IInv, TypeOK, Watch
  <2>2. CASE r = <<w, "first", ch>>
    <3>1. r[1] = w /\ r[2] = "first"
      BY <2>2
    <3> QED
      BY <3>1 DEF IInv, TypeOK, Watch
  <2> QED BY <2>1, <2>2, <1>4
<1>7. (\A r, q \in running : r[1] = q[1] => r = q)'
  BY <1>2, <1>4 DEF IInv
<1>8. (\A v \in Watches : phase[v] = "on" => \E r \in running : r[1] = v)'
  <2> SUFFICES ASSUME NEW v \in Watches, phase'[v] = "on"
               PROVE \E r \in running' : r[1] = v
    OBVIOUS
  <2>1. CASE v = w
    <3>1. <<w, "first", ch>> \in running' /\ <<w, "first", ch>>[1] = w
      BY <1>1
    <3> QED BY <2>1, <3>1
  <2>2. CASE v # w
    <3>1. phase[v] = "on"
      BY <2>2 DEF IInv, TypeOK, Watch
    <3> QED BY <3>1, <1>1 DEF IInv
  <2> QED BY <2>1, <2>2
<1>9. (\A v \in Following : \A r \in running : r[1] = v => r[3] = chainId)'
  <2> SUFFICES ASSUME NEW v \in Following', NEW r \in running', r[1] = v
               PROVE r[3] = chainId'
    OBVIOUS
  <2>0. chainId' = chainId /\ v \in Syncing /\ v \in Watches /\ phase'[v] = "on"
    BY WatchAssumption DEF Watch, Following
  <2>1. CASE r \in running
    <3>1. v # w
      BY <2>1, <1>2
    <3>2. v \in Following
      BY <2>0, <3>1 DEF IInv, TypeOK, Watch, Following
    <3> QED
      BY <2>0, <2>1, <3>2 DEF IInv
  <2>2. CASE r = <<w, "first", ch>>
    BY <2>0, <2>2, <1>1
  <2> QED BY <2>1, <2>2, <1>4
<1>10. (\A v \in Watches \ Syncing :
         /\ unwatch[v] = unlisten[v]
         /\ phase[v] # "on" => \A r \in running : r[1] # v)'
  BY <1>2, <1>4 DEF IInv, TypeOK, Watch
<1> QED
  BY <1>3, <1>6, <1>7, <1>8, <1>9, <1>10 DEF IInv

LEMMA UnwatchOK ==
    ASSUME IInv, NEW w \in Watches, Unwatch(w)
    PROVE IInv'
<1>1. running' \subseteq running
  BY DEF Unwatch
<1>2. \A r \in running : r[1] \in Watches
  BY DEF IInv, TypeOK
<1>3. TypeOK'
  BY <1>1 DEF IInv, TypeOK, Unwatch, Which
<1>4. (\A r \in running : phase[r[1]] # "idle" /\ r[2] = unwatch[r[1]])'
  BY <1>1, <1>2 DEF IInv, TypeOK, Unwatch
<1>5. (\A r, q \in running : r[1] = q[1] => r = q)'
  BY <1>1 DEF IInv
<1>6. (\A v \in Watches : phase[v] = "on" => \E r \in running : r[1] = v)'
  BY DEF IInv, TypeOK, Unwatch
<1>7. (\A v \in Following : \A r \in running : r[1] = v => r[3] = chainId)'
  BY <1>1 DEF IInv, TypeOK, Unwatch, Following
<1>8. (\A v \in Watches \ Syncing :
         /\ unwatch[v] = unlisten[v]
         /\ phase[v] # "on" => \A r \in running : r[1] # v)'
  <2> SUFFICES ASSUME NEW v \in Watches \ Syncing
               PROVE (/\ unwatch[v] = unlisten[v]
                      /\ phase[v] # "on" => \A r \in running : r[1] # v)'
    OBVIOUS
  <2>1. CASE v = w
    BY <2>1, <1>1 DEF IInv, TypeOK, Unwatch
  <2>2. CASE v # w
    BY <2>2, <1>1 DEF IInv, TypeOK, Unwatch
  <2> QED BY <2>1, <2>2
<1> QED
  BY <1>3, <1>4, <1>5, <1>6, <1>7, <1>8 DEF IInv

LEMMA ChainChangeOK ==
    ASSUME IInv, NEW ch \in Chains, ChainChange(ch)
    PROVE IInv'
<1>1. Following' = Following /\ Following \subseteq Watches
  BY WatchAssumption DEF ChainChange, Following
<1>2. \A r \in running : r[1] \in Following => r \notin Drop(r[1])
  BY DEF IInv, Drop
<1>3. running' = {r \in running : r[1] \notin Following}
                   \cup {<<w, "later", ch>> : w \in Following}
  BY <1>2 DEF ChainChange, Client
<1>4. \A r \in running' : \/ r \in running /\ r[1] \notin Following
                          \/ r[1] \in Following /\ r = <<r[1], "later", ch>>
  BY <1>3
<1>5. \A w \in Following : <<w, "later", ch>> \in running'
  BY <1>3
<1>6. \A r \in running : r[1] \in Watches
  BY DEF IInv, TypeOK
<1>7. TypeOK'
  BY <1>1, <1>3 DEF IInv, TypeOK, ChainChange, Which
<1>8. (\A r \in running : phase[r[1]] # "idle" /\ r[2] = unwatch[r[1]])'
  BY <1>1, <1>4, <1>6 DEF IInv, TypeOK, ChainChange, Following
<1>9. (\A r, q \in running : r[1] = q[1] => r = q)'
  BY <1>4 DEF IInv
<1>10. (\A w \in Watches : phase[w] = "on" => \E r \in running : r[1] = w)'
  <2> SUFFICES ASSUME NEW w \in Watches, phase[w] = "on"
               PROVE \E r \in running' : r[1] = w
    BY DEF ChainChange
  <2>1. CASE w \in Following
    BY <2>1, <1>5
  <2>2. CASE w \notin Following
    BY <2>2, <1>3 DEF IInv
  <2> QED BY <2>1, <2>2
<1>11. (\A w \in Following : \A r \in running : r[1] = w => r[3] = chainId)'
  BY <1>1, <1>4 DEF ChainChange
<1>12. (\A w \in Watches \ Syncing :
         /\ unwatch[w] = unlisten[w]
         /\ phase[w] # "on" => \A r \in running : r[1] # w)'
  BY <1>4 DEF IInv, ChainChange, Following
<1> QED
  BY <1>7, <1>8, <1>9, <1>10, <1>11, <1>12 DEF IInv

LEMMA StepOK == IInv /\ [Next]_vars => IInv'
<1>1. ASSUME IInv, UNCHANGED vars PROVE IInv'
  BY <1>1 DEF IInv, TypeOK, Following, vars
<1> QED
  BY <1>1, WatchOK, UnwatchOK, ChainChangeOK DEF Next

LEMMA Invariance == Spec => []IInv
BY InitOK, StepOK, PTL DEF Spec

\* The variables have their types.
THEOREM TypeCorrect == Spec => []TypeOK
<1>1. IInv => TypeOK
  BY DEF IInv
<1> QED BY <1>1, Invariance, PTL

\* However often the chain changes, a call has at most one watcher at work.
THEOREM NeverTwo == Spec => []OneWatcher
<1>1. IInv => OneWatcher
  BY DEF IInv, OneWatcher, Of
<1> QED BY <1>1, Invariance, PTL

\* A call that follows the chain has a watcher on the chain of the Config.
THEOREM Follows == Spec => []FollowsChain
<1>1. IInv => FollowsChain
  BY WatchAssumption DEF IInv, FollowsChain, Of, Following
<1> QED BY <1>1, Invariance, PTL

\* A call on a chain of its own has a watcher exactly until it is stopped.
THEOREM FixedIsExact == Spec => []FixedStops
<1>1. IInv => FixedStops
  BY DEF IInv, FixedStops, Of
<1> QED BY <1>1, Invariance, PTL

-----------------------------------------------------------------------------
(***************************************************************************)
(* The wallets a Config lists.                                             *)
(***************************************************************************)

\* The wallets whose connectors are listed.
Seen == {w \in DOMAIN listed : listed[w] > 0}

\* An announced wallet is listed, or one of its name, or a connector stands for it.
AllListed(o) ==
  \A w \in announced :
    Offers[o].rdns[w] \in Offers[o].claimed \cup {Offers[o].rdns[v] : v \in Seen}

\* What is listed was announced and no connector stands for it; under each name it is
\* one, or was listed at once.
ListOK(o) ==
  LET its == Offers[o] IN
  /\ announced \subseteq its.wallets /\ listed \in [its.wallets -> {0, 1}]
  /\ \A w \in Seen : w \in announced /\ its.rdns[w] \notin its.claimed
  /\ \A v, w \in Seen : its.rdns[v] = its.rdns[w] => v = w \/ {v, w} \subseteq atOnce

\* Without a server the list is complete from the first moment; with one it is empty
\* until the page has mounted, which it does once.
WalletsInv(o) ==
  /\ ListOK(o) /\ hydration \in {"idle", "reading", "done"}
  /\ ~ Offers[o].ssr => hydration # "idle" /\ ~ mounting /\ AllListed(o)
  /\ Offers[o].ssr =>
       /\ mounts \in {0, 1}
       /\ hydration = "idle" => mounts = 0 /\ ~ mounting
       /\ hydration = "reading" => mounts = 1 /\ mounting
       /\ hydration = "done" => mounts = 1 /\ ~ mounting /\ AllListed(o)
       /\ hydration # "done" => Seen = {}

\* The pages of which OfferedOnce speaks.
Offering(o) ==
  IF Offers[o].ssr THEN Offers[o].mounts <= 1 ELSE ~ Offers[o].async

\* The ids of the list are the names of the listed wallets.
LEMMA ListedNames ==
  ASSUME NEW o \in DOMAIN Offers, ListOK(o)
  PROVE  Wallets(o)!ListedIds = {Offers[o].rdns[v] : v \in Seen}
  BY DEF Wallets!ListedIds, ListOK, Seen

\* A wallet that is listed twice is not listed.
LEMMA Adds ==
  ASSUME NEW o \in DOMAIN Offers, ListOK(o), NEW ws, ws \cap Seen = {},
         ws \subseteq Offers[o].wallets, listed' = Wallets(o)!Add(listed, ws)
  PROVE  listed' \in [Offers[o].wallets -> {0, 1}] /\ Seen' = Seen \cup ws
<1>1. listed \in [Offers[o].wallets -> {0, 1}]
  BY DEF ListOK
<1>2. listed' = [w \in Offers[o].wallets |-> listed[w] + IF w \in ws THEN 1 ELSE 0]
  BY DEF Wallets!Add
<1>3. \A w \in Offers[o].wallets : w \in ws => listed[w] = 0
  BY <1>1 DEF Seen
<1>4. listed' \in [Offers[o].wallets -> {0, 1}]
  BY <1>1, <1>2, <1>3
<1> QED BY <1>1, <1>2, <1>4 DEF Seen

\* What is announced before there is a page.
LEMMA WalletsFirst ==
  ASSUME NEW o \in DOMAIN Offers, Offering(o), Wallets(o)!Init
  PROVE  WalletsInv(o)
<1> DEFINE W == Offers[o].wallets
           first == [w \in W |-> IF ~ Offers[o].ssr /\ w \in Wallets(o)!Unclaimed(announced)
                                 THEN 1 ELSE 0]
<1>1. /\ announced \subseteq W /\ listed = first /\ mounts = 0 /\ mounting = FALSE
      /\ atOnce = {w \in W : listed[w] > 0}
      /\ hydration = IF Offers[o].ssr THEN "idle" ELSE "reading"
  BY DEF Wallets!Init
<1>2. listed \in [W -> {0, 1}]
  BY <1>1
<1>3. Seen = IF Offers[o].ssr THEN {} ELSE Wallets(o)!Unclaimed(announced)
  BY <1>1 DEF Seen, Wallets!Unclaimed
<1>4. ListOK(o)
  BY <1>1, <1>2, <1>3 DEF ListOK, Seen, Wallets!Unclaimed
<1>5. ~ Offers[o].ssr => AllListed(o)
  BY <1>1, <1>3 DEF AllListed, Wallets!Unclaimed
<1> QED BY <1>1, <1>3, <1>4, <1>5 DEF WalletsInv

\* A wallet announces itself: with a complete list it is the only one to add.
LEMMA AnnounceKeeps ==
  ASSUME NEW o \in DOMAIN Offers, Offering(o), WalletsInv(o), NEW w \in Offers[o].wallets,
         Wallets(o)!Announce(w)
  PROVE  WalletsInv(o)'
<1> DEFINE rdns == Offers[o].rdns
<1>1. /\ announced' = announced \cup {w} /\ w \notin announced
      /\ hydration' = hydration /\ mounts' = mounts /\ mounting' = mounting /\ atOnce' = atOnce
      /\ listed' = IF hydration = "done" THEN Wallets(o)!Add(listed, Wallets(o)!New(announced'))
                   ELSE listed
      /\ Offers[o].async \/ hydration # "reading"
  BY DEF Wallets!Announce, Wallets!Quiet
<1>2. ListOK(o)
  BY DEF WalletsInv
<1>3. CASE hydration = "done"
  <2>1. AllListed(o)
    BY <1>3 DEF WalletsInv
  <2> DEFINE ws == Wallets(o)!New(announced')
  <2>2. ws = IF rdns[w] \in Offers[o].claimed \cup {rdns[v] : v \in Seen} THEN {} ELSE {w}
    BY <1>1, <1>2, <2>1, ListedNames DEF Wallets!New, Wallets!Unclaimed, AllListed
  <2>3. ws \subseteq Offers[o].wallets /\ ws \cap Seen = {}
    BY <1>2, <2>2
  <2>4. listed' = Wallets(o)!Add(listed, ws)
    BY <1>1, <1>3
  <2> HIDE DEF ws
  <2>5. listed' \in [Offers[o].wallets -> {0, 1}] /\ Seen' = Seen \cup ws
    BY <1>2, <2>3, <2>4, Adds
  <2>6. ListOK(o)'
    BY <1>1, <1>2, <2>2, <2>5 DEF ListOK
  <2>7. AllListed(o)'
    BY <1>1, <2>1, <2>2, <2>5 DEF AllListed
  <2> QED BY <1>1, <1>3, <2>6, <2>7 DEF WalletsInv
<1>4. CASE hydration # "done"
  <2>1. Offers[o].ssr
    BY <1>1, <1>4 DEF WalletsInv, Offering
  <2>2. Seen' = Seen /\ listed' = listed
    BY <1>1, <1>4 DEF Seen
  <2> QED BY <1>1, <1>2, <1>4, <2>1, <2>2 DEF WalletsInv, ListOK
<1> QED BY <1>3, <1>4

\* The list that storage was waited for: everything announced so far.
LEMMA MountDoneKeeps ==
  ASSUME NEW o \in DOMAIN Offers, Offering(o), WalletsInv(o), Wallets(o)!MountDone
  PROVE  WalletsInv(o)'
<1> DEFINE ws == Wallets(o)!Unclaimed(announced)
<1>1. /\ mounting /\ hydration = "reading" /\ hydration' = "done" /\ mounting' = FALSE
      /\ listed' = Wallets(o)!Add(listed, ws) /\ announced' = announced /\ mounts' = mounts
      /\ atOnce' = atOnce \cup ws
  BY DEF Wallets!MountDone
<1>2. ListOK(o) /\ Offers[o].ssr /\ Seen = {} /\ mounts = 1
  BY <1>1 DEF WalletsInv
<1>3. ws \subseteq Offers[o].wallets /\ ws \cap Seen = {}
  BY <1>2 DEF ListOK, Wallets!Unclaimed
<1>4. listed' \in [Offers[o].wallets -> {0, 1}] /\ Seen' = ws
  <2> HIDE DEF ws
  <2> QED BY <1>1, <1>2, <1>3, Adds
<1>5. ListOK(o)' /\ AllListed(o)'
  BY <1>1, <1>2, <1>3, <1>4 DEF ListOK, AllListed, Wallets!Unclaimed
<1> QED BY <1>1, <1>2, <1>5 DEF WalletsInv

\* Every step.
LEMMA WalletsKeep ==
  ASSUME NEW o \in DOMAIN Offers, Offering(o), WalletsInv(o), Wallets(o)!Next
  PROVE  WalletsInv(o)'
<1>1. ASSUME Wallets(o)!Hydrated
      PROVE  WalletsInv(o)'
  BY <1>1 DEF Wallets!Hydrated, WalletsInv, ListOK, AllListed, Seen
<1>2. ASSUME Wallets(o)!Mount
      PROVE  WalletsInv(o)'
  <2>1. /\ Offers[o].ssr /\ mounts < Offers[o].mounts /\ mounts' = mounts + 1
        /\ mounting' = TRUE /\ hydration' = "reading" /\ announced' = announced /\ listed' = listed
        /\ atOnce' = atOnce
    BY <1>2 DEF Wallets!Mount
  <2>2. Offers[o].mounts \in Int
    BY PagesAssumption DEF Wallets!DiscoveryAssumption
  <2>3. mounts = 0
    BY <2>1, <2>2 DEF Offering, WalletsInv
  <2> QED BY <2>1, <2>3 DEF WalletsInv, ListOK, Seen
<1> QED BY <1>1, <1>2, AnnounceKeeps, MountDoneKeeps DEF Wallets!Next

\* The invariant, of whichever page the wallets are.
OffersInv == \A o \in DOMAIN Offers : page = o /\ Offering(o) => WalletsInv(o)

\* An announced wallet is offered once storage was read, no wallet twice, and two of one
\* name only if both were there when the list was made.
THEOREM WalletsAreOffered == PagesSpec => []OfferedOnce
<1>1. PageInit \/ WalletsInit \/ WatchesInit => OffersInv
  BY WalletsFirst, PagesAssumption DEF PageInit, WalletsInit, WatchesInit, OffersInv
<1>2. OffersInv /\ [PagesNext]_allVars => OffersInv'
  <2> SUFFICES ASSUME OffersInv, [PagesNext]_allVars
               PROVE  OffersInv'
    OBVIOUS
  <2>1. ASSUME NEW p \in DOMAIN Pages, PageStep(p)
        PROVE  OffersInv'
    <3>1. page = p /\ page' = p /\ p \notin DOMAIN Offers
      BY <2>1, PagesAssumption DEF PageStep
    <3> QED BY <3>1 DEF OffersInv
  <2>2. ASSUME NEW o \in DOMAIN Offers, WalletsStep(o)
        PROVE  OffersInv'
    <3>1. page = o /\ page' = o /\ Wallets(o)!Next
      BY <2>2 DEF WalletsStep
    <3>2. Offering(o) => WalletsInv(o)'
      BY <3>1, WalletsKeep DEF OffersInv
    <3> QED BY <3>1, <3>2 DEF OffersInv, Offering
  <2>3. ASSUME WatchesStep
        PROVE  OffersInv'
    <3>1. page = "watches" /\ page' = "watches"
      BY <2>3 DEF WatchesStep
    <3> QED BY <3>1, PagesAssumption DEF OffersInv
  <2>4. ASSUME UNCHANGED allVars
        PROVE  OffersInv'
    <3>1. /\ page' = page /\ announced' = announced /\ listed' = listed /\ mounts' = mounts
          /\ mounting' = mounting /\ hydration' = hydration /\ atOnce' = atOnce
      BY <2>4 DEF allVars, discoveryVars
    <3> QED BY <3>1 DEF OffersInv, WalletsInv, ListOK, AllListed, Seen, Offering
  <2> QED BY <2>1, <2>2, <2>3, <2>4 DEF PagesNext
<1>3. OffersInv => OfferedOnce
  <2> SUFFICES ASSUME OffersInv, NEW o \in DOMAIN Offers, page = o, Offering(o)
               PROVE  Wallets(o)!OfferedOnce /\ Wallets(o)!Offered
    BY DEF OfferedOnce, Offering
  <2>1. WalletsInv(o) /\ ListOK(o)
    BY DEF OffersInv, WalletsInv
  <2>2. Wallets(o)!OfferedOnce
    BY <2>1 DEF Wallets!OfferedOnce, ListOK, Seen
  <2>3. Wallets(o)!Offered
    BY <2>1, ListedNames DEF Wallets!Offered, WalletsInv, AllListed
  <2> QED BY <2>2, <2>3
<1> QED BY <1>1, <1>2, <1>3, PTL DEF PagesSpec

-----------------------------------------------------------------------------
(***************************************************************************)
(* The chain of a Config follows its connection.                           *)
(***************************************************************************)

\* A chain is that of the connection, if the Config has the chain.
ChainIs(p, m, cur, ch) ==
  Config(p)!Selected(m, cur) \in Pages[p].configured => ch = Config(p)!Selected(m, cur)

\* The heap has a place for the connections.
HeapOK(p) == DOMAIN heap = Config(p)!Refs /\ connections \in Config(p)!Refs

\* The chain of the store and of what is in storage, and of what is read from there.
StoreFollows(p) == HeapOK(p) /\ ChainIs(p, Config(p)!Map, current, chainId)
DiskFollows(p, d) == ChainIs(p, d.map, d.current, d.chainId)
ChainInv(p) == StoreFollows(p) /\ DiskFollows(p, disk) /\ DiskFollows(p, unread)

\* A setState that keeps the chain, or gives that of the connection.
LEMMA SetStateFollows ==
  ASSUME NEW p, NEW h, DOMAIN h = Config(p)!Refs, NEW ref \in Config(p)!Refs, NEW cur, NEW st,
         NEW chain, Config(p)!SetState(h, ref, cur, st, chain),
         \/ StoreFollows(p) /\ chain = chainId
         \/ ChainIs(p, h[ref], cur, chain)
  PROVE  StoreFollows(p)' /\ Config(p)!Map' = h[ref] /\ current' = cur
<1>1. connections' = ref /\ current' = cur /\ chainId' = Config(p)!Synced(h[ref], cur, chain)
  BY DEF Config!SetState
<1>2. DOMAIN heap' = Config(p)!Refs /\ heap'[ref] = h[ref]
  BY DEF Config!SetState
<1>3. Config(p)!Map' = h[ref]
  BY <1>1, <1>2 DEF Config!Map
<1>4. chainId' = IF /\ Config(p)!Selected(h[ref], cur) # Config(p)!Selected(Config(p)!Map, current)
                    /\ Config(p)!Selected(h[ref], cur) \in Pages[p].configured
                 THEN Config(p)!Selected(h[ref], cur) ELSE chain
  BY <1>1 DEF Config!Synced
<1>5. ChainIs(p, h[ref], cur, chainId')
  BY <1>4 DEF ChainIs, StoreFollows
<1> QED BY <1>1, <1>2, <1>3, <1>5 DEF StoreFollows, HeapOK, ChainIs

\* A setState that installs a Map.
LEMMA ReplaceFollows ==
  ASSUME NEW p, NEW h, DOMAIN h = Config(p)!Refs, NEW m, NEW cur, NEW st, NEW chain,
         Config(p)!Replace(h, m, cur, st, chain),
         \/ StoreFollows(p) /\ chain = chainId
         \/ ChainIs(p, m, cur, chain)
  PROVE  StoreFollows(p)' /\ Config(p)!Map' = m /\ current' = cur
<1>1. PICK r \in Config(p)!FreeRefs : Config(p)!SetState([h EXCEPT ![r] = m], r, cur, st, chain)
  BY DEF Config!Replace
<1> DEFINE g == [h EXCEPT ![r] = m]
<1>2. r \in Config(p)!Refs /\ DOMAIN g = Config(p)!Refs /\ g[r] = m
  BY DEF Config!FreeRefs
<1> HIDE DEF g
<1>3. Config(p)!SetState(g, r, cur, st, chain)
  BY <1>1 DEF g
<1> QED BY <1>2, <1>3, SetStateFollows

\* Storage is given what the store has.
LEMMA PersistFollows ==
  ASSUME NEW p, StoreFollows(p)', Config(p)!Persist
  PROVE  DiskFollows(p, disk)' /\ disk'.map = Config(p)!Map'
<1>1. disk'.map = Config(p)!Map' /\ disk'.current = current' /\ disk'.chainId = chainId'
  BY DEF Config!Persist, Config!Partial, Config!Map
<1> QED BY <1>1 DEF StoreFollows, DiskFollows, ChainIs

\* The store and storage, after a change of the store.
ChangeFollows(p) ==
  /\ StoreFollows(p)' /\ DiskFollows(p, disk)'
  /\ disk'.map = Config(p)!Map'

\* A setState of a Map that is kept or a new one, from then on in storage.
LEMMA InstallFollows ==
  ASSUME NEW p, StoreFollows(p)
  PROVE  /\ \A h, m, cur, st : DOMAIN h = Config(p)!Refs /\ Config(p)!Install(h, m, cur, st)
              => ChangeFollows(p) /\ Config(p)!Map' = m /\ current' = cur
         /\ \A cur, st : Config(p)!Keep(cur, st, chainId)
              => ChangeFollows(p) /\ Config(p)!Map' = Config(p)!Map /\ current' = cur
<1>1. ASSUME NEW h, NEW m, NEW cur, NEW st, DOMAIN h = Config(p)!Refs,
             Config(p)!Install(h, m, cur, st)
      PROVE  ChangeFollows(p) /\ Config(p)!Map' = m /\ current' = cur
  BY <1>1, ReplaceFollows, PersistFollows DEF Config!Install, ChangeFollows
<1>2. ASSUME NEW cur, NEW st, Config(p)!Keep(cur, st, chainId)
      PROVE  ChangeFollows(p) /\ Config(p)!Map' = Config(p)!Map /\ current' = cur
  BY <1>2, SetStateFollows, PersistFollows
  DEF Config!Keep, Config!Map, ChangeFollows, StoreFollows, HeapOK
<1> QED BY <1>1, <1>2

\* Connections are taken away.
LEMMA LeaveFollows ==
  ASSUME NEW p, StoreFollows(p), NEW h, NEW m, DOMAIN h = Config(p)!Refs, Config(p)!Leave(h, m)
  PROVE  /\ ChangeFollows(p)
         /\ Config(p)!Map' = m \/ (Config(p)!Map' = Config(p)!EmptyMap /\ Config(p)!Keys(m) = {})
<1>1. \/ Config(p)!Keys(m) = {} /\ Config(p)!Install(h, Config(p)!EmptyMap, None, "disconnected")
      \/ \E next : Config(p)!Install(h, m, next, status)
  BY DEF Config!Leave
<1> QED BY <1>1, InstallFollows

\* A connection of nobody has no chain.
LEMMA NobodyFollows ==
  ASSUME NEW p \in DOMAIN Pages
  PROVE  /\ \A m, cur, ch : cur \notin Config(p)!Keys(m) => ChainIs(p, m, cur, ch)
         /\ \A cur, ch : ChainIs(p, Config(p)!EmptyMap, cur, ch)
         /\ DiskFollows(p, Config(p)!EmptyDisk)
<1>1. None \notin Pages[p].configured
  BY PagesAssumption
<1>2. \A m, cur, ch : cur \notin Config(p)!Keys(m) => ChainIs(p, m, cur, ch)
  BY <1>1 DEF ChainIs, Config!Selected
<1>3. Config(p)!Keys(Config(p)!EmptyMap) = {}
  BY DEF Config!Keys, Config!EmptyMap
<1>4. DiskFollows(p, Config(p)!EmptyDisk)
  BY <1>2, <1>3 DEF DiskFollows, Config!EmptyDisk, Config!Partial
<1> QED BY <1>2, <1>3, <1>4

\* What is not about the store.
LEMMA StoreSame ==
  ASSUME NEW p, ChainInv(p), Config(p)!storeVars' = Config(p)!storeVars,
         unread' = unread \/ unread' = disk
  PROVE  ChainInv(p)'
<1>1. /\ chainId' = chainId /\ connections' = connections /\ current' = current /\ heap' = heap
      /\ disk' = disk
  BY DEF Config!storeVars
<1> QED BY <1>1 DEF ChainInv, StoreFollows, HeapOK, DiskFollows, ChainIs, Config!Map

\* A call begins, goes on or ends.
LEMMA CallFollows ==
  ASSUME NEW p, ChainInv(p), NEW t, unread' = unread,
         \/ \E c : \/ Config(p)!Connect(t, c) \/ Config(p)!SwitchConnection(t, c)
                   \/ Config(p)!DisconnectConnector(t, c) \/ Config(p)!ReconnectSkip(t, c)
                   \/ \E ch : Config(p)!ReconnectRestore(t, c, ch)
         \/ \E cs : Config(p)!BeginReconnect(t, cs)
         \/ \E ch : Config(p)!ConnectAnswer(t, ch)
         \/ Config(p)!ConnectDone(t) \/ Config(p)!ConnectFail(t) \/ Config(p)!ReconnectRead(t)
         \/ Config(p)!DisconnectCurrent(t) \/ Config(p)!DisconnectDone(t)
         \/ Config(p)!DisconnectFail(t) \/ Config(p)!SwitchDone(t)
  PROVE  ChainInv(p)'
<1>1. StoreFollows(p) /\ DOMAIN heap = Config(p)!Refs
  BY DEF ChainInv, StoreFollows, HeapOK
<1>2. ASSUME ChangeFollows(p)
      PROVE  ChainInv(p)'
  BY <1>2 DEF ChainInv, ChangeFollows, DiskFollows, ChainIs
<1>3. ASSUME Config(p)!storeVars' = Config(p)!storeVars
      PROVE  ChainInv(p)'
  BY <1>3, StoreSame
<1>4. ASSUME NEW h, NEW m, DOMAIN h = Config(p)!Refs, Config(p)!Leave(h, m)
      PROVE  ChainInv(p)'
  BY <1>1, <1>2, <1>4, LeaveFollows
<1>5. ASSUME \E h, m, cur, st : DOMAIN h = Config(p)!Refs /\ Config(p)!Install(h, m, cur, st)
      PROVE  ChainInv(p)'
  BY <1>1, <1>2, <1>5, InstallFollows
<1>6. ASSUME \E cur, st : Config(p)!Keep(cur, st, chainId)
      PROVE  ChainInv(p)'
  BY <1>1, <1>2, <1>6, InstallFollows
<1>7. ASSUME NEW c, Config(p)!Connect(t, c)
      PROVE  ChainInv(p)'
  BY <1>6, <1>7 DEF Config!Connect
<1>8. ASSUME NEW c, Config(p)!SwitchConnection(t, c)
      PROVE  ChainInv(p)'
  BY <1>3, <1>8 DEF Config!SwitchConnection
<1>9. ASSUME NEW c, Config(p)!AskWallet(t, c)
      PROVE  ChainInv(p)'
  BY <1>3, <1>9 DEF Config!AskWallet
<1>10. ASSUME NEW c, Config(p)!ReconnectSkip(t, c)
       PROVE  ChainInv(p)'
  BY <1>1, <1>3, <1>5, <1>6, <1>10 DEF Config!ReconnectSkip
<1>11. ASSUME NEW c, NEW ch, Config(p)!ReconnectRestore(t, c, ch)
       PROVE  ChainInv(p)'
  BY <1>1, <1>5, <1>11 DEF Config!ReconnectRestore
<1>12. ASSUME NEW cs, Config(p)!BeginReconnect(t, cs)
       PROVE  ChainInv(p)'
  BY <1>6, <1>12, SMTT(30) DEF Config!BeginReconnect
<1>13. ASSUME (\E ch : Config(p)!ConnectAnswer(t, ch)) \/ Config(p)!ReconnectRead(t)
       PROVE  ChainInv(p)'
  BY <1>3, <1>13 DEF Config!ConnectAnswer, Config!ReconnectRead
<1>14. ASSUME Config(p)!ConnectDone(t)
       PROVE  ChainInv(p)'
  BY <1>1, <1>5, <1>14 DEF Config!ConnectDone
<1>15. ASSUME Config(p)!ConnectFail(t) \/ Config(p)!SwitchDone(t)
       PROVE  ChainInv(p)'
  BY <1>6, <1>15 DEF Config!ConnectFail, Config!SwitchDone
<1>16. ASSUME Config(p)!DisconnectCurrent(t)
       PROVE  ChainInv(p)'
  BY <1>1, <1>4, <1>9, <1>16 DEF Config!DisconnectCurrent, Config!NothingToAsk
<1>17. ASSUME Config(p)!DisconnectDone(t)
       PROVE  ChainInv(p)'
  <2> DEFINE m == Config(p)!MapDelete(heap[task[t].ref], Config(p)!U(task[t].c))
             h == [heap EXCEPT ![task[t].ref] = m]
  <2>1. Config(p)!Leave(h, m)
    BY <1>17 DEF Config!DisconnectDone
  <2>2. DOMAIN h = Config(p)!Refs
    BY <1>1
  <2> HIDE DEF h, m
  <2> QED BY <1>4, <2>1, <2>2
<1>18. ASSUME Config(p)!DisconnectFail(t)
       PROVE  ChainInv(p)'
  <2>1. /\ chainId' = chainId /\ connections' = connections /\ current' = current /\ disk' = disk
        /\ DOMAIN heap' = Config(p)!Refs
        /\ connections \in Config(p)!Refs => heap'[connections] = heap[connections]
    BY <1>18 DEF Config!DisconnectFail
  <2> QED BY <2>1 DEF ChainInv, StoreFollows, HeapOK, DiskFollows, ChainIs, Config!Map
<1> QED BY <1>7, <1>8, <1>9, <1>10, <1>11, <1>12, <1>13, <1>14, <1>15, <1>16, <1>17, <1>18
        DEF Config!DisconnectConnector

\* The wallets' events, and the application's own choice of a chain.
LEMMA EventFollows ==
  ASSUME NEW p \in DOMAIN Pages, ChainInv(p), unread' = unread,
         \/ \E c : \/ Config(p)!DisconnectEvent(c)
                   \/ \E ch : Config(p)!Change(c, ch) \/ Config(p)!ConnectEvent(c, ch)
         \/ \E ch : Config(p)!SwitchChain(current, ch)
  PROVE  ChainInv(p)'
<1>1. StoreFollows(p) /\ DOMAIN heap = Config(p)!Refs /\ connections \in Config(p)!Refs
  BY DEF ChainInv, StoreFollows, HeapOK
<1>2. ASSUME ChangeFollows(p)
      PROVE  ChainInv(p)'
  BY <1>2 DEF ChainInv, ChangeFollows, DiskFollows, ChainIs
<1>3. ASSUME NEW c, Config(p)!DisconnectEvent(c)
      PROVE  ChainInv(p)'
  <2> DEFINE m == Config(p)!MapDelete(Config(p)!Map, Config(p)!U(c))
             h == [heap EXCEPT ![connections] = m]
  <2>1. Config(p)!Leave(h, m)
    BY <1>3 DEF Config!DisconnectEvent
  <2>2. DOMAIN h = Config(p)!Refs
    BY <1>1
  <2> HIDE DEF h, m
  <2> QED BY <1>1, <1>2, <2>1, <2>2, LeaveFollows
<1>4. ASSUME NEW c, NEW ch, Config(p)!Change(c, ch) \/ Config(p)!ConnectEvent(c, ch)
      PROVE  ChainInv(p)'
  BY <1>1, <1>2, <1>4, InstallFollows DEF Config!Change, Config!ConnectEvent
<1>5. ASSUME NEW ch, Config(p)!SwitchChain(current, ch)
      PROVE  ChainInv(p)'
  <2>1. /\ current \notin Config(p)!Keys(Config(p)!Map)
        /\ Config(p)!SetState(heap, connections, current, status, ch) /\ Config(p)!Persist
    BY <1>5 DEF Config!SwitchChain, Config!Keep
  <2>2. ChainIs(p, heap[connections], current, ch)
    BY <2>1, NobodyFollows DEF Config!Map
  <2>3. StoreFollows(p)'
    BY <1>1, <2>1, <2>2, SetStateFollows
  <2> QED BY <1>2, <2>1, <2>3, PersistFollows DEF ChangeFollows
<1> QED BY <1>3, <1>4, <1>5

\* Storage is read, before or after the page is there.
LEMMA ReadFollows ==
  ASSUME NEW p \in DOMAIN Pages, ChainInv(p), Config(p)!Hydrate \/ Config(p)!Render
  PROVE  ChainInv(p)'
<1>1. DOMAIN heap = Config(p)!Refs /\ unread' = Config(p)!EmptyDisk
  BY DEF ChainInv, StoreFollows, HeapOK, Config!Hydrate, Config!Render
<1>2. DiskFollows(p, unread)'
  BY <1>1, NobodyFollows DEF DiskFollows, ChainIs
<1>3. \A ch : ChainIs(p, unread.map, unread.current, Config(p)!ValidChain(unread.chainId, ch))
  BY DEF ChainInv, DiskFollows, ChainIs, Config!ValidChain
<1>4. StoreFollows(p)'
  BY <1>1, <1>3, ReplaceFollows, NobodyFollows DEF Config!Hydrate, Config!Render
<1>5. DiskFollows(p, disk)'
  <2>1. disk' = disk \/ Config(p)!Persist
    BY DEF Config!Hydrate, Config!Render
  <2> QED BY <1>4, <2>1, PersistFollows DEF ChainInv, DiskFollows, ChainIs
<1> QED BY <1>2, <1>4, <1>5 DEF ChainInv

\* A page has places for Maps.
LEMMA SomeRefs ==
  ASSUME NEW p, IsFiniteSet(Pages[p].tasks)
  PROVE  0 \in Config(p)!Refs
<1>1. Config(p)!Cardinality(Pages[p].tasks) = Cardinality(Pages[p].tasks)
  BY Zenon DEF Config!Cardinality, Cardinality
<1>2. Cardinality(Pages[p].tasks) \in Nat
  BY FS_CardinalityType
<1>3. Config(p)!Cardinality(Pages[p].tasks) \in Nat
  BY <1>1, <1>2
<1>4. Config(p)!Refs = 0..Config(p)!Cardinality(Pages[p].tasks)
  BY DEF Config!Refs
<1> QED BY <1>3, <1>4

\* A page begins, with nothing or with what an earlier one left behind.
LEMMA FreshFollows ==
  ASSUME NEW p \in DOMAIN Pages, connections = 0,
         heap = [r \in Config(p)!Refs |-> Config(p)!EmptyMap]
  PROVE  StoreFollows(p)
<1>1. IsFiniteSet(Pages[p].tasks)
  BY PagesAssumption
<1>2. 0 \in Config(p)!Refs
  BY <1>1, SomeRefs
<1>3. Config(p)!Map = Config(p)!EmptyMap
  BY <1>2 DEF Config!Map
<1> QED BY <1>2, <1>3, NobodyFollows DEF StoreFollows, HeapOK

\* The page mounts.
LEMMA MountFollows ==
  ASSUME NEW p \in DOMAIN Pages, ChainInv(p), NEW t,
         Config(p)!MountSsr \/ Config(p)!MountClient(t) \/ Config(p)!MountResume(t)
  PROVE  ChainInv(p)'
<1>1. StoreFollows(p) /\ DOMAIN heap = Config(p)!Refs
  BY DEF ChainInv, StoreFollows, HeapOK
<1>2. CASE Config(p)!MountSsr
  BY <1>2, StoreSame DEF Config!MountSsr
<1>3. CASE Config(p)!Mounting(t) /\ unread' = unread
  <2>1. CASE Config(p)!BeginReconnect(t, Pages[p].connectors)
    BY <1>3, <2>1, CallFollows
  <2>2. CASE Config(p)!storeVars' = Config(p)!storeVars
    BY <1>3, <2>2, StoreSame
  <2>3. CASE Config(p)!Install(heap, Config(p)!EmptyMap, current, status)
    BY <1>1, <1>3, <2>3, InstallFollows DEF ChainInv, ChangeFollows, DiskFollows, ChainIs
  <2> QED BY <1>3, <2>1, <2>2, <2>3 DEF Config!Mounting
<1> QED BY <1>2, <1>3 DEF Config!MountClient, Config!MountResume

\* The page is loaded again.
LEMMA ReloadFollows ==
  ASSUME NEW p \in DOMAIN Pages, ChainInv(p), Config(p)!Reload
  PROVE  ChainInv(p)'
<1>1. StoreFollows(p)'
  <2>1. connections' = 0 /\ heap' = [r \in Config(p)!Refs |-> Config(p)!EmptyMap]
    BY DEF Config!Reload
  <2>2. 0 \in Config(p)!Refs
    BY SomeRefs, PagesAssumption
  <2>3. Config(p)!Map' = Config(p)!EmptyMap
    BY <2>1, <2>2 DEF Config!Map
  <2> QED BY <2>1, <2>2, <2>3, NobodyFollows DEF StoreFollows, HeapOK, ChainIs
<1>2. DiskFollows(p, disk)'
  BY NobodyFollows DEF Config!Reload, DiskFollows, ChainIs
<1>3. DiskFollows(p, unread)'
  <2>1. unread' = disk \/ unread' = Config(p)!EmptyDisk
    BY DEF Config!Reload
  <2> QED BY <2>1, NobodyFollows DEF ChainInv, DiskFollows, ChainIs
<1> QED BY <1>1, <1>2, <1>3 DEF ChainInv

\* The first page.
LEMMA ChainInit ==
  ASSUME NEW p \in DOMAIN Pages, Config(p)!Init
  PROVE  ChainInv(p)
<1>1. StoreFollows(p)
  BY FreshFollows DEF Config!Init
<1>2. DiskFollows(p, disk)
  BY NobodyFollows DEF Config!Init
<1>3. DiskFollows(p, unread)
  <2>1. unread = Config(p)!EmptyDisk \/ unread \in Config(p)!FirstDisks
    BY DEF Config!Init
  <2>2. ASSUME NEW ch, unread = Config(p)!Partial(Config(p)!EmptyMap, ch, None)
        PROVE  DiskFollows(p, unread)
    BY <2>2, NobodyFollows DEF DiskFollows, Config!Partial
  <2>3. ASSUME NEW u, NEW ch, unread = Config(p)!OneConnection(u, ch)
        PROVE  DiskFollows(p, unread)
    BY <2>3 DEF DiskFollows, ChainIs, Config!OneConnection, Config!Partial, Config!Selected,
                Config!MapSet, Config!Keys, Config!EmptyMap
  <2> QED BY <2>1, <2>2, <2>3, NobodyFollows DEF Config!FirstDisks
<1> QED BY <1>1, <1>2, <1>3 DEF ChainInv

\* Whatever the page does, if no call moves the chain of another connection.
LEMMA ChainKept ==
  ASSUME NEW p \in DOMAIN Pages, ChainInv(p), "switchChainOf" \notin Pages[p].calls,
         Config(p)!Next
  PROVE  ChainInv(p)'
<1>1. ASSUME NEW t, Config(p)!Continue(t) \/ Config(p)!Answer(t) \/ Config(p)!Call(t)
      PROVE  ChainInv(p)'
  <2>1. CASE Config(p)!Continue(t)
    <3>1. unread' = unread
      BY <2>1 DEF Config!Continue, Config!ConnectDone, Config!ReconnectRead, Config!SwitchDone,
                  Config!loadVars
    <3> QED BY <2>1, <3>1, CallFollows DEF Config!Continue
  <2>2. CASE Config(p)!Answer(t)
    <3>1. unread' = unread
      BY <2>2 DEF Config!Answer, Config!ConnectAnswer, Config!ConnectFail, Config!ReconnectSkip,
                  Config!ReconnectRestore, Config!DisconnectDone, Config!DisconnectFail,
                  Config!loadVars
    <3> QED BY <2>2, <3>1, CallFollows DEF Config!Answer
  <2>3. CASE Config(p)!Call(t)
    <3>1. unread' = unread
      BY <2>3 DEF Config!Call, Config!Connect, Config!Reconnect, Config!DisconnectCurrent,
                  Config!DisconnectConnector, Config!SwitchConnection, Config!loadVars
    <3> QED BY <2>3, <3>1, CallFollows DEF Config!Call, Config!Reconnect
  <2> QED BY <1>1, <2>1, <2>2, <2>3
<1>2. ASSUME Config(p)!SwitchChains \/ Config(p)!Event
      PROVE  ChainInv(p)'
  <2>1. unread' = unread
    BY <1>2 DEF Config!SwitchChains, Config!SwitchChain, Config!Event, Config!DisconnectEvent,
                Config!Change, Config!ConnectEvent, Config!loadVars
  <2> QED BY <1>2, <2>1, EventFollows DEF Config!SwitchChains, Config!Event
<1>3. ASSUME Config(p)!Page
      PROVE  ChainInv(p)'
  BY <1>3, ReadFollows, MountFollows DEF Config!Page
<1> QED BY <1>1, <1>2, <1>3, ReadFollows, ReloadFollows DEF Config!Next

-----------------------------------------------------------------------------
(***************************************************************************)
(* The calls of a page.                                                    *)
(***************************************************************************)

\* Where a call waits; only one that takes a connection away holds a Map.
Places == {"idle", "connect.wallet", "connect.saving", "reconnect.reading", "reconnect.trying",
           "disconnect.wallet", "switch.saving"}
Calling(p) ==
  [at : Places, c : Pages[p].connectors \cup {None}, ref : Config(p)!Refs \cup {-1},
   chain : Pages[p].chains \cup {None}, todo : SUBSET Pages[p].connectors, found : BOOLEAN,
   rank : [Pages[p].connectors -> 0..2]]
CallOK(p, r) ==
  /\ r \in Calling(p)
  /\ r.at \in {"connect.wallet", "connect.saving"} => r.c \in Pages[p].connectors
  /\ IF r.at = "disconnect.wallet" THEN r.ref \in Config(p)!Refs ELSE r.ref = -1
CallsOK(p) == DOMAIN task = Pages[p].tasks /\ \A t \in Pages[p].tasks : CallOK(p, task[t])

\* What a Map has after an entry came or went.
LEMMA MapKeys ==
  ASSUME NEW p
  PROVE  /\ \A m, k, v : Config(p)!Keys(Config(p)!MapSet(m, k, v)) = Config(p)!Keys(m) \cup {k}
         /\ \A m, k : Config(p)!Keys(Config(p)!MapDelete(m, k)) = Config(p)!Keys(m) \ {k}
         /\ Config(p)!Keys(Config(p)!EmptyMap) = {}
  BY DEF Config!Keys, Config!MapSet, Config!MapDelete, Config!EmptyMap

\* A setState leaves in the store, and in storage, the Map it was given.
LEMMA Installs ==
  ASSUME NEW p, HeapOK(p)
  PROVE  /\ \A h, m, cur, st, ch : DOMAIN h = Config(p)!Refs /\ Config(p)!Replace(h, m, cur, st, ch)
              => HeapOK(p)' /\ Config(p)!Map' = m
         /\ \A h, m, cur, st : DOMAIN h = Config(p)!Refs /\ Config(p)!Install(h, m, cur, st)
              => HeapOK(p)' /\ Config(p)!Map' = m /\ disk'.map = m
         /\ \A cur, st, ch : Config(p)!Keep(cur, st, ch)
              => HeapOK(p)' /\ Config(p)!Map' = Config(p)!Map /\ disk'.map = Config(p)!Map
         /\ \A h, m : DOMAIN h = Config(p)!Refs /\ Config(p)!Leave(h, m)
              => /\ HeapOK(p)' /\ disk'.map = Config(p)!Map'
                 /\ Config(p)!Keys(Config(p)!Map') = Config(p)!Keys(m)
<1>1. ASSUME NEW h, NEW ref \in Config(p)!Refs, NEW cur, NEW st, NEW ch,
             DOMAIN h = Config(p)!Refs, Config(p)!SetState(h, ref, cur, st, ch)
      PROVE  HeapOK(p)' /\ Config(p)!Map' = h[ref]
  BY <1>1 DEF Config!SetState, HeapOK, Config!Map
<1>2. ASSUME NEW h, NEW m, NEW cur, NEW st, NEW ch, DOMAIN h = Config(p)!Refs,
             Config(p)!Replace(h, m, cur, st, ch)
      PROVE  HeapOK(p)' /\ Config(p)!Map' = m
  <2>1. PICK r \in Config(p)!FreeRefs : Config(p)!SetState([h EXCEPT ![r] = m], r, cur, st, ch)
    BY <1>2 DEF Config!Replace
  <2> DEFINE g == [h EXCEPT ![r] = m]
  <2>2. r \in Config(p)!Refs /\ DOMAIN g = Config(p)!Refs /\ g[r] = m
    BY <1>2 DEF Config!FreeRefs
  <2> HIDE DEF g
  <2>3. Config(p)!SetState(g, r, cur, st, ch)
    BY <2>1 DEF g
  <2> QED BY <1>1, <2>2, <2>3
<1>3. ASSUME Config(p)!Persist
      PROVE  disk'.map = Config(p)!Map'
  BY <1>3 DEF Config!Persist, Config!Partial, Config!Map
<1>4. ASSUME NEW h, NEW m, NEW cur, NEW st, DOMAIN h = Config(p)!Refs,
             Config(p)!Install(h, m, cur, st)
      PROVE  HeapOK(p)' /\ Config(p)!Map' = m /\ disk'.map = m
  BY <1>2, <1>3, <1>4 DEF Config!Install
<1>5. ASSUME NEW cur, NEW st, NEW ch, Config(p)!Keep(cur, st, ch)
      PROVE  HeapOK(p)' /\ Config(p)!Map' = Config(p)!Map /\ disk'.map = Config(p)!Map
  BY <1>1, <1>3, <1>5 DEF Config!Keep, HeapOK, Config!Map
<1>6. ASSUME NEW h, NEW m, DOMAIN h = Config(p)!Refs, Config(p)!Leave(h, m)
      PROVE  /\ HeapOK(p)' /\ disk'.map = Config(p)!Map'
             /\ Config(p)!Keys(Config(p)!Map') = Config(p)!Keys(m)
  <2>1. \/ Config(p)!Keys(m) = {} /\ Config(p)!Install(h, Config(p)!EmptyMap, None, "disconnected")
        \/ \E next : Config(p)!Install(h, m, next, status)
    BY <1>6 DEF Config!Leave
  <2>2. ASSUME NEW n, NEW cur, NEW st, Config(p)!Install(h, n, cur, st),
               Config(p)!Keys(n) = Config(p)!Keys(m)
        PROVE  /\ HeapOK(p)' /\ disk'.map = Config(p)!Map'
               /\ Config(p)!Keys(Config(p)!Map') = Config(p)!Keys(m)
    <3>1. HeapOK(p)' /\ Config(p)!Map' = n /\ disk'.map = n
      BY <1>4, <1>6, <2>2
    <3> QED BY <2>2, <3>1
  <2>3. Config(p)!Keys(Config(p)!EmptyMap) = {}
    BY MapKeys
  <2> QED BY <2>1, <2>2, <2>3
<1> QED BY <1>2, <1>4, <1>5, <1>6

\* No call.
LEMMA IdleHere ==
  ASSUME NEW p
  PROVE  CallOK(p, Config(p)!Idle) /\ Config(p)!Idle.at = "idle" /\ Config(p)!Idle.ref = -1
<1> DEFINE r == Config(p)!Idle
           rank == [x \in Pages[p].connectors |-> 2]
<1>1. rank \in [Pages[p].connectors -> 0..2]
  OBVIOUS
<1>2. r = [at |-> "idle", c |-> None, ref |-> -1, chain |-> None, todo |-> {}, found |-> FALSE,
           rank |-> rank]
  BY DEF Config!Idle, Config!TaskAt, Config!NoRef
<1> HIDE DEF r, rank
<1>3. r \in Calling(p) /\ r.at = "idle" /\ r.ref = -1
  BY <1>1, <1>2 DEF Calling, Places
<1>4. CallOK(p, r)
  BY <1>3 DEF CallOK
<1> QED BY <1>3, <1>4 DEF r

\* A call goes to another place.
LEMMA Goes ==
  ASSUME NEW p, CallsOK(p), NEW t \in Pages[p].tasks, NEW r, CallOK(p, r), Config(p)!Go(t, r)
  PROVE  /\ CallsOK(p)' /\ task'[t] = r
         /\ \A s \in Pages[p].tasks : s # t => task'[s] = task[s]
<1>1. DOMAIN task' = Pages[p].tasks /\ task'[t] = r
      /\ \A s \in Pages[p].tasks : s # t => task'[s] = task[s]
  BY DEF CallsOK, Config!Go
<1>2. \A s \in Pages[p].tasks : task'[s] = r \/ task'[s] = task[s]
  BY <1>1
<1> QED BY <1>1, <1>2 DEF CallsOK, CallOK, Calling

\* A call has moved.
Moved(p, t) == CallsOK(p)' /\ \A s \in Pages[p].tasks : s # t => task'[s] = task[s]

\* A call ends.
LEMMA Finishes ==
  ASSUME NEW p, CallsOK(p), NEW t \in Pages[p].tasks, Config(p)!Finish(t)
  PROVE  Moved(p, t) /\ task'[t].at = "idle"
<1> DEFINE r == Config(p)!Idle
<1>1. Config(p)!Go(t, r)
  BY DEF Config!Finish
<1>2. CallOK(p, r) /\ r.at = "idle"
  BY IdleHere
<1> HIDE DEF r
<1> QED BY <1>1, <1>2, Goes DEF Moved

\* A call begins.
LEMMA Starts ==
  ASSUME NEW p, CallsOK(p), NEW t \in Pages[p].tasks,
         NEW at \in Places, NEW c \in Pages[p].connectors \cup {None},
         NEW ref \in Config(p)!Refs \cup {-1}, NEW todo \in SUBSET Pages[p].connectors,
         Config(p)!Start(t, Config(p)!TaskAt(at, c, ref, todo)),
         at \in {"connect.wallet", "connect.saving"} => c \in Pages[p].connectors,
         IF at = "disconnect.wallet" THEN ref \in Config(p)!Refs ELSE ref = -1
  PROVE  Moved(p, t) /\ task'[t].at = at /\ task'[t].c = c /\ task'[t].found = FALSE
<1> DEFINE r == Config(p)!TaskAt(at, c, ref, todo)
           rank == [x \in Pages[p].connectors |-> 2]
<1>1. rank \in [Pages[p].connectors -> 0..2]
  OBVIOUS
<1>2. Config(p)!Go(t, r)
  BY DEF Config!Start
<1>3. r = [at |-> at, c |-> c, ref |-> ref, chain |-> None, todo |-> todo, found |-> FALSE,
           rank |-> rank]
  BY DEF Config!TaskAt
<1> HIDE DEF r, rank
<1>4. r \in Calling(p) /\ r.at = at /\ r.c = c /\ r.ref = ref /\ r.found = FALSE
  BY <1>1, <1>3 DEF Calling
<1>5. CallOK(p, r)
  BY <1>4 DEF CallOK
<1> QED BY <1>2, <1>4, <1>5, Goes DEF Moved

\* A call has an attempt to reconnect behind it.
LEMMA Advances ==
  ASSUME NEW p, CallsOK(p), NEW t \in Pages[p].tasks, NEW c, NEW found \in BOOLEAN,
         task[t].at = "reconnect.trying", Config(p)!Advance(t, c, found)
  PROVE  /\ Moved(p, t)
         /\ IF Config(p)!IsLast(t) THEN task'[t].at = "idle"
            ELSE task'[t].at = "reconnect.trying" /\ task'[t].found = found
<1>1. CASE Config(p)!IsLast(t)
  BY <1>1, Finishes DEF Config!Advance
<1>2. CASE ~Config(p)!IsLast(t)
  <2> DEFINE r == [task[t] EXCEPT !.todo = @ \ {c}, !.found = found]
  <2>1. CallOK(p, task[t])
    BY DEF CallsOK
  <2>2. r \in Calling(p) /\ r.at = "reconnect.trying" /\ r.ref = task[t].ref /\ r.found = found
    BY <2>1 DEF CallOK, Calling
  <2>3. Config(p)!Go(t, r)
    BY <1>2 DEF Config!Advance
  <2> HIDE DEF r
  <2>4. CallOK(p, r)
    BY <2>1, <2>2 DEF CallOK
  <2> QED BY <1>2, <2>2, <2>3, <2>4, Goes DEF Moved
<1> QED BY <1>1, <1>2

\* Where a call waits after each of its steps.
LEMMA CallMoves ==
  ASSUME NEW p \in DOMAIN Pages, CallsOK(p), HeapOK(p), NEW t \in Pages[p].tasks
  PROVE  /\ \/ Config(p)!ConnectDone(t) \/ Config(p)!ConnectFail(t) \/ Config(p)!SwitchDone(t)
            \/ Config(p)!DisconnectDone(t) \/ Config(p)!DisconnectFail(t)
            => Moved(p, t) /\ task'[t].at = "idle"
         /\ \A ch \in Pages[p].chains : Config(p)!ConnectAnswer(t, ch)
            => Moved(p, t) /\ task'[t].at = "connect.saving" /\ task'[t].c = task[t].c
         /\ Config(p)!ReconnectRead(t)
            => Moved(p, t) /\ task'[t].at = "reconnect.trying" /\ task'[t].found = task[t].found
         /\ \A c : Config(p)!ReconnectSkip(t, c)
            => /\ Moved(p, t)
               /\ IF Config(p)!IsLast(t) THEN task'[t].at = "idle"
                  ELSE task'[t].at = "reconnect.trying" /\ task'[t].found = task[t].found
         /\ \A c, ch : Config(p)!ReconnectRestore(t, c, ch)
            => /\ Moved(p, t)
               /\ IF Config(p)!IsLast(t) THEN task'[t].at = "idle"
                  ELSE task'[t].at = "reconnect.trying" /\ task'[t].found = TRUE
         /\ \A c \in Pages[p].connectors : Config(p)!Connect(t, c)
            => Moved(p, t) /\ task'[t].at = "connect.wallet"
         /\ \A cs \in SUBSET Pages[p].connectors : Config(p)!BeginReconnect(t, cs)
            => Moved(p, t) /\ task'[t].at = "reconnect.reading" /\ task'[t].found = FALSE
         /\ \A c \in Pages[p].connectors : Config(p)!SwitchConnection(t, c)
            => Moved(p, t) /\ task'[t].at = "switch.saving" /\ task'[t].c = c
         /\ \A c \in Pages[p].connectors : Config(p)!AskWallet(t, c)
            => Moved(p, t) /\ task'[t].at = "disconnect.wallet"
<1>1. CallOK(p, task[t]) /\ task[t] \in Calling(p)
  BY DEF CallsOK, CallOK
<1>2. ASSUME \/ Config(p)!ConnectDone(t) \/ Config(p)!ConnectFail(t) \/ Config(p)!SwitchDone(t)
             \/ Config(p)!DisconnectDone(t) \/ Config(p)!DisconnectFail(t)
      PROVE  Moved(p, t) /\ task'[t].at = "idle"
  BY <1>2, Finishes DEF Config!ConnectDone, Config!ConnectFail, Config!SwitchDone, Config!DisconnectDone,
                     Config!DisconnectFail
<1>3. ASSUME NEW ch \in Pages[p].chains, Config(p)!ConnectAnswer(t, ch)
      PROVE  Moved(p, t) /\ task'[t].at = "connect.saving" /\ task'[t].c = task[t].c
  <2> DEFINE r == [task[t] EXCEPT !.at = "connect.saving", !.chain = ch]
  <2>1. task[t].at = "connect.wallet" /\ Config(p)!Go(t, r)
    BY <1>3 DEF Config!ConnectAnswer
  <2>2. /\ r \in Calling(p) /\ r.at = "connect.saving" /\ r.c = task[t].c /\ r.ref = task[t].ref
    BY <1>1 DEF Calling, Places
  <2> HIDE DEF r
  <2>3. CallOK(p, r)
    BY <1>1, <2>1, <2>2 DEF CallOK
  <2> QED BY <2>1, <2>2, <2>3, Goes DEF Moved
<1>4. ASSUME Config(p)!ReconnectRead(t)
      PROVE  Moved(p, t) /\ task'[t].at = "reconnect.trying" /\ task'[t].found = task[t].found
  <2> DEFINE rank == [c \in Pages[p].connectors |->
                        IF c = recent THEN 0
                        ELSE IF \E u \in Config(p)!Keys(Config(p)!Map) : u[1] = c THEN 1 ELSE 2]
             r == [task[t] EXCEPT !.at = "reconnect.trying", !.rank = rank]
  <2>1. rank \in [Pages[p].connectors -> 0..2]
    OBVIOUS
  <2>2. task[t].at = "reconnect.reading" /\ Config(p)!Go(t, r)
    BY <1>4 DEF Config!ReconnectRead
  <2> HIDE DEF rank
  <2>3. /\ r \in Calling(p) /\ r.at = "reconnect.trying" /\ r.ref = task[t].ref
        /\ r.found = task[t].found
    BY <1>1, <2>1 DEF Calling, Places
  <2> HIDE DEF r
  <2>4. CallOK(p, r)
    BY <1>1, <2>2, <2>3 DEF CallOK
  <2> QED BY <2>2, <2>3, <2>4, Goes DEF Moved
<1>5. ASSUME NEW c, Config(p)!ReconnectSkip(t, c)
      PROVE  /\ Moved(p, t)
             /\ IF Config(p)!IsLast(t) THEN task'[t].at = "idle"
                ELSE task'[t].at = "reconnect.trying" /\ task'[t].found = task[t].found
  <2>1. task[t].at = "reconnect.trying" /\ task[t].found \in BOOLEAN
        /\ Config(p)!Advance(t, c, task[t].found)
    BY <1>1, <1>5 DEF Config!ReconnectSkip, Config!Trying, Calling
  <2> QED BY <2>1, Advances
<1>6. ASSUME NEW c, NEW ch, Config(p)!ReconnectRestore(t, c, ch)
      PROVE  /\ Moved(p, t)
             /\ IF Config(p)!IsLast(t) THEN task'[t].at = "idle"
                ELSE task'[t].at = "reconnect.trying" /\ task'[t].found = TRUE
  <2>1. task[t].at = "reconnect.trying" /\ Config(p)!Advance(t, c, TRUE)
    BY <1>6 DEF Config!ReconnectRestore, Config!Trying
  <2> QED BY <2>1, Advances
<1>7. ASSUME NEW c \in Pages[p].connectors, Config(p)!Connect(t, c)
      PROVE  Moved(p, t) /\ task'[t].at = "connect.wallet"
  <2>1. Config(p)!Start(t, Config(p)!TaskAt("connect.wallet", c, -1, {}))
    BY <1>7 DEF Config!Connect, Config!NoRef
  <2>2. /\ "connect.wallet" \in Places /\ c \in Pages[p].connectors \cup {None}
        /\ -1 \in Config(p)!Refs \cup {-1} /\ {} \in SUBSET Pages[p].connectors
    BY DEF Places
  <2>3. /\ "connect.wallet" \in {"connect.wallet", "connect.saving"} => c \in Pages[p].connectors
        /\ IF "connect.wallet" = "disconnect.wallet" THEN -1 \in Config(p)!Refs ELSE -1 = -1
    OBVIOUS
  <2> QED BY <2>1, <2>2, <2>3, Starts, ZenonT(60)
<1>8. ASSUME NEW cs \in SUBSET Pages[p].connectors, Config(p)!BeginReconnect(t, cs)
      PROVE  Moved(p, t) /\ task'[t].at = "reconnect.reading" /\ task'[t].found = FALSE
  <2>1. Config(p)!Start(t, Config(p)!TaskAt("reconnect.reading", None, -1, cs))
    BY <1>8 DEF Config!BeginReconnect, Config!NoRef
  <2>2. /\ "reconnect.reading" \in Places /\ None \in Pages[p].connectors \cup {None}
        /\ -1 \in Config(p)!Refs \cup {-1} /\ cs \in SUBSET Pages[p].connectors
    BY DEF Places
  <2>3. /\ "reconnect.reading" \in {"connect.wallet", "connect.saving"} => None \in Pages[p].connectors
        /\ IF "reconnect.reading" = "disconnect.wallet" THEN -1 \in Config(p)!Refs ELSE -1 = -1
    OBVIOUS
  <2> QED BY <2>1, <2>2, <2>3, Starts, Zenon
<1>9. ASSUME NEW c \in Pages[p].connectors, Config(p)!SwitchConnection(t, c)
      PROVE  Moved(p, t) /\ task'[t].at = "switch.saving" /\ task'[t].c = c
  <2>1. Config(p)!Start(t, Config(p)!TaskAt("switch.saving", c, -1, {}))
    BY <1>9 DEF Config!SwitchConnection, Config!NoRef
  <2>2. /\ "switch.saving" \in Places /\ c \in Pages[p].connectors \cup {None}
        /\ -1 \in Config(p)!Refs \cup {-1} /\ {} \in SUBSET Pages[p].connectors
    BY DEF Places
  <2>3. /\ "switch.saving" \in {"connect.wallet", "connect.saving"} => c \in Pages[p].connectors
        /\ IF "switch.saving" = "disconnect.wallet" THEN -1 \in Config(p)!Refs ELSE -1 = -1
    OBVIOUS
  <2>4. Moved(p, t) /\ task'[t].at = "switch.saving"
    BY <2>1, <2>2, <2>3, Starts, ZenonT(60)
  <2>5. task'[t].c = c
    BY <2>1 DEF CallsOK, Config!Start, Config!Go, Config!TaskAt
  <2> QED BY <2>4, <2>5
<1>10. ASSUME NEW c \in Pages[p].connectors, Config(p)!AskWallet(t, c)
       PROVE  Moved(p, t) /\ task'[t].at = "disconnect.wallet"
  <2>1. Config(p)!Start(t, Config(p)!TaskAt("disconnect.wallet", c, connections, {}))
    BY <1>10 DEF Config!AskWallet
  <2>2. /\ "disconnect.wallet" \in Places /\ c \in Pages[p].connectors \cup {None}
        /\ {} \in SUBSET Pages[p].connectors
    BY DEF Places
  <2>3. connections \in Config(p)!Refs
    BY DEF HeapOK
  <2>4. connections \in Config(p)!Refs \cup {-1}
    BY <2>3
  <2> QED BY <2>1, <2>2, <2>3, <2>4, Starts
<1> QED BY <1>2, <1>3, <1>4, <1>5, <1>6, <1>7, <1>8, <1>9, <1>10

-----------------------------------------------------------------------------
(***************************************************************************)
(* Every connection of a page is heard.                                    *)
(***************************************************************************)

\* The handlers for the events of a connection are hung on its connector.
Hung(c) == {"change", "disconnect"} \subseteq on[c]

\* The connections of a Map are of this or of an earlier page, and those of this page
\* are heard.
Heard(p, m) ==
  \A u \in Config(p)!Keys(m) :
    \E c \in Pages[p].connectors, n \in 0..life : u = <<c, n>> /\ (n = life => Hung(c))

\* Nothing is disconnected by a call; one that only waits for storage has hung the
\* handlers already; what was not read yet is of an earlier page.
HeardInv(p) ==
  /\ life \in Nat /\ DOMAIN on = Pages[p].connectors /\ HeapOK(p) /\ CallsOK(p)
  /\ \A t \in Pages[p].tasks : /\ task[t].at # "disconnect.wallet"
                               /\ task[t].at = "connect.saving" => Hung(task[t].c)
  /\ Heard(p, Config(p)!Map) /\ Heard(p, disk.map) /\ Heard(p, unread.map)
  /\ hydration # "reading" => \A u \in Config(p)!Keys(unread.map) : u[2] # life

\* The calls that wait for storage, and those that ask a wallet to let go.
Ending == {"connect.saving", "disconnect.wallet"}

\* Whatever is in the store or in storage after a step was there, or is heard.
LEMMA HeardKept ==
  ASSUME NEW p, HeardInv(p), life' = life, HeapOK(p)', CallsOK(p)',
         DOMAIN on' = Pages[p].connectors,
         \A c \in Pages[p].connectors : Hung(c) => Hung(c)',
         \A t \in Pages[p].tasks : task'[t].at \in Ending
            => task'[t] = task[t] \/ (task'[t].at = "connect.saving" /\ Hung(task[t].c)'),
         \A u \in Config(p)!Keys(Config(p)!Map') :
            \/ u \in Config(p)!Keys(Config(p)!Map) \cup Config(p)!Keys(unread.map)
            \/ \E c \in Pages[p].connectors : u = <<c, life>> /\ Hung(c)',
         disk'.map = disk.map \/ disk'.map = Config(p)!Map',
         \/ unread' = unread /\ (hydration' = hydration \/ hydration' = "reading")
         \/ unread' = disk /\ hydration' = "reading"
         \/ unread' = Config(p)!EmptyDisk
  PROVE  HeardInv(p)'
<1>1. ASSUME NEW m, NEW n, Heard(p, m), m = n
      PROVE  \A u \in Config(p)!Keys(n) : \E c \in Pages[p].connectors, l \in 0..life' :
                u = <<c, l>> /\ (l = life' => Hung(c)')
  BY <1>1 DEF Heard
<1>2. Heard(p, Config(p)!Map)'
  <2>1. ASSUME NEW u \in Config(p)!Keys(Config(p)!Map')
        PROVE  \E c \in Pages[p].connectors, l \in 0..life' :
                  u = <<c, l>> /\ (l = life' => Hung(c)')
    <3>1. ASSUME NEW c \in Pages[p].connectors, u = <<c, life>>, Hung(c)'
          PROVE  \E d \in Pages[p].connectors, l \in 0..life' :
                    u = <<d, l>> /\ (l = life' => Hung(d)')
      <4>1. life \in 0..life'
        BY DEF HeardInv
      <4> QED BY <3>1, <4>1
    <3>2. Heard(p, Config(p)!Map) /\ Heard(p, unread.map)
      BY DEF HeardInv
    <3> QED BY <1>1, <2>1, <3>1, <3>2
  <2> QED BY <2>1 DEF Heard, Config!Keys, Config!Map
<1>3. Heard(p, disk.map)'
  <2>1. CASE disk'.map = disk.map
    BY <1>1, <2>1 DEF HeardInv, Heard, Config!Keys
  <2>2. CASE disk'.map = Config(p)!Map'
    BY <1>2, <2>2 DEF Heard, Config!Keys, Config!Map
  <2> QED BY <2>1, <2>2
<1>4. Config(p)!Keys(Config(p)!EmptyDisk.map) = {}
  BY MapKeys DEF Config!EmptyDisk, Config!Partial
<1>5. Heard(p, unread.map)'
  <2>1. CASE unread' = unread
    BY <1>1, <2>1 DEF HeardInv, Heard, Config!Keys
  <2>2. CASE unread' = disk
    BY <1>1, <2>2 DEF HeardInv, Heard, Config!Keys
  <2>3. CASE unread' = Config(p)!EmptyDisk
    BY <1>4, <2>3 DEF Heard, Config!Keys
  <2> QED BY <2>1, <2>2, <2>3
<1>6. (hydration # "reading" => \A u \in Config(p)!Keys(unread.map) : u[2] # life)'
  BY <1>4 DEF HeardInv, Config!Keys
<1>7. ASSUME NEW t \in Pages[p].tasks
      PROVE  task'[t].at # "disconnect.wallet" /\ (task'[t].at = "connect.saving" => Hung(task[t].c)')
  <2>1. task[t].at # "disconnect.wallet" /\ (task[t].at = "connect.saving" => Hung(task[t].c))
        /\ (task[t].at = "connect.saving" => task[t].c \in Pages[p].connectors)
    BY DEF HeardInv, CallsOK, CallOK
  <2>2. CASE task'[t] = task[t]
    <3>1. \A c \in Pages[p].connectors : c = task[t].c /\ Hung(c) => Hung(task[t].c)'
      <4>1. \A c \in Pages[p].connectors : Hung(c) => {"change", "disconnect"} \subseteq on'[c]
        BY DEF Hung
      <4> QED BY <2>2, <4>1 DEF Hung
    <3> QED BY <2>1, <2>2, <3>1
  <2> QED BY <2>2 DEF Ending
<1> QED BY <1>2, <1>3, <1>5, <1>6, <1>7 DEF HeardInv

\* Handlers are hung.
LEMMA Hangs ==
  ASSUME NEW p, DOMAIN on = Pages[p].connectors
  PROVE  /\ on' = on => /\ DOMAIN on' = Pages[p].connectors
                        /\ \A c \in Pages[p].connectors : Hung(c) => Hung(c)'
         /\ \A d \in Pages[p].connectors : Config(p)!Connected(d)
              => /\ DOMAIN on' = Pages[p].connectors /\ Hung(d)'
                 /\ \A c \in Pages[p].connectors : Hung(c) => Hung(c)'
  BY DEF Hung, Config!Connected

\* A call that leaves the store, or what it holds, and the handlers as they are.
LEMMA StaysHeard ==
  ASSUME NEW p, HeardInv(p), CallsOK(p)', Config(p)!loadVars' = Config(p)!loadVars, on' = on,
         \A s \in Pages[p].tasks : task'[s].at \in Ending => task'[s] = task[s],
         \/ Config(p)!storeVars' = Config(p)!storeVars
         \/ \E cur, st, ch : Config(p)!Keep(cur, st, ch)
         \/ \E cur, st : Config(p)!Install(heap, Config(p)!EmptyMap, cur, st)
  PROVE  HeardInv(p)'
<1>1. HeapOK(p) /\ DOMAIN heap = Config(p)!Refs
  BY DEF HeardInv, HeapOK
<1>2. life' = life /\ unread' = unread /\ hydration' = hydration
  BY DEF Config!loadVars
<1>3. DOMAIN on' = Pages[p].connectors /\ \A c \in Pages[p].connectors : Hung(c) => Hung(c)'
  BY Hangs DEF HeardInv
<1>4. /\ HeapOK(p)'
      /\ disk'.map = disk.map \/ disk'.map = Config(p)!Map'
      /\ Config(p)!Map' = Config(p)!Map \/ Config(p)!Keys(Config(p)!Map') = {}
  <2>1. CASE Config(p)!storeVars' = Config(p)!storeVars
    BY <1>1, <2>1 DEF Config!storeVars, HeapOK, Config!Map
  <2>2. ASSUME NEW cur, NEW st, NEW ch, Config(p)!Keep(cur, st, ch)
        PROVE  /\ HeapOK(p)' /\ disk'.map = Config(p)!Map' /\ Config(p)!Map' = Config(p)!Map
    BY <1>1, <2>2, Installs
  <2>3. ASSUME NEW cur, NEW st, Config(p)!Install(heap, Config(p)!EmptyMap, cur, st)
        PROVE  /\ HeapOK(p)' /\ disk'.map = Config(p)!Map' /\ Config(p)!Keys(Config(p)!Map') = {}
    <3>1. HeapOK(p)' /\ Config(p)!Map' = Config(p)!EmptyMap /\ disk'.map = Config(p)!EmptyMap
      BY <1>1, <2>3, Installs
    <3> QED BY <3>1, MapKeys
  <2> QED BY <2>1, <2>2, <2>3
<1>5. \A u \in Config(p)!Keys(Config(p)!Map') : u \in Config(p)!Keys(Config(p)!Map)
  BY <1>4
<1> QED BY <1>2, <1>3, <1>4, <1>5, HeardKept

\* A connection that is heard is added, to those there are or to none.
LEMMA AddsHeard ==
  ASSUME NEW p, HeardInv(p), CallsOK(p)', Config(p)!loadVars' = Config(p)!loadVars,
         DOMAIN on' = Pages[p].connectors,
         \A c \in Pages[p].connectors : Hung(c) => Hung(c)',
         \A s \in Pages[p].tasks : task'[s].at \in Ending => task'[s] = task[s],
         NEW c \in Pages[p].connectors, Hung(c)',
         NEW m, m \in {Config(p)!Map, Config(p)!EmptyMap}, NEW ch, NEW cur, NEW st,
         Config(p)!Install(heap, Config(p)!MapSet(m, Config(p)!U(c), ch), cur, st)
  PROVE  HeardInv(p)'
<1> DEFINE n == Config(p)!MapSet(m, Config(p)!U(c), ch)
<1>1. HeapOK(p) /\ DOMAIN heap = Config(p)!Refs
  BY DEF HeardInv, HeapOK
<1>2. life' = life /\ unread' = unread /\ hydration' = hydration
  BY DEF Config!loadVars
<1>3. Config(p)!Keys(n) = Config(p)!Keys(m) \cup {<<c, life>>}
  <2>1. Config(p)!Keys(n) = Config(p)!Keys(m) \cup {Config(p)!U(c)}
    BY MapKeys
  <2> QED BY <2>1 DEF Config!U
<1>4. Config(p)!Keys(m) \subseteq Config(p)!Keys(Config(p)!Map)
  BY MapKeys
<1> HIDE DEF n
<1>5. HeapOK(p)' /\ Config(p)!Map' = n /\ disk'.map = n
  BY <1>1, Installs DEF n
<1>6. \A u \in Config(p)!Keys(Config(p)!Map') :
        \/ u \in Config(p)!Keys(Config(p)!Map)
        \/ \E d \in Pages[p].connectors : u = <<d, life>> /\ Hung(d)'
  BY <1>3, <1>4, <1>5
<1> QED BY <1>2, <1>5, <1>6, HeardKept

\* A call begins, goes on or ends.
LEMMA CallsHeard ==
  ASSUME NEW p \in DOMAIN Pages, ~Pages[p].async, "disconnect" \notin Pages[p].calls,
         HeardInv(p), NEW t \in Pages[p].tasks,
         Config(p)!Continue(t) \/ Config(p)!Answer(t) \/ Config(p)!Call(t)
  PROVE  HeardInv(p)'
<1> DEFINE Others == \A s \in Pages[p].tasks : task'[s].at \in Ending => task'[s] = task[s]
<1>1. CallsOK(p) /\ HeapOK(p) /\ DOMAIN on = Pages[p].connectors /\ CallOK(p, task[t])
  BY DEF HeardInv, CallsOK
<1>2. Moved(p, t) /\ task'[t].at \notin Ending => CallsOK(p)' /\ Others
  BY DEF Moved
<1>3. CASE Config(p)!ConnectDone(t)
  <2> DEFINE c == task[t].c
  <2>1. c \in Pages[p].connectors /\ Hung(c)
    BY <1>1, <1>3 DEF HeardInv, CallOK, Config!ConnectDone
  <2>2. /\ Config(p)!loadVars' = Config(p)!loadVars /\ on' = on
        /\ Config(p)!Install(heap, Config(p)!MapSet(Config(p)!Map, Config(p)!U(c), task[t].chain),
                             Config(p)!U(c), "connected")
    BY <1>3 DEF Config!ConnectDone
  <2>3. CallsOK(p)' /\ Others
    BY <1>1, <1>2, <1>3, CallMoves DEF Ending
  <2>4. DOMAIN on' = Pages[p].connectors /\ \A d \in Pages[p].connectors : Hung(d) => Hung(d)'
    BY <1>1, <2>2, Hangs
  <2> QED BY <2>1, <2>2, <2>3, <2>4, AddsHeard
<1>4. CASE Config(p)!ReconnectRead(t)
  <2>1. CallsOK(p)' /\ Others
    BY <1>1, <1>2, <1>4, CallMoves DEF Ending
  <2> QED BY <1>4, <2>1, StaysHeard DEF Config!ReconnectRead
<1>5. CASE Config(p)!SwitchDone(t) \/ Config(p)!ConnectFail(t)
  <2>1. CallsOK(p)' /\ Others
    BY <1>1, <1>2, <1>5, CallMoves DEF Ending
  <2> QED BY <1>5, <2>1, StaysHeard DEF Config!SwitchDone, Config!ConnectFail
<1>6. ASSUME NEW ch \in Pages[p].chains, Config(p)!ConnectAnswer(t, ch)
      PROVE  HeardInv(p)'
  <2>1. task[t].c \in Pages[p].connectors /\ Config(p)!Connected(task[t].c)
    BY <1>1, <1>6 DEF CallOK, Config!ConnectAnswer
  <2>2. Moved(p, t) /\ task'[t].at = "connect.saving" /\ task'[t].c = task[t].c
    BY <1>1, <1>6, CallMoves
  <2>3. /\ DOMAIN on' = Pages[p].connectors /\ Hung(task[t].c)'
        /\ \A c \in Pages[p].connectors : Hung(c) => Hung(c)'
    <3>1. \A d \in Pages[p].connectors : d = task[t].c =>
             /\ DOMAIN on' = Pages[p].connectors /\ {"change", "disconnect"} \subseteq on'[d]
             /\ \A c \in Pages[p].connectors : Hung(c) => Hung(c)'
      BY <1>1, <2>1, Hangs DEF Hung
    <3> QED BY <2>1, <2>2, <3>1 DEF Hung
  <2>4. CallsOK(p)' /\ \A s \in Pages[p].tasks : s # t => task'[s] = task[s]
    BY <2>2 DEF Moved
  <2>5. life' = life /\ unread' = unread /\ hydration' = hydration /\ HeapOK(p)'
        /\ disk' = disk /\ Config(p)!Map' = Config(p)!Map
    BY <1>6 DEF Config!ConnectAnswer, Config!storeVars, Config!loadVars, HeardInv, HeapOK, Config!Map
  <2>6. \A s \in Pages[p].tasks : task'[s].at \in Ending
          => task'[s] = task[s] \/ (task'[s].at = "connect.saving" /\ Hung(task[s].c)')
    BY <2>2, <2>3, <2>4
  <2> QED BY <2>3, <2>4, <2>5, <2>6, HeardKept
<1>7. ASSUME NEW c \in Pages[p].connectors, Config(p)!ReconnectSkip(t, c)
      PROVE  HeardInv(p)'
  <2>1. CallsOK(p)' /\ Others
    BY <1>1, <1>2, <1>7, CallMoves DEF Ending
  <2> QED BY <1>7, <2>1, StaysHeard DEF Config!ReconnectSkip
<1>8. ASSUME NEW c \in Pages[p].connectors, NEW ch, Config(p)!ReconnectRestore(t, c, ch)
      PROVE  HeardInv(p)'
  <2>1. Config(p)!Connected(c) /\ Config(p)!loadVars' = Config(p)!loadVars
    BY <1>8 DEF Config!ReconnectRestore
  <2>2. CallsOK(p)' /\ Others
    BY <1>1, <1>2, <1>8, CallMoves DEF Ending
  <2>3. /\ DOMAIN on' = Pages[p].connectors /\ Hung(c)'
        /\ \A d \in Pages[p].connectors : Hung(d) => Hung(d)'
    BY <1>1, <2>1, Hangs
  <2>4. PICK m \in {Config(p)!Map, Config(p)!EmptyMap} : \E cur, st :
          Config(p)!Install(heap, Config(p)!MapSet(m, Config(p)!U(c), ch), cur, st)
    BY <1>8 DEF Config!ReconnectRestore
  <2> QED BY <2>1, <2>2, <2>3, <2>4, AddsHeard
<1>9. ~(Config(p)!DisconnectDone(t) \/ Config(p)!DisconnectFail(t))
  BY DEF Config!DisconnectDone, Config!DisconnectFail, HeardInv
<1>10. ASSUME NEW c \in Pages[p].connectors, Config(p)!Connect(t, c)
       PROVE  HeardInv(p)'
  <2>1. CallsOK(p)' /\ Others
    BY <1>1, <1>2, <1>10, CallMoves DEF Ending
  <2> QED BY <1>10, <2>1, StaysHeard DEF Config!Connect
<1>11. ASSUME NEW cs \in SUBSET Pages[p].connectors, Config(p)!Reconnect(t, cs)
       PROVE  HeardInv(p)'
  <2>1. CallsOK(p)' /\ Others
    BY <1>1, <1>2, <1>11, CallMoves DEF Ending, Config!Reconnect
  <2> QED BY <1>11, <2>1, StaysHeard DEF Config!Reconnect, Config!BeginReconnect
<1>12. ASSUME NEW c \in Pages[p].connectors, Config(p)!SwitchConnection(t, c)
       PROVE  HeardInv(p)'
  <2>1. CallsOK(p)' /\ Others
    BY <1>1, <1>2, <1>12, CallMoves DEF Ending
  <2> QED BY <1>12, <2>1, StaysHeard DEF Config!SwitchConnection
<1> QED BY <1>3, <1>4, <1>5, <1>6, <1>7, <1>8, <1>9, <1>10, <1>11, <1>12
        DEF Config!Continue, Config!Answer, Config!Call

\* The wallets' events.  Those of a page whose storage answers at once find no call that
\* waits for storage only, and nothing that is being read.
LEMMA EventHeard ==
  ASSUME NEW p \in DOMAIN Pages, ~Pages[p].async, HeardInv(p), NEW c \in Pages[p].connectors,
         \/ Config(p)!DisconnectEvent(c)
         \/ \E ch : Config(p)!Change(c, ch) \/ Config(p)!ConnectEvent(c, ch)
  PROVE  HeardInv(p)'
<1>1. /\ DOMAIN on = Pages[p].connectors /\ HeapOK(p) /\ DOMAIN heap = Config(p)!Refs
      /\ CallsOK(p) /\ life \in Nat
  BY DEF HeardInv, HeapOK
<1>2. task' = task /\ Config(p)!loadVars' = Config(p)!loadVars
  BY DEF Config!DisconnectEvent, Config!Change, Config!ConnectEvent
<1>3. CallsOK(p)' /\ \A s \in Pages[p].tasks : task'[s] = task[s]
  BY <1>1, <1>2 DEF CallsOK, CallOK, Calling
<1>4. ASSUME NEW ch, Config(p)!Change(c, ch)
      PROVE  HeardInv(p)'
  <2>1. /\ on' = on /\ Config(p)!U(c) \in Config(p)!Keys(Config(p)!Map)
        /\ Config(p)!Install(heap, Config(p)!MapSet(Config(p)!Map, Config(p)!U(c), ch), current, status)
    BY <1>4 DEF Config!Change
  <2>2. Hung(c)
    BY <1>1, <2>1 DEF HeardInv, Heard, Config!U
  <2>3. /\ DOMAIN on' = Pages[p].connectors /\ Hung(c)'
        /\ \A d \in Pages[p].connectors : Hung(d) => Hung(d)'
    BY <1>1, <2>1, <2>2, Hangs
  <2> QED BY <1>2, <1>3, <2>1, <2>3, AddsHeard
<1>5. ASSUME NEW ch, Config(p)!ConnectEvent(c, ch)
      PROVE  HeardInv(p)'
  <2>1. /\ on' = [on EXCEPT ![c] = @ \cup {"change", "disconnect"}]
        /\ Config(p)!Install(heap, Config(p)!MapSet(Config(p)!Map, Config(p)!U(c), ch),
                             Config(p)!U(c), "connected")
    BY <1>5 DEF Config!ConnectEvent
  <2>2. /\ DOMAIN on' = Pages[p].connectors /\ Hung(c)'
        /\ \A d \in Pages[p].connectors : Hung(d) => Hung(d)'
    BY <1>1, <2>1 DEF Hung
  <2> QED BY <1>2, <1>3, <2>1, <2>2, AddsHeard
<1>6. CASE Config(p)!DisconnectEvent(c)
  <2> DEFINE m == Config(p)!MapDelete(Config(p)!Map, Config(p)!U(c))
             h == [heap EXCEPT ![connections] = m]
  <2>1. /\ hydration # "reading"
        /\ \A t \in Pages[p].tasks : task[t].at # "connect.saving"
    BY <1>6 DEF Config!DisconnectEvent, Config!Quiet, Config!StoragePlaces
  <2>2. /\ DOMAIN on' = Pages[p].connectors
        /\ \A d \in Pages[p].connectors : d # c /\ Hung(d) => Hung(d)'
        /\ life' = life /\ unread' = unread /\ hydration' = hydration
    BY <1>1, <1>2, <1>6 DEF Config!DisconnectEvent, Config!Disconnected, Hung, Config!loadVars
  <2>3. Config(p)!Leave(h, m)
    BY <1>6 DEF Config!DisconnectEvent
  <2>4. DOMAIN h = Config(p)!Refs
    BY <1>1
  <2>5. Config(p)!Keys(m) = Config(p)!Keys(Config(p)!Map) \ {<<c, life>>}
    <3>1. Config(p)!Keys(m) = Config(p)!Keys(Config(p)!Map) \ {Config(p)!U(c)}
      BY MapKeys
    <3> QED BY <3>1 DEF Config!U
  <2> HIDE DEF m, h
  <2>6. /\ HeapOK(p)' /\ disk'.map = Config(p)!Map'
        /\ Config(p)!Keys(Config(p)!Map') = Config(p)!Keys(Config(p)!Map) \ {<<c, life>>}
    BY <1>1, <2>3, <2>4, <2>5, Installs
  <2>7. Heard(p, Config(p)!Map)'
    <3>1. ASSUME NEW u \in Config(p)!Keys(Config(p)!Map')
          PROVE  \E d \in Pages[p].connectors, n \in 0..life' : u = <<d, n>> /\ (n = life' => Hung(d)')
      <4>1. u \in Config(p)!Keys(Config(p)!Map) /\ u # <<c, life>>
        BY <2>6, <3>1
      <4>2. PICK d \in Pages[p].connectors, n \in 0..life : u = <<d, n>> /\ (n = life => Hung(d))
        BY <4>1 DEF HeardInv, Heard
      <4> QED BY <2>2, <4>1, <4>2
    <3> QED BY <3>1 DEF Heard, Config!Keys, Config!Map
  <2>8. Heard(p, disk.map)'
    BY <2>6, <2>7 DEF Heard, Config!Keys, Config!Map
  <2>9. Heard(p, unread.map)' /\ \A u \in Config(p)!Keys(unread.map) : u[2] # life
    <3>1. ASSUME NEW u \in Config(p)!Keys(unread.map)
          PROVE  \E d \in Pages[p].connectors, n \in 0..life' : u = <<d, n>> /\ (n = life' => Hung(d)')
      <4>1. PICK d \in Pages[p].connectors, n \in 0..life : u = <<d, n>>
        BY <3>1 DEF HeardInv, Heard
      <4>2. n # life
        BY <2>1, <3>1, <4>1 DEF HeardInv
      <4> QED BY <2>2, <4>1, <4>2
    <3> QED BY <2>1, <2>2, <3>1 DEF HeardInv, Heard, Config!Keys
  <2>10. \A t \in Pages[p].tasks : task'[t].at # "connect.saving"
    BY <1>3, <2>1
  <2> QED BY <1>1, <1>3, <2>2, <2>6, <2>7, <2>8, <2>9, <2>10 DEF HeardInv, Config!Keys
<1> QED BY <1>4, <1>5, <1>6

\* The application's own choice of a chain.
LEMMA SwitchHeard ==
  ASSUME NEW p \in DOMAIN Pages, HeardInv(p), NEW target, NEW ch, Config(p)!SwitchChain(target, ch)
  PROVE  HeardInv(p)'
<1>1. /\ task' = task /\ Config(p)!loadVars' = Config(p)!loadVars /\ on' = on
      /\ Config(p)!Keep(current, status, ch)
  BY DEF Config!SwitchChain
<1>2. CallsOK(p)'
  BY <1>1 DEF HeardInv, CallsOK, CallOK, Calling
<1> QED BY <1>1, <1>2, StaysHeard

\* Storage is read, before or after the page is there.
LEMMA ReadHeard ==
  ASSUME NEW p \in DOMAIN Pages, HeardInv(p), Config(p)!Hydrate \/ Config(p)!Render
  PROVE  HeardInv(p)'
<1>1. /\ life' = life /\ unread' = Config(p)!EmptyDisk /\ task' = task /\ on' = on
      /\ disk' = disk \/ Config(p)!Persist
  BY DEF Config!Hydrate, Config!Render
<1>2. HeapOK(p) /\ DOMAIN heap = Config(p)!Refs /\ CallsOK(p) /\ DOMAIN on = Pages[p].connectors
  BY DEF HeardInv, HeapOK
<1>3. PICK m \in {unread.map, Config(p)!EmptyMap} : \E cur, st, ch :
        Config(p)!Replace(heap, m, cur, st, ch)
  BY DEF Config!Hydrate, Config!Render
<1>4. HeapOK(p)' /\ Config(p)!Map' = m
  BY <1>2, <1>3, Installs
<1>5. disk'.map = disk.map \/ disk'.map = Config(p)!Map'
  BY <1>1 DEF Config!Persist, Config!Partial, Config!Map
<1>6. \A u \in Config(p)!Keys(Config(p)!Map') : u \in Config(p)!Keys(unread.map)
  BY <1>4, MapKeys
<1>7. CallsOK(p)' /\ DOMAIN on' = Pages[p].connectors
      /\ \A c \in Pages[p].connectors : Hung(c) => Hung(c)'
  BY <1>1, <1>2 DEF CallsOK, CallOK, Calling, Hung
<1> QED BY <1>1, <1>4, <1>5, <1>6, <1>7, HeardKept

\* The page mounts.
LEMMA MountHeard ==
  ASSUME NEW p \in DOMAIN Pages, HeardInv(p),
         \/ Config(p)!MountSsr
         \/ \E t \in Pages[p].tasks : Config(p)!MountClient(t) \/ Config(p)!MountResume(t)
  PROVE  HeardInv(p)'
<1>1. HeapOK(p) /\ DOMAIN heap = Config(p)!Refs /\ CallsOK(p) /\ DOMAIN on = Pages[p].connectors
  BY DEF HeardInv, HeapOK
<1>2. CASE Config(p)!MountSsr
  <2>1. /\ life' = life /\ unread' = disk /\ hydration' = "reading" /\ task' = task /\ on' = on
        /\ Config(p)!storeVars' = Config(p)!storeVars
    BY <1>2 DEF Config!MountSsr
  <2>2. /\ HeapOK(p)' /\ CallsOK(p)' /\ DOMAIN on' = Pages[p].connectors /\ disk' = disk
        /\ Config(p)!Map' = Config(p)!Map
        /\ \A c \in Pages[p].connectors : Hung(c) => Hung(c)'
    BY <1>1, <2>1 DEF HeapOK, CallsOK, CallOK, Calling, Hung, Config!storeVars, Config!Map
  <2> QED BY <2>1, <2>2, HeardKept
<1>3. ASSUME NEW t \in Pages[p].tasks, Config(p)!Mounting(t),
             life' = life, unread' = unread, hydration' = hydration, on' = on
      PROVE  HeardInv(p)'
  <2> DEFINE Mounted ==
        /\ HeapOK(p)' /\ CallsOK(p)'
        /\ disk'.map = disk.map \/ disk'.map = Config(p)!Map'
        /\ \A s \in Pages[p].tasks : task'[s].at \in Ending => task'[s] = task[s]
        /\ \A u \in Config(p)!Keys(Config(p)!Map') : u \in Config(p)!Keys(Config(p)!Map)
  <2>1. Mounted
    <3>1. ASSUME Config(p)!BeginReconnect(t, Pages[p].connectors)
          PROVE  Mounted
      <4>1. Moved(p, t) /\ task'[t].at = "reconnect.reading"
        BY <1>1, <3>1, CallMoves
      <4>2. \E cur, st : Config(p)!Keep(cur, st, chainId)
        BY <3>1 DEF Config!BeginReconnect
      <4>3. CallsOK(p)' /\ \A s \in Pages[p].tasks : task'[s].at \in Ending => task'[s] = task[s]
        BY <4>1 DEF Moved, Ending
      <4>4. HeapOK(p)' /\ Config(p)!Map' = Config(p)!Map /\ disk'.map = Config(p)!Map
        BY <1>1, <4>2, Installs
      <4> QED BY <4>3, <4>4
    <3>2. ASSUME Config(p)!storeVars' = Config(p)!storeVars, task' = task
          PROVE  Mounted
      BY <1>1, <3>2 DEF Config!storeVars, HeapOK, CallsOK, CallOK, Calling, Config!Map
    <3>3. ASSUME Config(p)!Install(heap, Config(p)!EmptyMap, current, status), task' = task
          PROVE  Mounted
      <4>1. HeapOK(p)' /\ Config(p)!Map' = Config(p)!EmptyMap /\ disk'.map = Config(p)!EmptyMap
        BY <1>1, <3>3, Installs
      <4>2. CallsOK(p)'
        BY <1>1, <3>3 DEF CallsOK, CallOK, Calling
      <4> QED BY <3>3, <4>1, <4>2, MapKeys
    <3> QED BY <1>3, <3>1, <3>2, <3>3 DEF Config!Mounting
  <2>2. DOMAIN on' = Pages[p].connectors /\ \A c \in Pages[p].connectors : Hung(c) => Hung(c)'
    BY <1>1, <1>3, Hangs
  <2> QED BY <1>3, <2>1, <2>2, HeardKept
<1> QED BY <1>2, <1>3 DEF Config!MountClient, Config!MountResume

\* The page is loaded again, and all that is left is of an earlier one.
LEMMA ReloadHeard ==
  ASSUME NEW p \in DOMAIN Pages, HeardInv(p), Config(p)!Reload
  PROVE  HeardInv(p)'
<1>1. /\ life' = life + 1 /\ life \in Nat /\ connections' = 0
      /\ heap' = [r \in Config(p)!Refs |-> Config(p)!EmptyMap]
      /\ on' = [c \in Pages[p].connectors |-> {"connect"}]
      /\ task' = [t \in Pages[p].tasks |-> Config(p)!Idle]
      /\ disk' = Config(p)!EmptyDisk /\ (unread' = Config(p)!EmptyDisk \/ unread' = disk)
  BY DEF Config!Reload, HeardInv
<1>2. Config(p)!Keys(Config(p)!EmptyMap) = {} /\ Config(p)!EmptyDisk.map = Config(p)!EmptyMap
  BY MapKeys DEF Config!EmptyDisk, Config!Partial
<1>3. 0 \in Config(p)!Refs
  BY SomeRefs, PagesAssumption
<1>4. HeapOK(p)' /\ Config(p)!Map' = Config(p)!EmptyMap
  BY <1>1, <1>3 DEF HeapOK, Config!Map
<1>5. CallsOK(p)' /\ \A t \in Pages[p].tasks : task'[t].at = "idle"
  BY <1>1, IdleHere DEF CallsOK, CallOK, Calling
<1>6. Heard(p, Config(p)!Map)' /\ Heard(p, disk.map)'
  BY <1>1, <1>2, <1>4 DEF Heard, Config!Keys, Config!Map
<1>7. ASSUME NEW u \in Config(p)!Keys(unread'.map)
      PROVE  \E c \in Pages[p].connectors, n \in 0..life' : u = <<c, n>> /\ n # life'
  <2>1. u \in Config(p)!Keys(disk.map)
    BY <1>1, <1>2, <1>7
  <2>2. PICK c \in Pages[p].connectors, n \in 0..life : u = <<c, n>>
    BY <2>1 DEF HeardInv, Heard
  <2> QED BY <1>1, <2>2
<1>8. Heard(p, unread.map)' /\ \A u \in Config(p)!Keys(unread'.map) : u[2] # life'
  BY <1>7 DEF Heard, Config!Keys
<1> QED BY <1>1, <1>4, <1>5, <1>6, <1>8 DEF HeardInv, Config!Keys

\* The first page: what an earlier visit left is of page 0.
LEMMA HeardInit ==
  ASSUME NEW p \in DOMAIN Pages, Config(p)!Init
  PROVE  HeardInv(p)
<1>1. /\ life = 1 /\ connections = 0
      /\ heap = [r \in Config(p)!Refs |-> Config(p)!EmptyMap]
      /\ on = [c \in Pages[p].connectors |-> {"connect"}]
      /\ task = [t \in Pages[p].tasks |-> Config(p)!Idle]
      /\ disk = Config(p)!EmptyDisk
      /\ unread = Config(p)!EmptyDisk \/ unread \in Config(p)!FirstDisks
  BY DEF Config!Init
<1>2. Config(p)!Keys(Config(p)!EmptyMap) = {} /\ Config(p)!EmptyDisk.map = Config(p)!EmptyMap
  BY MapKeys DEF Config!EmptyDisk, Config!Partial
<1>3. 0 \in Config(p)!Refs
  BY SomeRefs, PagesAssumption
<1>4. HeapOK(p) /\ Config(p)!Map = Config(p)!EmptyMap
  BY <1>1, <1>3 DEF HeapOK, Config!Map
<1>5. CallsOK(p) /\ \A t \in Pages[p].tasks : task[t].at = "idle"
  BY <1>1, IdleHere DEF CallsOK
<1>6. Heard(p, Config(p)!Map) /\ Heard(p, disk.map)
  BY <1>1, <1>2, <1>4 DEF Heard
<1>7. \A u \in Config(p)!Keys(unread.map) : \E c \in Pages[p].connectors : u = <<c, 0>>
  <2>1. ASSUME NEW ch, unread = Config(p)!Partial(Config(p)!EmptyMap, ch, None)
        PROVE  Config(p)!Keys(unread.map) = {}
    BY <1>2, <2>1 DEF Config!Partial
  <2>2. ASSUME NEW q \in Pages[p].connectors \X Pages[p].chains,
               unread = Config(p)!OneConnection(<<q[1], 0>>, q[2])
        PROVE  Config(p)!Keys(unread.map) = {<<q[1], 0>>} /\ q[1] \in Pages[p].connectors
    <3>1. unread.map = Config(p)!MapSet(Config(p)!EmptyMap, <<q[1], 0>>, q[2])
      BY <2>2 DEF Config!OneConnection, Config!Partial
    <3> QED BY <1>2, <3>1, MapKeys
  <2> QED BY <1>1, <1>2, <2>1, <2>2 DEF Config!FirstDisks
<1>8. Heard(p, unread.map) /\ \A u \in Config(p)!Keys(unread.map) : u[2] # life
  BY <1>1, <1>7 DEF Heard
<1> QED BY <1>1, <1>4, <1>5, <1>6, <1>8 DEF HeardInv

\* Whatever the page does, if nothing but an event disconnects.
LEMMA HearingKept ==
  ASSUME NEW p \in DOMAIN Pages, ~Pages[p].async, "disconnect" \notin Pages[p].calls,
         HeardInv(p), Config(p)!Next
  PROVE  HeardInv(p)'
<1>1. ASSUME NEW t \in Pages[p].tasks,
             Config(p)!Continue(t) \/ Config(p)!Answer(t) \/ Config(p)!Call(t)
      PROVE  HeardInv(p)'
  BY <1>1, CallsHeard
<1>2. ASSUME Config(p)!SwitchChains
      PROVE  HeardInv(p)'
  BY <1>2, SwitchHeard DEF Config!SwitchChains
<1>3. ASSUME Config(p)!Event
      PROVE  HeardInv(p)'
  BY <1>3, EventHeard DEF Config!Event
<1>4. ASSUME Config(p)!Page
      PROVE  HeardInv(p)'
  BY <1>4, ReadHeard, MountHeard DEF Config!Page
<1> QED BY <1>1, <1>2, <1>3, <1>4, ReadHeard, ReloadHeard DEF Config!Next

-----------------------------------------------------------------------------
\* The two invariants, of whichever page it is.
FollowsInv ==
  \A p \in DOMAIN Pages : page = p =>
     /\ p \in Prompt /\ "disconnect" \notin Pages[p].calls => HeardInv(p)
     /\ "switchChainOf" \notin Pages[p].calls => ChainInv(p)

\* Every connection of a page is heard, and the chain is that of the current one: for any
\* set-up of the Config, whichever calls are in flight and however often it is loaded.
THEOREM ConnectionsAreFollowed == PagesSpec => []FollowsConnections
<1>1. PageInit \/ WalletsInit \/ WatchesInit => FollowsInv
  <2>1. ASSUME NEW p \in DOMAIN Pages, PageInit, page = p
        PROVE  HeardInv(p) /\ ChainInv(p)
    <3>1. Config(p)!Init
      BY <2>1 DEF PageInit, Config!EffectInit
    <3> QED BY <3>1, HeardInit, ChainInit
  <2> QED BY <2>1, PagesAssumption DEF PageInit, WalletsInit, WatchesInit, FollowsInv
<1>2. FollowsInv /\ [PagesNext]_allVars => FollowsInv'
  <2> SUFFICES ASSUME FollowsInv, [PagesNext]_allVars
               PROVE  FollowsInv'
    OBVIOUS
  <2>1. ASSUME NEW p \in DOMAIN Pages, PageStep(p)
        PROVE  FollowsInv'
    <3>1. page = p /\ page' = p /\ Config(p)!Next
      BY <2>1 DEF PageStep, Config!EffectNext
    <3>2. p \in Prompt /\ "disconnect" \notin Pages[p].calls => HeardInv(p)'
      BY <3>1, HearingKept DEF FollowsInv, Prompt
    <3>3. "switchChainOf" \notin Pages[p].calls => ChainInv(p)'
      BY <3>1, ChainKept DEF FollowsInv
    <3> QED BY <3>1, <3>2, <3>3 DEF FollowsInv, Prompt
  <2>2. ASSUME (\E o \in DOMAIN Offers : WalletsStep(o)) \/ WatchesStep
        PROVE  FollowsInv'
    <3>1. page' = page /\ page \notin DOMAIN Pages
      BY <2>2, PagesAssumption DEF WalletsStep, WatchesStep
    <3> QED BY <3>1 DEF FollowsInv
  <2>3. ASSUME UNCHANGED allVars
        PROVE  FollowsInv'
    <3>1. /\ UNCHANGED <<life, chainId, connections, current, heap, on, task, disk, unread, hydration>>
          /\ page' = page
      BY <2>3 DEF allVars, vars, configVars
    <3> QED BY <3>1 DEF FollowsInv, Prompt, HeardInv, ChainInv, StoreFollows, DiskFollows, HeapOK,
                        CallsOK, CallOK,
                        Calling, Heard, Hung, ChainIs, Config!Map, Config!Keys, Config!Selected
  <2> QED BY <2>1, <2>2, <2>3 DEF PagesNext
<1>3. FollowsInv => FollowsConnections
  <2> SUFFICES ASSUME FollowsInv, NEW p \in DOMAIN Pages, page = p
               PROVE  /\ p \in Prompt /\ "disconnect" \notin Pages[p].calls
                           => Config(p)!ConnectionsAreHeard
                      /\ "switchChainOf" \notin Pages[p].calls => Config(p)!ChainFollowsConnection
    BY DEF FollowsConnections
  <2>1. HeardInv(p) => Config(p)!ConnectionsAreHeard
    BY DEF HeardInv, Heard, Hung, Config!ConnectionsAreHeard, Config!U
  <2>2. ChainInv(p) => Config(p)!ChainFollowsConnection
    BY DEF ChainInv, StoreFollows, ChainIs, Config!ChainFollowsConnection
  <2> QED BY <2>1, <2>2 DEF FollowsInv
<1> QED BY <1>1, <1>2, <1>3, PTL DEF PagesSpec

-----------------------------------------------------------------------------
(***************************************************************************)
(* The chain survives the next page load.                                  *)
(***************************************************************************)

\* Until it has mounted a page makes no call; it has mounted once storage was read.
PhaseInv(p) ==
  /\ mounted \in {"no", "rendered", "waiting", "yes"}
  /\ mounted # "yes" => ~isReconnecting /\ \A t \in Pages[p].tasks : task[t].at = "idle"
  /\ mounted = "yes" => hydration = "done"
  /\ mounted = "waiting" => hydration \in {"reading", "done"}
  /\ mounted = "rendered" => hydration = "idle" /\ Pages[p].ssr
  /\ mounted = "no" => IF Pages[p].ssr THEN hydration = "idle" ELSE hydration \in {"reading", "done"}

\* The pages whose chain is claimed to survive.
Lasting(p) ==
  /\ ~Pages[p].async /\ ~Pages[p].early /\ "switchChainOf" \notin Pages[p].calls
  /\ Pages[p].ssr => Pages[p].cookie /\ "events" \notin Pages[p].calls

\* Until it has mounted, the chain that was seen is where it will be read; from then on
\* what is stored is the chain of the store.
LastingInv(p) ==
  /\ PhaseInv(p)
  /\ chainId \in Pages[p].configured /\ seen \in Pages[p].configured \cup {None}
  /\ mounted = "yes" => disk.chainId = chainId
  /\ mounted = "rendered" => seen \in {None, disk.chainId}
  /\ mounted = "no" /\ hydration = "idle" => seen \in {None, unread.chainId}
  /\ hydration = "reading" => seen \in {None, unread.chainId}

\* The chain of the store is one of the Config's, and storage has it.
LEMMA StoredChain ==
  ASSUME NEW p \in DOMAIN Pages, chainId \in Pages[p].configured
  PROVE  /\ \A h, m, cur, st : \A ch \in Pages[p].configured :
              Config(p)!Replace(h, m, cur, st, ch) => chainId' \in Pages[p].configured
         /\ Config(p)!Persist => disk'.chainId = chainId'
         /\ \A h, m, cur, st : Config(p)!Install(h, m, cur, st)
              => chainId' \in Pages[p].configured /\ disk'.chainId = chainId'
         /\ \A cur, st : \A ch \in Pages[p].configured : Config(p)!Keep(cur, st, ch)
              => chainId' \in Pages[p].configured /\ disk'.chainId = chainId'
         /\ \A h, m : Config(p)!Leave(h, m)
              => chainId' \in Pages[p].configured /\ disk'.chainId = chainId'
<1>1. ASSUME NEW h, NEW ref, NEW cur, NEW st, NEW ch \in Pages[p].configured,
             Config(p)!SetState(h, ref, cur, st, ch)
      PROVE  chainId' \in Pages[p].configured
  BY <1>1 DEF Config!SetState, Config!Synced
<1>2. ASSUME NEW h, NEW m, NEW cur, NEW st, NEW ch \in Pages[p].configured,
             Config(p)!Replace(h, m, cur, st, ch)
      PROVE  chainId' \in Pages[p].configured
  BY <1>1, <1>2 DEF Config!Replace
<1>3. ASSUME Config(p)!Persist
      PROVE  disk'.chainId = chainId'
  BY <1>3 DEF Config!Persist, Config!Partial
<1>4. ASSUME NEW h, NEW m, NEW cur, NEW st, Config(p)!Install(h, m, cur, st)
      PROVE  chainId' \in Pages[p].configured /\ disk'.chainId = chainId'
  BY <1>2, <1>3, <1>4 DEF Config!Install
<1>5. ASSUME NEW cur, NEW st, NEW ch \in Pages[p].configured, Config(p)!Keep(cur, st, ch)
      PROVE  chainId' \in Pages[p].configured /\ disk'.chainId = chainId'
  BY <1>1, <1>3, <1>5 DEF Config!Keep
<1>6. ASSUME NEW h, NEW m, Config(p)!Leave(h, m)
      PROVE  chainId' \in Pages[p].configured /\ disk'.chainId = chainId'
  BY <1>4, <1>6 DEF Config!Leave
<1> QED BY <1>2, <1>3, <1>4, <1>5, <1>6

\* What a call or an event leaves in the store, storage has.
StillStored(p) ==
  /\ Config(p)!loadVars' = Config(p)!loadVars
  /\ chainId' \in Pages[p].configured
  /\ disk'.chainId = chainId' \/ (disk' = disk /\ chainId' = chainId)

\* A call goes on, is answered or begins.
LEMMA CallsStore ==
  ASSUME NEW p \in DOMAIN Pages, chainId \in Pages[p].configured, NEW t,
         Config(p)!Continue(t) \/ Config(p)!Answer(t) \/ Config(p)!Call(t)
  PROVE  StillStored(p)
<1>1. Config(p)!storeVars' = Config(p)!storeVars => disk' = disk /\ chainId' = chainId
  BY DEF Config!storeVars
<1>2. CASE Config(p)!Continue(t)
  BY <1>1, <1>2, StoredChain
  DEF Config!Continue, Config!ConnectDone, Config!ReconnectRead, Config!SwitchDone, StillStored
<1>3. CASE Config(p)!ConnectFail(t) \/ \E ch : Config(p)!ConnectAnswer(t, ch)
  BY <1>1, <1>3, StoredChain DEF Config!ConnectAnswer, Config!ConnectFail, StillStored
<1>4. ASSUME NEW c, Config(p)!ReconnectSkip(t, c) \/ \E ch : Config(p)!ReconnectRestore(t, c, ch)
      PROVE  StillStored(p)
  BY <1>1, <1>4, StoredChain DEF Config!ReconnectSkip, Config!ReconnectRestore, StillStored
<1>5. CASE Config(p)!DisconnectDone(t) \/ Config(p)!DisconnectFail(t)
  <2>1. /\ Config(p)!loadVars' = Config(p)!loadVars
        /\ (disk' = disk /\ chainId' = chainId) \/ \E h, m : Config(p)!Leave(h, m)
    BY <1>5 DEF Config!DisconnectDone, Config!DisconnectFail
  <2> QED BY <2>1, StoredChain DEF StillStored
<1>6. ASSUME NEW c, \/ Config(p)!Connect(t, c) \/ Config(p)!DisconnectConnector(t, c)
                    \/ Config(p)!SwitchConnection(t, c)
      PROVE  StillStored(p)
  BY <1>1, <1>6, StoredChain
  DEF Config!Connect, Config!DisconnectConnector, Config!AskWallet, Config!SwitchConnection, StillStored
<1>7. ASSUME NEW cs, Config(p)!Reconnect(t, cs)
      PROVE  StillStored(p)
  BY <1>7, StoredChain DEF Config!Reconnect, Config!BeginReconnect, StillStored
<1>8. CASE Config(p)!DisconnectCurrent(t)
  BY <1>1, <1>8, StoredChain
  DEF Config!DisconnectCurrent, Config!AskWallet, Config!NothingToAsk, StillStored
<1> QED BY <1>2, <1>3, <1>4, <1>5, <1>6, <1>7, <1>8 DEF Config!Answer, Config!Call

\* The application's own choice of a chain, and the wallets' events.
LEMMA EventsStore ==
  ASSUME NEW p \in DOMAIN Pages, chainId \in Pages[p].configured,
         Config(p)!SwitchChains \/ Config(p)!Event
  PROVE  StillStored(p) /\ task' = task /\ isReconnecting' = isReconnecting
<1>1. ASSUME NEW target, NEW ch, Config(p)!SwitchChain(target, ch)
      PROVE  StillStored(p) /\ task' = task /\ isReconnecting' = isReconnecting
  BY <1>1, StoredChain DEF Config!SwitchChain, StillStored
<1>2. ASSUME NEW c, \/ Config(p)!DisconnectEvent(c)
                    \/ \E ch : Config(p)!Change(c, ch) \/ Config(p)!ConnectEvent(c, ch)
      PROVE  StillStored(p) /\ task' = task /\ isReconnecting' = isReconnecting
  <2>1. /\ Config(p)!loadVars' = Config(p)!loadVars /\ task' = task /\ isReconnecting' = isReconnecting
        /\ \/ \E h, m : Config(p)!Leave(h, m)
           \/ \E h, m, cur, st : Config(p)!Install(h, m, cur, st)
    BY <1>2 DEF Config!DisconnectEvent, Config!Change, Config!ConnectEvent
  <2> QED BY <2>1, StoredChain DEF StillStored
<1> QED BY <1>1, <1>2 DEF Config!SwitchChains, Config!Event

\* A call is only made, goes on or is answered once the page has mounted.
LEMMA CallsAreLate ==
  ASSUME NEW p \in DOMAIN Pages, ~Pages[p].async, PhaseInv(p)
  PROVE  /\ Config(p)!Interactive => mounted = "yes"
         /\ \A t \in Pages[p].tasks :
              Config(p)!Continue(t) \/ Config(p)!Answer(t) \/ Config(p)!Call(t) => mounted = "yes"
<1>1. Config(p)!Interactive => mounted = "yes"
  BY DEF Config!Interactive, Config!Quiet, PhaseInv
<1>2. ASSUME NEW t \in Pages[p].tasks, Config(p)!Call(t)
      PROVE  Config(p)!Interactive
  BY <1>2, SMTT(30) DEF Config!Call, Config!Connect, Config!Reconnect, Config!DisconnectCurrent,
              Config!DisconnectConnector, Config!SwitchConnection
<1>3. ASSUME NEW t \in Pages[p].tasks, Config(p)!Continue(t) \/ Config(p)!Answer(t)
      PROVE  task[t].at # "idle"
  BY <1>3, ZenonT(60)
  DEF Config!Continue, Config!Answer, Config!ConnectDone, Config!ReconnectRead, Config!SwitchDone,
      Config!ConnectAnswer, Config!ConnectFail, Config!ReconnectSkip, Config!ReconnectRestore,
      Config!Trying, Config!DisconnectDone, Config!DisconnectFail
<1> QED BY <1>1, <1>2, <1>3 DEF PhaseInv

\* A call leaves the page as far as it is.
LEMMA CallsLoadNothing ==
  ASSUME NEW p, NEW t, Config(p)!Continue(t) \/ Config(p)!Answer(t) \/ Config(p)!Call(t)
  PROVE  Config(p)!loadVars' = Config(p)!loadVars
  BY DEF Config!Continue, Config!Answer, Config!Call, Config!ConnectDone, Config!ReconnectRead,
         Config!SwitchDone, Config!ConnectAnswer, Config!ConnectFail, Config!ReconnectSkip,
         Config!ReconnectRestore, Config!DisconnectDone, Config!DisconnectFail, Config!Connect,
         Config!Reconnect, Config!DisconnectCurrent, Config!DisconnectConnector,
         Config!SwitchConnection

\* So does the choice of a chain, or an event.
LEMMA EventsLoadNothing ==
  ASSUME NEW p, Config(p)!SwitchChains \/ Config(p)!Event
  PROVE  /\ Config(p)!loadVars' = Config(p)!loadVars /\ task' = task
         /\ isReconnecting' = isReconnecting
  BY DEF Config!SwitchChains, Config!SwitchChain, Config!Event, Config!DisconnectEvent,
         Config!Change, Config!ConnectEvent

\* Every step.
LEMMA PhaseKept ==
  ASSUME NEW p \in DOMAIN Pages, ~Pages[p].async, PhaseInv(p), Config(p)!Next
  PROVE  PhaseInv(p)'
<1>1. ASSUME NEW t \in Pages[p].tasks,
             Config(p)!Continue(t) \/ Config(p)!Answer(t) \/ Config(p)!Call(t)
      PROVE  PhaseInv(p)'
  <2>1. mounted = "yes" /\ Config(p)!loadVars' = Config(p)!loadVars
    BY <1>1, CallsAreLate, CallsLoadNothing
  <2> QED BY <2>1 DEF PhaseInv, Config!loadVars
<1>2. ASSUME Config(p)!SwitchChains \/ Config(p)!Event
      PROVE  PhaseInv(p)'
  <2>1. /\ Config(p)!loadVars' = Config(p)!loadVars /\ task' = task
        /\ isReconnecting' = isReconnecting
    BY <1>2, EventsLoadNothing
  <2> QED BY <2>1 DEF PhaseInv, Config!loadVars
<1>3. ASSUME Config(p)!Hydrate \/ Config(p)!Render \/ Config(p)!MountSsr
      PROVE  PhaseInv(p)'
  BY <1>3 DEF Config!Hydrate, Config!Render, Config!MountSsr, PhaseInv
<1>4. ASSUME NEW t \in Pages[p].tasks, Config(p)!MountClient(t) \/ Config(p)!MountResume(t)
      PROVE  PhaseInv(p)'
  BY <1>4 DEF Config!MountClient, Config!MountResume, Config!Quiet, PhaseInv
<1>5. ASSUME Config(p)!Reload
      PROVE  PhaseInv(p)'
  <2>1. \A t \in Pages[p].tasks : task'[t].at = "idle"
    BY <1>5, IdleHere DEF Config!Reload
  <2> QED BY <1>5, <2>1 DEF Config!Reload, PhaseInv
<1> QED BY <1>1, <1>2, <1>3, <1>4, <1>5 DEF Config!Next, Config!Page

\* The first page.
LEMMA PhaseInit ==
  ASSUME NEW p, Config(p)!Init
  PROVE  PhaseInv(p)
<1>1. \A t \in Pages[p].tasks : task[t].at = "idle"
  BY IdleHere DEF Config!Init
<1> QED BY <1>1 DEF Config!Init, PhaseInv

\* What is read from storage is the chain that was seen.
LEMMA SeenIsRead ==
  ASSUME NEW p \in DOMAIN Pages, LastingInv(p), ChainInv(p), seen # None, seen = unread.chainId,
         Config(p)!Hydrate \/ Config(p)!Render
  PROVE  chainId' = seen
<1>1. None \notin Pages[p].configured /\ seen \in Pages[p].configured
  BY PagesAssumption DEF LastingInv
<1>2. PICK m \in {unread.map, Config(p)!EmptyMap} : \E ch, st :
        /\ Config(p)!Replace(heap, m, unread.current, st, Config(p)!ValidChain(unread.chainId, ch))
  BY DEF Config!Hydrate, Config!Render
<1>3. PICK st : Config(p)!Replace(heap, m, unread.current, st, seen)
  BY <1>1, <1>2 DEF Config!ValidChain
<1>4. PICK r \in Config(p)!FreeRefs :
        Config(p)!SetState([heap EXCEPT ![r] = m], r, unread.current, st, seen)
  BY <1>3 DEF Config!Replace
<1>5. [heap EXCEPT ![r] = m][r] = m
  BY DEF ChainInv, StoreFollows, HeapOK, Config!FreeRefs
<1>6. chainId' = Config(p)!Synced(m, unread.current, seen)
  BY <1>4, <1>5 DEF Config!SetState
<1>7. Config(p)!Selected(m, unread.current) \in Pages[p].configured
        => Config(p)!Selected(m, unread.current) = seen
  <2>1. CASE m = unread.map
    BY <2>1 DEF ChainInv, DiskFollows, ChainIs
  <2>2. CASE m = Config(p)!EmptyMap
    BY <1>1, <2>2, MapKeys DEF Config!Selected
  <2> QED BY <2>1, <2>2
<1> QED BY <1>6, <1>7 DEF Config!Synced

\* The page mounts: what it then holds is stored.
LEMMA MountLasts ==
  ASSUME NEW p \in DOMAIN Pages, Lasting(p), LastingInv(p), PhaseInv(p)', NEW t,
         Config(p)!MountClient(t) \/ Config(p)!MountResume(t)
  PROVE  LastingInv(p)'
<1>1. /\ mounted' = "yes" /\ hydration' = hydration /\ seen' = seen /\ unread' = unread
      /\ hydration = "done" /\ Config(p)!Mounting(t)
  BY DEF Config!MountClient, Config!MountResume, Config!Quiet, Lasting, LastingInv, PhaseInv
<1>2. chainId' \in Pages[p].configured /\ disk'.chainId = chainId'
  <2>1. CASE Config(p)!BeginReconnect(t, Pages[p].connectors)
    BY <2>1, StoredChain DEF Config!BeginReconnect, LastingInv
  <2>2. CASE isReconnecting /\ UNCHANGED <<Config(p)!storeVars, task, isReconnecting>>
    BY <1>1, <2>2 DEF Config!storeVars, LastingInv, PhaseInv
  <2>3. CASE Config(p)!Install(heap, Config(p)!EmptyMap, current, status)
    BY <2>3, StoredChain DEF LastingInv
  <2> QED BY <1>1, <2>1, <2>2, <2>3 DEF Config!Mounting
<1> QED BY <1>1, <1>2 DEF LastingInv, PhaseInv

\* Every step.
LEMMA LastingKept ==
  ASSUME NEW p \in DOMAIN Pages, Lasting(p), LastingInv(p), ChainInv(p), Config(p)!Next
  PROVE  LastingInv(p)'
<1>1. chainId \in Pages[p].configured /\ Pages[p].default \in Pages[p].configured
  BY PagesAssumption DEF LastingInv
<1>2. PhaseInv(p) /\ PhaseInv(p)'
  BY PhaseKept DEF Lasting, LastingInv
<1>3. ASSUME NEW t \in Pages[p].tasks,
             Config(p)!Continue(t) \/ Config(p)!Answer(t) \/ Config(p)!Call(t)
      PROVE  LastingInv(p)'
  <2>1. StillStored(p) /\ mounted = "yes"
    BY <1>1, <1>2, <1>3, CallsStore, CallsAreLate DEF Lasting
  <2> QED BY <1>2, <2>1 DEF StillStored, LastingInv, PhaseInv, Config!loadVars
<1>4. ASSUME Config(p)!SwitchChains
      PROVE  LastingInv(p)'
  <2>1. StillStored(p) /\ mounted = "yes"
    BY <1>1, <1>2, <1>4, EventsStore, CallsAreLate DEF Lasting, Config!SwitchChains, Config!SwitchChain
  <2> QED BY <1>2, <2>1 DEF StillStored, LastingInv, PhaseInv, Config!loadVars
<1>5. ASSUME Config(p)!Event
      PROVE  LastingInv(p)'
  <2>1. StillStored(p) /\ task' = task /\ isReconnecting' = isReconnecting
    BY <1>1, <1>5, EventsStore
  <2>2. ~Pages[p].ssr
    BY <1>5 DEF Config!Event, Lasting
  <2> QED BY <1>2, <2>1, <2>2 DEF StillStored, LastingInv, PhaseInv, Config!loadVars
<1>6. ASSUME Config(p)!Hydrate
      PROVE  LastingInv(p)'
  <2>1. /\ hydration = "reading" /\ hydration' = "done" /\ mounted' = mounted /\ seen' = seen
        /\ task' = task /\ isReconnecting' = isReconnecting
    BY <1>6 DEF Config!Hydrate
  <2>2. chainId' \in Pages[p].configured
    <3>1. Config(p)!ValidChain(unread.chainId, chainId) \in Pages[p].configured
      BY <1>1 DEF Config!ValidChain
    <3> QED BY <1>1, <1>6, <3>1, StoredChain DEF Config!Hydrate
  <2> QED BY <1>2, <2>1, <2>2 DEF LastingInv, PhaseInv
<1>7. ASSUME Config(p)!Render
      PROVE  LastingInv(p)'
  <2>1. /\ Pages[p].ssr /\ mounted = "no" /\ mounted' = "rendered" /\ seen' = seen /\ task' = task
        /\ isReconnecting' = isReconnecting /\ hydration' = hydration /\ Config(p)!Persist
    BY <1>7 DEF Config!Render
  <2>2. chainId' \in Pages[p].configured /\ disk'.chainId = chainId'
    <3>1. Config(p)!ValidChain(unread.chainId, Pages[p].default) \in Pages[p].configured
      BY <1>1 DEF Config!ValidChain
    <3> QED BY <1>1, <1>7, <2>1, <3>1, StoredChain DEF Config!Render
  <2>3. seen # None => chainId' = seen
    BY <1>2, <1>7, <2>1, SeenIsRead DEF LastingInv, PhaseInv
  <2> QED BY <1>2, <2>1, <2>2, <2>3 DEF LastingInv, PhaseInv
<1>8. ASSUME Config(p)!MountSsr
      PROVE  LastingInv(p)'
  <2>1. /\ mounted = "rendered" /\ mounted' = "waiting" /\ hydration' = "reading" /\ unread' = disk
        /\ chainId' = chainId /\ disk' = disk /\ seen' = seen /\ task' = task
        /\ isReconnecting' = isReconnecting
    BY <1>8 DEF Config!MountSsr, Config!storeVars, Lasting
  <2> QED BY <1>2, <2>1 DEF LastingInv, PhaseInv
<1>9. ASSUME Config(p)!Reload
      PROVE  LastingInv(p)'
  <2>1. /\ mounted = "yes" /\ hydration = "done" /\ disk.chainId = chainId
    BY <1>9 DEF Config!Reload, Lasting, LastingInv, PhaseInv
  <2>2. /\ chainId' = Pages[p].default /\ ~isReconnecting' /\ mounted' = "no" /\ seen' = chainId
        /\ task' = [t \in Pages[p].tasks |-> Config(p)!Idle] /\ unread' = disk
        /\ hydration' = IF Pages[p].ssr THEN "idle" ELSE "reading"
    BY <1>9, <2>1 DEF Config!Reload, Lasting
  <2>3. \A t \in Pages[p].tasks : task'[t].at = "idle"
    BY <2>2, IdleHere
  <2> QED BY <1>2, <1>1, <2>1, <2>2, <2>3 DEF LastingInv, PhaseInv
<1> QED BY <1>3, <1>4, <1>5, <1>6, <1>7, <1>8, <1>9, MountLasts, <1>2 DEF Config!Next, Config!Page

\* The first page: nothing was seen yet.
LEMMA LastingInit ==
  ASSUME NEW p \in DOMAIN Pages, Config(p)!Init
  PROVE  LastingInv(p)
<1>1. PhaseInv(p) /\ Pages[p].default \in Pages[p].configured
  BY PhaseInit, PagesAssumption
<1> QED BY <1>1 DEF Config!Init, LastingInv, PhaseInv

\* The invariants, of whichever page it is.
SurvivesInv == \A p \in DOMAIN Pages : page = p /\ Lasting(p) => LastingInv(p) /\ ChainInv(p)

\* The chain the user last saw comes back with the next page load, of whichever page.
THEOREM ChainsSurvive == PagesSpec => ChainSurvivesReload
<1>1. PageInit \/ WalletsInit \/ WatchesInit => SurvivesInv
  <2>1. ASSUME NEW p \in DOMAIN Pages, PageInit, page = p
        PROVE  LastingInv(p) /\ ChainInv(p)
    <3>1. Config(p)!Init
      BY <2>1 DEF PageInit, Config!EffectInit
    <3> QED BY <3>1, LastingInit, ChainInit
  <2> QED BY <2>1, PagesAssumption DEF PageInit, WalletsInit, WatchesInit, SurvivesInv
<1>2. SurvivesInv /\ [PagesNext]_allVars => SurvivesInv'
  <2> SUFFICES ASSUME SurvivesInv, [PagesNext]_allVars
               PROVE  SurvivesInv'
    OBVIOUS
  <2>1. ASSUME NEW p \in DOMAIN Pages, PageStep(p)
        PROVE  SurvivesInv'
    <3>1. page = p /\ page' = p /\ Config(p)!Next
      BY <2>1 DEF PageStep, Config!EffectNext
    <3>2. Lasting(p) => LastingInv(p)' /\ ChainInv(p)'
      BY <3>1, LastingKept, ChainKept DEF SurvivesInv, Lasting
    <3> QED BY <3>1, <3>2 DEF SurvivesInv, Lasting
  <2>2. ASSUME (\E o \in DOMAIN Offers : WalletsStep(o)) \/ WatchesStep
        PROVE  SurvivesInv'
    <3>1. page' = page /\ page \notin DOMAIN Pages
      BY <2>2, PagesAssumption DEF WalletsStep, WatchesStep
    <3> QED BY <3>1 DEF SurvivesInv
  <2>3. ASSUME UNCHANGED allVars
        PROVE  SurvivesInv'
    <3>1. /\ UNCHANGED <<chainId, connections, current, heap, isReconnecting, task, disk, unread,
                         hydration, mounted, seen>>
          /\ page' = page
      BY <2>3 DEF allVars, vars, configVars
    <3> QED BY <3>1 DEF SurvivesInv, Lasting, LastingInv, PhaseInv, ChainInv, StoreFollows, DiskFollows, HeapOK,
                        ChainIs, Config!Map, Config!Keys, Config!Selected
  <2> QED BY <2>1, <2>2, <2>3 DEF PagesNext
<1>3. SurvivesInv => \A p \in Prompt :
        page = p /\ Lasting(p) => Config(p)!ChainSurvives
  <2> SUFFICES ASSUME SurvivesInv, NEW p \in Prompt, page = p, Lasting(p), Config(p)!Hydrate, seen # None
               PROVE  chainId' = seen
    BY DEF Config!ChainSurvives
  <2>1. p \in DOMAIN Pages
    BY DEF Prompt
  <2>2. LastingInv(p) /\ ChainInv(p)
    BY <2>1 DEF SurvivesInv
  <2>3. seen = unread.chainId
    BY <2>2 DEF LastingInv, Config!Hydrate
  <2> QED BY <2>1, <2>2, <2>3, SeenIsRead
<1>4. SurvivesInv => [\A p \in Prompt :
        /\ page = p /\ ~Pages[p].early /\ "switchChainOf" \notin Pages[p].calls
        /\ Pages[p].ssr => Pages[p].cookie /\ "events" \notin Pages[p].calls
        => Config(p)!ChainSurvives]_allVars
  BY <1>3 DEF Lasting, Prompt
<1> QED BY <1>1, <1>2, <1>4, PTL DEF PagesSpec, ChainSurvivesReload

-----------------------------------------------------------------------------
(***************************************************************************)
(* Nothing is left of an earlier page.                                     *)
(***************************************************************************)

\* What a step leaves in the store; no Map got other connections than its own.
Stores(p, m, cur, st) ==
  /\ HeapOK(p)' /\ Config(p)!Map' = m /\ current' = cur /\ status' = st
  /\ \A r \in Config(p)!Refs :
       Config(p)!Keys(heap'[r]) \subseteq Config(p)!Keys(m) \cup Config(p)!Keys(heap[r])

\* The heap, with connections taken away.
Thin(p, h) ==
  /\ DOMAIN h = Config(p)!Refs
  /\ \A r \in Config(p)!Refs : Config(p)!Keys(h[r]) \subseteq Config(p)!Keys(heap[r])

\* Every way to change the store.
LEMMA ItStores ==
  ASSUME NEW p, HeapOK(p)
  PROVE  /\ Config(p)!storeVars' = Config(p)!storeVars => Stores(p, Config(p)!Map, current, status)
         /\ \A h, m, cur, st : Thin(p, h) /\ Config(p)!Install(h, m, cur, st) => Stores(p, m, cur, st)
         /\ \A cur, st, ch : Config(p)!Keep(cur, st, ch) => Stores(p, Config(p)!Map, cur, st)
         /\ \A h, m : Thin(p, h) /\ Config(p)!Leave(h, m)
              => \/ Stores(p, Config(p)!EmptyMap, None, "disconnected")
                 \/ \E cur \in Config(p)!Keys(m) : Stores(p, m, cur, status)
<1>1. ASSUME NEW h, NEW ref \in Config(p)!Refs, NEW cur, NEW st, NEW ch,
             DOMAIN h = Config(p)!Refs, Config(p)!SetState(h, ref, cur, st, ch),
             \A r \in Config(p)!Refs :
               Config(p)!Keys(h[r]) \subseteq Config(p)!Keys(h[ref]) \cup Config(p)!Keys(heap[r])
      PROVE  Stores(p, h[ref], cur, st)
  <2>1. /\ connections' = ref /\ current' = cur /\ status' = st
        /\ heap' = [r \in Config(p)!Refs |->
                      IF r = ref \/ \E t \in Pages[p].tasks : task'[t].ref = r
                      THEN h[r] ELSE Config(p)!EmptyMap]
    BY <1>1 DEF Config!SetState
  <2>2. HeapOK(p)' /\ Config(p)!Map' = h[ref]
    BY <2>1 DEF HeapOK, Config!Map
  <2>3. ASSUME NEW r \in Config(p)!Refs
        PROVE  Config(p)!Keys(heap'[r]) \subseteq Config(p)!Keys(h[ref]) \cup Config(p)!Keys(heap[r])
    <3>1. heap'[r] = h[r] \/ heap'[r] = Config(p)!EmptyMap
      BY <2>1
    <3> QED BY <1>1, <3>1, MapKeys
  <2> QED BY <2>1, <2>2, <2>3 DEF Stores
<1>2. ASSUME NEW h, NEW m, NEW cur, NEW st, Thin(p, h), Config(p)!Install(h, m, cur, st)
      PROVE  Stores(p, m, cur, st)
  <2>1. PICK ref \in Config(p)!FreeRefs :
          Config(p)!SetState([h EXCEPT ![ref] = m], ref, cur, st, chainId)
    BY <1>2 DEF Config!Install, Config!Replace
  <2> DEFINE g == [h EXCEPT ![ref] = m]
  <2>2. /\ ref \in Config(p)!Refs /\ DOMAIN g = Config(p)!Refs /\ g[ref] = m
        /\ \A r \in Config(p)!Refs : r # ref => g[r] = h[r]
    BY <1>2 DEF Config!FreeRefs, Thin
  <2>3. Config(p)!SetState(g, ref, cur, st, chainId)
    BY <2>1
  <2> HIDE DEF g
  <2>4. ASSUME NEW r \in Config(p)!Refs
        PROVE  Config(p)!Keys(g[r]) \subseteq Config(p)!Keys(g[ref]) \cup Config(p)!Keys(heap[r])
    <3>1. CASE r = ref
      BY <3>1
    <3>2. CASE r # ref
      BY <1>2, <2>2, <3>2 DEF Thin
    <3> QED BY <3>1, <3>2
  <2>5. Stores(p, g[ref], cur, st)
    BY <1>1, <2>2, <2>3, <2>4
  <2> QED BY <2>2, <2>5
<1>3. ASSUME NEW cur, NEW st, NEW ch, Config(p)!Keep(cur, st, ch)
      PROVE  Stores(p, Config(p)!Map, cur, st)
  <2>1. Config(p)!SetState(heap, connections, cur, st, ch)
        /\ connections \in Config(p)!Refs /\ DOMAIN heap = Config(p)!Refs
    BY <1>3 DEF Config!Keep, HeapOK
  <2>2. Stores(p, heap[connections], cur, st)
    BY <1>1, <2>1
  <2> QED BY <2>2 DEF Config!Map
<1>4. ASSUME NEW h, NEW m, Thin(p, h), Config(p)!Leave(h, m)
      PROVE  \/ Stores(p, Config(p)!EmptyMap, None, "disconnected")
             \/ \E cur \in Config(p)!Keys(m) : Stores(p, m, cur, status)
  BY <1>2, <1>4 DEF Config!Leave, Config!IsFirst
<1>5. Config(p)!storeVars' = Config(p)!storeVars => Stores(p, Config(p)!Map, current, status)
  BY DEF Config!storeVars, Stores, HeapOK, Config!Map, Config!Keys
<1> QED BY <1>2, <1>3, <1>4, <1>5

\* If no call holds a Map, a setState leaves only the one it installs.
LEMMA Sweeps ==
  ASSUME NEW p, \A t \in Pages[p].tasks : task'[t].ref \notin Config(p)!Refs,
         NEW h, DOMAIN h = Config(p)!Refs, NEW m, NEW cur, NEW st, Config(p)!Install(h, m, cur, st)
  PROVE  \A r \in Config(p)!Refs : Config(p)!Keys(heap'[r]) \subseteq Config(p)!Keys(m)
<1>1. PICK ref \in Config(p)!FreeRefs :
        Config(p)!SetState([h EXCEPT ![ref] = m], ref, cur, st, chainId)
  BY DEF Config!Install, Config!Replace
<1> DEFINE g == [h EXCEPT ![ref] = m]
<1>2. g[ref] = m
  BY DEF Config!FreeRefs
<1>3. Config(p)!SetState(g, ref, cur, st, chainId)
  BY <1>1
<1> HIDE DEF g
<1>4. ASSUME NEW r \in Config(p)!Refs
      PROVE  heap'[r] = m \/ heap'[r] = Config(p)!EmptyMap
  BY <1>2, <1>3, <1>4 DEF Config!SetState
<1> QED BY <1>4, MapKeys

\* The connections of a Map are of this page.
Fresh(p, m) == \A u \in Config(p)!Keys(m) : u[2] = life

Retrying == {"reconnect.reading", "reconnect.trying"}

\* There is a current connection, or none while nothing is "connected", and so it will be
\* when what is under way is done.
CurrentOK(p) ==
  /\ current \in Config(p)!Keys(Config(p)!Map) \/ (current = None /\ status # "connected")
  /\ \A t \in Pages[p].tasks :
       /\ task[t].at = "switch.saving" => <<task[t].c, life>> \in Config(p)!Keys(Config(p)!Map)
       /\ task[t].at \in Retrying /\ task[t].found /\ status \in Config(p)!Pending
            => current \in Config(p)!Keys(Config(p)!Map)

\* Nothing is left of an earlier page, neither in the store nor with a call.
Clean(p) ==
  /\ \A r \in Config(p)!Refs : Fresh(p, heap[r])
  /\ Pages[p].reconnects => CurrentOK(p)

\* What storage gave is still there, and a reconnect that will replace it.
Reviving(p) ==
  /\ Pages[p].reconnects /\ status \in Config(p)!Pending
  /\ \E t \in Pages[p].tasks : task[t].at \in Retrying /\ ~task[t].found

\* The pages of which it is claimed.
Settling(p) == ~Pages[p].async /\ (OneCall(p) \/ ~Pages[p].reconnects)

\* Once it has mounted a page is clean, or will be.
GhostInv(p) ==
  /\ PhaseInv(p) /\ CallsOK(p) /\ HeapOK(p)
  /\ mounted = "yes" => Clean(p) \/ Reviving(p)

\* What is in a clean store after a step was there, or is of this page.
LEMMA StaysClean ==
  ASSUME NEW p, Clean(p), life' = life, NEW m, NEW cur, NEW st, Stores(p, m, cur, st), Fresh(p, m),
         Pages[p].reconnects =>
           /\ cur \in Config(p)!Keys(m) \/ (cur = None /\ st # "connected")
           /\ \A s \in Pages[p].tasks :
                /\ task'[s].at = "switch.saving" => <<task'[s].c, life>> \in Config(p)!Keys(m)
                /\ task'[s].at \in Retrying /\ task'[s].found /\ st \in Config(p)!Pending
                     => cur \in Config(p)!Keys(m)
  PROVE  Clean(p)'
<1>1. \A r \in Config(p)!Refs : \A u \in Config(p)!Keys(heap'[r]) : u[2] = life'
  BY DEF Clean, Fresh, Stores
<1>2. (\A r \in Config(p)!Refs : Fresh(p, heap[r]))'
  BY <1>1 DEF Fresh, Config!Keys, Config!Refs
<1>3. Pages[p].reconnects => CurrentOK(p)'
  BY DEF Stores, CurrentOK, Config!Keys, Config!Map, Config!Pending
<1> QED BY <1>2, <1>3 DEF Clean


\* A call of a clean page.
LEMMA CallsClean ==
  ASSUME NEW p \in DOMAIN Pages, Settling(p), CallsOK(p), HeapOK(p), Clean(p),
         NEW t \in Pages[p].tasks,
         Config(p)!Continue(t) \/ Config(p)!Answer(t) \/ Config(p)!Call(t)
  PROVE  CallsOK(p)' /\ HeapOK(p)' /\ Clean(p)'
<1> DEFINE Map == Config(p)!Map
<1>1. /\ life' = life /\ Fresh(p, Map) /\ CallOK(p, task[t])
      /\ Pages[p].reconnects => CurrentOK(p) /\ \A s \in Pages[p].tasks : s = t
  <2>1. Config(p)!loadVars' = Config(p)!loadVars
    BY CallsLoadNothing
  <2> QED BY <2>1 DEF Config!loadVars, Clean, HeapOK, Config!Map, CallsOK, Settling, OneCall
<1>2. Fresh(p, Config(p)!EmptyMap) /\ Thin(p, heap)
  BY MapKeys DEF Fresh, Thin, HeapOK
<1>3. ASSUME NEW m, Fresh(p, m), NEW c, NEW ch
      PROVE  LET n == Config(p)!MapSet(m, Config(p)!U(c), ch)
             IN  Fresh(p, n) /\ Config(p)!Keys(n) = Config(p)!Keys(m) \cup {Config(p)!U(c)}
  BY <1>3, MapKeys DEF Fresh, Config!U
<1>4. ASSUME Moved(p, t), NEW m, NEW cur, NEW st, Stores(p, m, cur, st), Fresh(p, m),
             Pages[p].reconnects =>
               /\ cur \in Config(p)!Keys(m) \/ (cur = None /\ st # "connected")
               /\ task'[t].at = "switch.saving" => <<task'[t].c, life>> \in Config(p)!Keys(m)
               /\ task'[t].at \in Retrying /\ task'[t].found /\ st \in Config(p)!Pending
                    => cur \in Config(p)!Keys(m)
      PROVE  CallsOK(p)' /\ HeapOK(p)' /\ Clean(p)'
  BY <1>1, <1>4, StaysClean DEF Moved, Stores
\* The call ends.
<1>5. ASSUME Moved(p, t), task'[t].at \notin Retrying \cup {"switch.saving"},
             NEW m, NEW cur, NEW st, Stores(p, m, cur, st), Fresh(p, m),
             Pages[p].reconnects =>
               cur \in Config(p)!Keys(m) \/ (cur = None /\ st # "connected")
      PROVE  CallsOK(p)' /\ HeapOK(p)' /\ Clean(p)'
  BY <1>4, <1>5
<1> HIDE DEF Map
<1>6. CASE Config(p)!ConnectDone(t)
  <2>1. Moved(p, t) /\ task'[t].at \notin Retrying \cup {"switch.saving"}
    BY <1>6, CallMoves DEF Retrying
  <2> DEFINE m == Config(p)!MapSet(Map, Config(p)!U(task[t].c), task[t].chain)
             u == Config(p)!U(task[t].c)
  <2>2. Config(p)!Install(heap, m, u, "connected")
    BY <1>6 DEF Config!ConnectDone, Map
  <2>3. Fresh(p, m) /\ u \in Config(p)!Keys(m)
    BY <1>1, <1>3
  <2> HIDE DEF m, u
  <2>4. Stores(p, m, u, "connected")
    BY <1>2, <2>2, ItStores
  <2> QED BY <1>5, <2>1, <2>3, <2>4
<1>7. CASE Config(p)!ConnectFail(t)
  <2> DEFINE st == IF current # None THEN "connected" ELSE "disconnected"
  <2>1. Moved(p, t) /\ task'[t].at \notin Retrying \cup {"switch.saving"}
    BY <1>7, CallMoves DEF Retrying
  <2>2. Stores(p, Map, current, st)
    BY <1>7, ItStores DEF Config!ConnectFail, Map
  <2>3. Pages[p].reconnects =>
          current \in Config(p)!Keys(Map) \/ (current = None /\ st # "connected")
    BY <1>1 DEF CurrentOK, Map
  <2> HIDE DEF st
  <2> QED BY <1>1, <1>5, <2>1, <2>2, <2>3
<1>8. CASE Config(p)!SwitchDone(t)
  <2>1. Moved(p, t) /\ task'[t].at \notin Retrying \cup {"switch.saving"}
    BY <1>8, CallMoves DEF Retrying
  <2>2. Stores(p, Map, Config(p)!U(task[t].c), status)
    BY <1>8, ItStores DEF Config!SwitchDone, Map
  <2>3. Pages[p].reconnects => Config(p)!U(task[t].c) \in Config(p)!Keys(Map)
    BY <1>1, <1>8 DEF CurrentOK, Config!U, Config!SwitchDone, Map
  <2> QED BY <1>1, <1>5, <2>1, <2>2, <2>3
<1>9. ASSUME NEW ch \in Pages[p].chains, Config(p)!ConnectAnswer(t, ch)
      PROVE  CallsOK(p)' /\ HeapOK(p)' /\ Clean(p)'
  <2>1. Moved(p, t) /\ task'[t].at \notin Retrying \cup {"switch.saving"}
    BY <1>9, CallMoves DEF Retrying
  <2>2. Stores(p, Map, current, status)
    BY <1>9, ItStores DEF Config!ConnectAnswer, Map
  <2> QED BY <1>1, <1>5, <2>1, <2>2 DEF CurrentOK, Map
<1>10. CASE Config(p)!ReconnectRead(t)
  <2>1. /\ Moved(p, t) /\ task'[t].at = "reconnect.trying" /\ task'[t].found = task[t].found
        /\ task[t].at = "reconnect.reading"
    BY <1>10, CallMoves DEF Config!ReconnectRead
  <2>2. Stores(p, Map, current, status)
    BY <1>10, ItStores DEF Config!ReconnectRead, Map
  <2> QED BY <1>1, <1>4, <2>1, <2>2 DEF CurrentOK, Map, Retrying
<1>11. ASSUME NEW c \in Pages[p].connectors, Config(p)!ReconnectSkip(t, c)
       PROVE  CallsOK(p)' /\ HeapOK(p)' /\ Clean(p)'
  <2>1. /\ Moved(p, t) /\ task[t].at = "reconnect.trying"
        /\ IF Config(p)!IsLast(t) THEN task'[t].at = "idle"
           ELSE task'[t].at = "reconnect.trying" /\ task'[t].found = task[t].found
    BY <1>11, CallMoves DEF Config!ReconnectSkip, Config!Trying
  <2>2. \/ (~Config(p)!IsLast(t) \/ status \notin Config(p)!Pending) /\ Stores(p, Map, current, status)
        \/ /\ Config(p)!IsLast(t) /\ status \in Config(p)!Pending /\ task[t].found
           /\ Stores(p, Map, current, "connected")
        \/ Config(p)!IsLast(t) /\ Stores(p, Config(p)!EmptyMap, None, "disconnected")
    BY <1>2, <1>11, ItStores DEF Config!ReconnectSkip, Map
  <2>3. ASSUME ~Config(p)!IsLast(t) \/ status \notin Config(p)!Pending, Stores(p, Map, current, status)
        PROVE  CallsOK(p)' /\ HeapOK(p)' /\ Clean(p)'
    BY <1>1, <1>4, <2>1, <2>3 DEF CurrentOK, Map, Retrying
  <2>4. ASSUME Config(p)!IsLast(t), status \in Config(p)!Pending, task[t].found,
               Stores(p, Map, current, "connected")
        PROVE  CallsOK(p)' /\ HeapOK(p)' /\ Clean(p)'
    <3>1. Pages[p].reconnects => current \in Config(p)!Keys(Map)
      BY <1>1, <2>1, <2>4 DEF CurrentOK, Map, Retrying
    <3>2. task'[t].at \notin Retrying \cup {"switch.saving"}
      BY <2>1, <2>4 DEF Retrying
    <3> QED BY <1>1, <1>5, <2>1, <2>4, <3>1, <3>2
  <2>5. ASSUME Config(p)!IsLast(t), Stores(p, Config(p)!EmptyMap, None, "disconnected")
        PROVE  CallsOK(p)' /\ HeapOK(p)' /\ Clean(p)'
    <3>1. task'[t].at \notin Retrying \cup {"switch.saving"}
      BY <2>1, <2>5 DEF Retrying
    <3> QED BY <1>2, <1>5, <2>1, <2>5, <3>1
  <2> QED BY <2>2, <2>3, <2>4, <2>5
<1>12. ASSUME NEW c \in Pages[p].connectors, NEW ch, Config(p)!ReconnectRestore(t, c, ch)
       PROVE  CallsOK(p)' /\ HeapOK(p)' /\ Clean(p)'
  <2> DEFINE m == Config(p)!MapSet(IF task[t].found THEN Map ELSE Config(p)!EmptyMap,
                                   Config(p)!U(c), ch)
             cur == IF task[t].found THEN current ELSE Config(p)!U(c)
             st == IF Config(p)!IsLast(t) /\ status \in Config(p)!Pending THEN "connected" ELSE status
  <2>1. /\ Moved(p, t) /\ task[t].at = "reconnect.trying"
        /\ IF Config(p)!IsLast(t) THEN task'[t].at = "idle" ELSE task'[t].at = "reconnect.trying"
    BY <1>12, CallMoves DEF Config!ReconnectRestore, Config!Trying
  <2>2. Config(p)!Install(heap, m, cur, st)
    BY <1>12 DEF Config!ReconnectRestore, Map
  <2>3. /\ Fresh(p, m) /\ Config(p)!U(c) \in Config(p)!Keys(m)
        /\ task[t].found => Config(p)!Keys(Map) \subseteq Config(p)!Keys(m)
    <3>1. CASE task[t].found
      BY <1>1, <1>3, <3>1
    <3>2. CASE ~task[t].found
      BY <1>2, <1>3, <3>2
    <3> QED BY <3>1, <3>2
  <2>4. Pages[p].reconnects =>
          /\ cur \in Config(p)!Keys(m) \/ (cur = None /\ st # "connected")
          /\ st \in Config(p)!Pending => cur \in Config(p)!Keys(m)
    <3>1. CASE ~task[t].found
      BY <2>3, <3>1
    <3>2. CASE task[t].found
      <4>1. Pages[p].reconnects =>
              /\ current \in Config(p)!Keys(Map) \/ (current = None /\ status # "connected")
              /\ status \in Config(p)!Pending => current \in Config(p)!Keys(Map)
        BY <1>1, <2>1, <3>2 DEF CurrentOK, Map, Retrying
      <4>2. cur = current /\ (st = status \/ status \in Config(p)!Pending)
        BY <3>2
      <4>3. st \in Config(p)!Pending => st = status
        BY DEF Config!Pending
      <4> HIDE DEF m, cur, st
      <4> QED BY <2>3, <3>2, <4>1, <4>2, <4>3
    <3> QED BY <3>1, <3>2
  <2> HIDE DEF m, cur, st
  <2>5. Stores(p, m, cur, st)
    BY <1>2, <2>2, ItStores
  <2> QED BY <1>4, <2>1, <2>3, <2>4, <2>5
<1>13. CASE Config(p)!DisconnectDone(t)
  <2> DEFINE ref == task[t].ref
             m == Config(p)!MapDelete(heap[ref], Config(p)!U(task[t].c))
             h == [heap EXCEPT ![ref] = m]
  <2>1. Moved(p, t) /\ task'[t].at \notin Retrying \cup {"switch.saving"}
    BY <1>13, CallMoves DEF Retrying
  <2>2. ref \in Config(p)!Refs /\ Config(p)!Leave(h, m)
    BY <1>1, <1>13 DEF Config!DisconnectDone, CallOK
  <2>3. Config(p)!Keys(m) \subseteq Config(p)!Keys(heap[ref])
    BY MapKeys
  <2>4. Fresh(p, m) /\ Thin(p, h)
    BY <1>2, <2>2, <2>3 DEF Clean, Fresh, Thin
  <2> HIDE DEF m, h
  <2>5. \/ Stores(p, Config(p)!EmptyMap, None, "disconnected")
        \/ \E cur \in Config(p)!Keys(m) : Stores(p, m, cur, status)
    BY <2>2, <2>4, ItStores
  <2> QED BY <1>2, <1>5, <2>1, <2>4, <2>5
<1>14. CASE Config(p)!DisconnectFail(t)
  <2>1. Moved(p, t) /\ task'[t].at \notin Retrying \cup {"switch.saving"}
    BY <1>14, CallMoves DEF Retrying
  <2>2. /\ heap' = [r \in Config(p)!Refs |->
                      IF r = connections \/ \E s \in Pages[p].tasks : task'[s].ref = r
                      THEN heap[r] ELSE Config(p)!EmptyMap]
        /\ connections' = connections /\ current' = current /\ status' = status
    BY <1>14 DEF Config!DisconnectFail
  <2>3. HeapOK(p)' /\ Config(p)!Map' = Map
    BY <2>2 DEF HeapOK, Config!Map, Map
  <2>4. \A r \in Config(p)!Refs : heap'[r] = heap[r] \/ heap'[r] = Config(p)!EmptyMap
    BY <2>2
  <2>5. Stores(p, Map, current, status)
    BY <2>2, <2>3, <2>4, MapKeys DEF Stores
  <2> QED BY <1>1, <1>5, <2>1, <2>5 DEF CurrentOK, Map
<1>15. ASSUME NEW c \in Pages[p].connectors, Config(p)!Connect(t, c)
       PROVE  CallsOK(p)' /\ HeapOK(p)' /\ Clean(p)'
  <2>1. Moved(p, t) /\ task'[t].at \notin Retrying \cup {"switch.saving"}
    BY <1>15, CallMoves DEF Retrying
  <2>2. Stores(p, Map, current, "connecting")
    BY <1>15, ItStores DEF Config!Connect, Map
  <2> QED BY <1>1, <1>5, <2>1, <2>2 DEF CurrentOK, Map
<1>16. ASSUME NEW cs \in SUBSET Pages[p].connectors, Config(p)!Reconnect(t, cs)
       PROVE  CallsOK(p)' /\ HeapOK(p)' /\ Clean(p)'
  <2> DEFINE st == IF current # None THEN "reconnecting" ELSE "connecting"
  <2>1. Moved(p, t) /\ task'[t].at = "reconnect.reading" /\ task'[t].found = FALSE
    BY <1>16, CallMoves DEF Config!Reconnect
  <2>2. Stores(p, Map, current, st)
    BY <1>16, ItStores DEF Config!Reconnect, Config!BeginReconnect, Map
  <2>3. st # "connected"
    OBVIOUS
  <2> HIDE DEF st
  <2> QED BY <1>1, <1>4, <2>1, <2>2, <2>3 DEF CurrentOK, Map
<1>17. ASSUME NEW c \in Pages[p].connectors, Config(p)!SwitchConnection(t, c)
       PROVE  CallsOK(p)' /\ HeapOK(p)' /\ Clean(p)'
  <2>1. Moved(p, t) /\ task'[t].at = "switch.saving" /\ task'[t].c = c
        /\ <<c, life>> \in Config(p)!Keys(Map)
    BY <1>17, CallMoves DEF Config!SwitchConnection, Config!U, Map
  <2>2. Stores(p, Map, current, status)
    BY <1>17, ItStores DEF Config!SwitchConnection, Map
  <2> QED BY <1>1, <1>4, <2>1, <2>2 DEF CurrentOK, Map, Retrying
<1>18. ASSUME NEW c \in Pages[p].connectors, Config(p)!AskWallet(t, c)
       PROVE  CallsOK(p)' /\ HeapOK(p)' /\ Clean(p)'
  <2>1. Moved(p, t) /\ task'[t].at \notin Retrying \cup {"switch.saving"}
    BY <1>18, CallMoves DEF Retrying
  <2>2. Stores(p, Map, current, status)
    BY <1>18, ItStores DEF Config!AskWallet, Map
  <2> QED BY <1>1, <1>5, <2>1, <2>2 DEF CurrentOK, Map
<1>19. ASSUME Config(p)!NothingToAsk, Config(p)!Interactive
       PROVE  CallsOK(p)' /\ HeapOK(p)' /\ Clean(p)'
  <2>1. task' = task /\ task[t].at # "switch.saving"
    BY <1>19 DEF Config!NothingToAsk, Config!Interactive, Config!Quiet, Config!StoragePlaces, Settling
  <2>2. Moved(p, t)
    BY <2>1 DEF Moved, CallsOK, CallOK, Calling
  <2>3. \/ Stores(p, Config(p)!EmptyMap, None, "disconnected")
        \/ \E cur \in Config(p)!Keys(Map) : Stores(p, Map, cur, status)
    BY <1>2, <1>19, ItStores DEF Config!NothingToAsk, Map
  <2>4. ASSUME Stores(p, Config(p)!EmptyMap, None, "disconnected")
        PROVE  CallsOK(p)' /\ HeapOK(p)' /\ Clean(p)'
    <3>1. "disconnected" \notin Config(p)!Pending
      BY DEF Config!Pending
    <3> QED BY <1>2, <1>4, <2>1, <2>2, <2>4, <3>1
  <2> QED BY <1>1, <1>4, <2>1, <2>2, <2>3, <2>4
<1> QED BY <1>6, <1>7, <1>8, <1>9, <1>10, <1>11, <1>12, <1>13, <1>14, <1>15, <1>16, <1>17, <1>18, <1>19
        DEF Config!Continue, Config!Answer, Config!Call, Config!DisconnectCurrent,
            Config!DisconnectConnector


\* A Map of this page is installed while no call holds another.
LEMMA GetsClean ==
  ASSUME NEW p, HeapOK(p), life' = life, CallsOK(p)',
         \A s \in Pages[p].tasks : task'[s].at \notin {"switch.saving", "disconnect.wallet"},
         NEW h, Thin(p, h), NEW m, NEW cur, NEW st, Config(p)!Install(h, m, cur, st), Fresh(p, m),
         Pages[p].reconnects =>
           cur \in Config(p)!Keys(m) \/ (cur = None /\ st \notin {"connected"} \cup Config(p)!Pending)
  PROVE  HeapOK(p)' /\ Clean(p)'
<1>1. Stores(p, m, cur, st)
  BY ItStores
<1>2. \A t \in Pages[p].tasks : task'[t].ref \notin Config(p)!Refs
  <2>1. \A t \in Pages[p].tasks : task'[t].ref = -1
    BY DEF CallsOK, CallOK
  <2> QED BY <2>1 DEF Config!Refs
<1>3. \A r \in Config(p)!Refs : \A u \in Config(p)!Keys(heap'[r]) : u[2] = life'
  BY <1>2, Sweeps DEF Thin, Fresh
<1>4. (\A r \in Config(p)!Refs : Fresh(p, heap[r]))'
  BY <1>3 DEF Fresh, Config!Keys, Config!Refs
<1>5. Pages[p].reconnects => CurrentOK(p)'
  BY <1>1 DEF Stores, CurrentOK, Config!Keys, Config!Map, Config!Pending
<1> QED BY <1>1, <1>4, <1>5 DEF Clean, Stores

\* Nothing is left, or the status and the one call go on.
LEMMA LeavesClean ==
  ASSUME NEW p, HeapOK(p), life' = life, CallsOK(p)', task' = task, Reviving(p),
         \A s \in Pages[p].tasks : task[s].at \in Retrying,
         NEW h, Thin(p, h), NEW m, Config(p)!Leave(h, m)
  PROVE  HeapOK(p)' /\ (Clean(p)' \/ Reviving(p)')
<1>1. CASE Config(p)!Install(h, Config(p)!EmptyMap, None, "disconnected")
  <2>1. Fresh(p, Config(p)!EmptyMap) /\ "disconnected" \notin {"connected"} \cup Config(p)!Pending
    BY MapKeys DEF Fresh, Config!Pending
  <2>2. \A s \in Pages[p].tasks : task'[s].at \notin {"switch.saving", "disconnect.wallet"}
    BY DEF Retrying
  <2> QED BY <1>1, <2>1, <2>2, GetsClean
<1>2. ASSUME NEW cur, Config(p)!Install(h, m, cur, status)
      PROVE  HeapOK(p)' /\ Reviving(p)'
  <2>1. Stores(p, m, cur, status)
    BY <1>2, ItStores, SMTT(30)
  <2> QED BY <2>1 DEF Stores, Reviving, Config!Pending
<1> QED BY <1>1, <1>2 DEF Config!Leave

\* The call of a page that still reconnects.
LEMMA CallsRevive ==
  ASSUME NEW p \in DOMAIN Pages, OneCall(p), CallsOK(p), HeapOK(p), Reviving(p),
         NEW t \in Pages[p].tasks,
         Config(p)!Continue(t) \/ Config(p)!Answer(t) \/ Config(p)!Call(t)
  PROVE  CallsOK(p)' /\ HeapOK(p)' /\ (Clean(p)' \/ Reviving(p)')
<1>1. /\ life' = life /\ Fresh(p, Config(p)!EmptyMap) /\ Thin(p, heap)
      /\ \A s \in Pages[p].tasks : s = t
      /\ task[t].at \in Retrying /\ ~task[t].found /\ Pages[p].reconnects /\ status \in Config(p)!Pending
  <2>1. Config(p)!loadVars' = Config(p)!loadVars
    BY CallsLoadNothing
  <2> QED BY <2>1, MapKeys DEF Config!loadVars, OneCall, Reviving, Fresh, Thin, HeapOK
<1>2. CASE Config(p)!ReconnectRead(t)
  <2>1. Moved(p, t) /\ task'[t].at = "reconnect.trying" /\ task'[t].found = task[t].found
    BY <1>2, CallMoves
  <2>2. Stores(p, Config(p)!Map, current, status)
    BY <1>2, ItStores DEF Config!ReconnectRead
  <2> QED BY <1>1, <2>1, <2>2 DEF Moved, Stores, Reviving, Retrying, Config!Pending
<1>3. ASSUME NEW c \in Pages[p].connectors, Config(p)!ReconnectSkip(t, c)
      PROVE  CallsOK(p)' /\ HeapOK(p)' /\ (Clean(p)' \/ Reviving(p)')
  <2>1. /\ Moved(p, t)
        /\ IF Config(p)!IsLast(t) THEN task'[t].at = "idle"
           ELSE task'[t].at = "reconnect.trying" /\ task'[t].found = task[t].found
    BY <1>3, CallMoves
  <2>2. CASE ~Config(p)!IsLast(t)
    <3>1. Stores(p, Config(p)!Map, current, status)
      BY <1>3, <2>2, ItStores DEF Config!ReconnectSkip
    <3> QED BY <1>1, <2>1, <2>2, <3>1 DEF Moved, Stores, Reviving, Retrying, Config!Pending
  <2>3. CASE Config(p)!IsLast(t)
    <3>1. Config(p)!Install(heap, Config(p)!EmptyMap, None, "disconnected")
      BY <1>1, <1>3, <2>3 DEF Config!ReconnectSkip
    <3>2. "disconnected" \notin {"connected"} \cup Config(p)!Pending
      BY DEF Config!Pending
    <3>3. \A s \in Pages[p].tasks : task'[s].at \notin {"switch.saving", "disconnect.wallet"}
      BY <1>1, <2>1, <2>3
    <3>4. CallsOK(p)'
      BY <2>1 DEF Moved
    <3> QED BY <1>1, <3>1, <3>2, <3>3, <3>4, GetsClean
  <2> QED BY <2>2, <2>3
<1>4. ASSUME NEW c \in Pages[p].connectors, NEW ch, Config(p)!ReconnectRestore(t, c, ch)
      PROVE  CallsOK(p)' /\ HeapOK(p)' /\ (Clean(p)' \/ Reviving(p)')
  <2> DEFINE m == Config(p)!MapSet(Config(p)!EmptyMap, Config(p)!U(c), ch)
  <2>1. Moved(p, t) /\ task'[t].at \in {"idle", "reconnect.trying"}
    BY <1>4, CallMoves
  <2>2. PICK st : Config(p)!Install(heap, m, Config(p)!U(c), st)
    BY <1>1, <1>4 DEF Config!ReconnectRestore
  <2>3. Config(p)!Keys(m) = {Config(p)!U(c)} /\ Fresh(p, m)
    BY MapKeys DEF Fresh, Config!U
  <2> HIDE DEF m
  <2>4. CallsOK(p)' /\ \A s \in Pages[p].tasks : task'[s].at \notin {"switch.saving", "disconnect.wallet"}
    BY <1>1, <2>1 DEF Moved
  <2> QED BY <1>1, <2>2, <2>3, <2>4, GetsClean
<1>5. CASE Config(p)!NothingToAsk
  <2>1. task' = task /\ Config(p)!Leave(heap, Config(p)!Map)
    BY <1>5 DEF Config!NothingToAsk
  <2>2. CallsOK(p)' /\ \A s \in Pages[p].tasks : task[s].at \in Retrying
    BY <1>1, <2>1 DEF CallsOK, CallOK, Calling
  <2> QED BY <1>1, <2>1, <2>2, LeavesClean
<1> QED BY <1>1, <1>2, <1>3, <1>4, <1>5
        DEF Retrying, Config!Continue, Config!Answer, Config!Call, Config!DisconnectCurrent,
            Config!DisconnectConnector, Config!AskWallet, Config!Start, Config!InFlight,
            Config!ConnectDone, Config!SwitchDone, Config!ConnectAnswer, Config!ConnectFail,
            Config!DisconnectDone, Config!DisconnectFail, Config!Connect, Config!Reconnect,
            Config!BeginReconnect, Config!SwitchConnection

\* The wallets' events, and the application's own choice of a chain.
LEMMA EventsSettle ==
  ASSUME NEW p \in DOMAIN Pages, Settling(p), CallsOK(p), HeapOK(p),
         Config(p)!SwitchChains \/ Config(p)!Event
  PROVE  /\ CallsOK(p)' /\ HeapOK(p)'
         /\ Clean(p) => Clean(p)'
         /\ OneCall(p) /\ Reviving(p) => Clean(p)' \/ Reviving(p)'
<1> DEFINE Map == Config(p)!Map
           Settled == /\ HeapOK(p)' /\ (Clean(p) => Clean(p)')
                      /\ OneCall(p) /\ Reviving(p) => Clean(p)' \/ Reviving(p)'
<1>1. /\ life' = life /\ task' = task /\ Thin(p, heap) /\ Fresh(p, Config(p)!EmptyMap)
      /\ Clean(p) => Fresh(p, Map) /\ (Pages[p].reconnects => CurrentOK(p))
  BY EventsLoadNothing, MapKeys DEF Config!loadVars, Thin, HeapOK, Fresh, Clean, Config!Map
<1>2. CallsOK(p)'
  BY <1>1 DEF CallsOK, CallOK, Calling
<1>3. Config(p)!Quiet => \A s \in Pages[p].tasks : task[s].at # "switch.saving"
  BY DEF Config!Quiet, Config!StoragePlaces, Settling
<1>4. ASSUME Config(p)!Quiet, NEW m, Clean(p) => Fresh(p, m), NEW cur, NEW st, Stores(p, m, cur, st),
             \/ cur \in Config(p)!Keys(m)
             \/ cur = None /\ st \notin {"connected"} \cup Config(p)!Pending
             \/ cur = current /\ st = status /\ Config(p)!Keys(Map) \subseteq Config(p)!Keys(m),
             st = status \/ ~Reviving(p)
      PROVE  Settled
  <2>1. HeapOK(p)'
    BY <1>4 DEF Stores
  <2>2. Clean(p) => Clean(p)'
    <3> SUFFICES ASSUME Clean(p) PROVE Clean(p)'
      OBVIOUS
    <3>1. \A s \in Pages[p].tasks : task'[s].at # "switch.saving" /\ task'[s] = task[s]
      BY <1>1, <1>3, <1>4
    <3>2. Pages[p].reconnects =>
            /\ cur \in Config(p)!Keys(m) \/ (cur = None /\ st # "connected")
            /\ \A s \in Pages[p].tasks :
                 task'[s].at \in Retrying /\ task'[s].found /\ st \in Config(p)!Pending
                   => cur \in Config(p)!Keys(m)
      BY <1>1, <1>4, <3>1 DEF CurrentOK
    <3> QED BY <1>1, <1>4, <3>1, <3>2, StaysClean
  <2>3. Reviving(p) => Reviving(p)'
    BY <1>1, <1>4 DEF Stores, Reviving, Config!Pending
  <2> HIDE DEF Map
  <2> QED BY <2>1, <2>2, <2>3
<1>5. ASSUME NEW c, NEW ch
      PROVE  LET m == Config(p)!MapSet(Map, Config(p)!U(c), ch)
             IN  /\ Clean(p) => Fresh(p, m)
                 /\ Config(p)!Keys(m) = Config(p)!Keys(Map) \cup {Config(p)!U(c)}
  BY <1>1, MapKeys DEF Fresh, Config!U
<1> HIDE DEF Map, Settled
<1>6. ASSUME NEW target, NEW ch, Config(p)!SwitchChain(target, ch)
      PROVE  Settled
  <2>1. Stores(p, Map, current, status) /\ Config(p)!Quiet
    BY <1>6, ItStores DEF Config!SwitchChain, Config!Interactive, Map
  <2> QED BY <1>1, <1>4, <2>1
<1>7. ASSUME NEW c, NEW ch, Config(p)!Change(c, ch)
      PROVE  Settled
  <2> DEFINE m == Config(p)!MapSet(Map, Config(p)!U(c), ch)
  <2>1. Config(p)!Install(heap, m, current, status) /\ Config(p)!Quiet
    BY <1>7 DEF Config!Change, Map
  <2>2. (Clean(p) => Fresh(p, m)) /\ Config(p)!Keys(Map) \subseteq Config(p)!Keys(m)
    BY <1>5
  <2> HIDE DEF m
  <2>3. Stores(p, m, current, status)
    BY <1>1, <2>1, ItStores
  <2> QED BY <1>4, <2>1, <2>2, <2>3
<1>8. ASSUME NEW c, NEW ch, Config(p)!ConnectEvent(c, ch)
      PROVE  Settled
  <2> DEFINE m == Config(p)!MapSet(Map, Config(p)!U(c), ch)
             u == Config(p)!U(c)
  <2>1. Config(p)!Install(heap, m, u, "connected") /\ Config(p)!Quiet /\ ~Reviving(p)
    BY <1>8 DEF Config!ConnectEvent, Map, Reviving
  <2>2. (Clean(p) => Fresh(p, m)) /\ u \in Config(p)!Keys(m)
    BY <1>5
  <2> HIDE DEF m, u
  <2>3. Stores(p, m, u, "connected")
    BY <1>1, <2>1, ItStores
  <2> QED BY <1>4, <2>1, <2>2, <2>3
<1>9. ASSUME NEW c, Config(p)!DisconnectEvent(c)
      PROVE  Settled
  <2> DEFINE m == Config(p)!MapDelete(Map, Config(p)!U(c))
             h == [heap EXCEPT ![connections] = m]
  <2>1. Config(p)!Leave(h, m) /\ Config(p)!Quiet
    BY <1>9 DEF Config!DisconnectEvent, Map
  <2>2. Config(p)!Keys(m) \subseteq Config(p)!Keys(Map)
    BY MapKeys
  <2>3. Thin(p, h)
    BY <1>1, <2>2 DEF Thin, HeapOK, Map, Config!Map
  <2>4. Clean(p) => Fresh(p, m)
    BY <1>1, <2>2 DEF Fresh
  <2> HIDE DEF m, h
  <2>5. HeapOK(p)' /\ (Clean(p) => Clean(p)')
    <3>1. "disconnected" \notin {"connected"} \cup Config(p)!Pending
      BY DEF Config!Pending
    <3>2. \/ Stores(p, Config(p)!EmptyMap, None, "disconnected")
          \/ \E cur \in Config(p)!Keys(m) : Stores(p, m, cur, status)
      BY <2>1, <2>3, ItStores
    <3>3. ASSUME NEW n, Clean(p) => Fresh(p, n), NEW cur, NEW st, Stores(p, n, cur, st), Clean(p),
                 \/ cur \in Config(p)!Keys(n)
                 \/ cur = None /\ st \notin {"connected"} \cup Config(p)!Pending
          PROVE  Clean(p)'
      BY <1>1, <1>3, <2>1, <3>3, StaysClean
    <3> QED BY <1>1, <2>4, <3>1, <3>2, <3>3 DEF Stores
  <2>6. OneCall(p) /\ Reviving(p) => Clean(p)' \/ Reviving(p)'
    <3> SUFFICES ASSUME OneCall(p), Reviving(p) PROVE Clean(p)' \/ Reviving(p)'
      OBVIOUS
    <3>1. \A s \in Pages[p].tasks : task[s].at \in Retrying
      BY DEF OneCall, Reviving
    <3> QED BY <1>1, <1>2, <2>1, <2>3, <3>1, LeavesClean
  <2> QED BY <2>5, <2>6 DEF Settled
<1> QED BY <1>2, <1>6, <1>7, <1>8, <1>9 DEF Settled, Config!SwitchChains, Config!Event


\* The page mounts, or its provider renders again.
LEMMA MountSettles ==
  ASSUME NEW p \in DOMAIN Pages, Settling(p), GhostInv(p), NEW t \in Pages[p].tasks,
         Config(p)!MountClient(t) \/ Config(p)!MountResume(t)
  PROVE  CallsOK(p)' /\ HeapOK(p)' /\ (Clean(p)' \/ Reviving(p)')
<1>1. /\ life' = life /\ CallsOK(p) /\ HeapOK(p) /\ Config(p)!Mounting(t)
      /\ Thin(p, heap) /\ Fresh(p, Config(p)!EmptyMap)
  BY MapKeys DEF Config!MountClient, Config!MountResume, GhostInv, Thin, HeapOK, Fresh
<1>2. task' = task => CallsOK(p)'
  BY <1>1 DEF CallsOK, CallOK, Calling
<1>3. CASE Pages[p].reconnects /\ Config(p)!BeginReconnect(t, Pages[p].connectors)
  <2> DEFINE st == IF current # None THEN "reconnecting" ELSE "connecting"
  <2>1. Moved(p, t) /\ task'[t].at = "reconnect.reading" /\ task'[t].found = FALSE
    BY <1>1, <1>3, CallMoves
  <2>2. Stores(p, Config(p)!Map, current, st)
    BY <1>1, <1>3, ItStores DEF Config!BeginReconnect
  <2>3. st \in Config(p)!Pending
    BY DEF Config!Pending
  <2> HIDE DEF st
  <2> QED BY <1>3, <2>1, <2>2, <2>3 DEF Moved, Stores, Reviving, Retrying, Config!Pending
<1>4. CASE isReconnecting /\ UNCHANGED <<Config(p)!storeVars, task, isReconnecting>>
  <2>1. Clean(p) \/ Reviving(p)
    BY <1>4 DEF GhostInv, PhaseInv
  <2> QED BY <1>1, <1>2, <1>4, <2>1
          DEF Config!storeVars, HeapOK, Clean, Fresh, CurrentOK, Reviving, Config!Map, Config!Keys,
              Config!Pending
<1>5. CASE ~Pages[p].reconnects /\ task' = task /\ Config(p)!Install(heap, Config(p)!EmptyMap, current, status)
  <2>1. CASE mounted = "yes"
    <3>1. Clean(p)
      BY <1>5, <2>1 DEF GhostInv, Reviving
    <3>2. Stores(p, Config(p)!EmptyMap, current, status)
      BY <1>1, <1>5, ItStores
    <3> QED BY <1>1, <1>2, <1>5, <3>1, <3>2, StaysClean DEF Stores
  <2>2. CASE mounted # "yes"
    <3>1. \A s \in Pages[p].tasks : task'[s].at \notin {"switch.saving", "disconnect.wallet"}
      BY <1>5, <2>2 DEF GhostInv, PhaseInv
    <3> QED BY <1>1, <1>2, <1>5, <3>1, GetsClean
  <2> QED BY <2>1, <2>2
<1> QED BY <1>1, <1>3, <1>4, <1>5 DEF Config!Mounting

\* The page is loaded: it has not mounted yet.
LEMMA LoadSettles ==
  ASSUME NEW p \in DOMAIN Pages, GhostInv(p),
         Config(p)!Hydrate \/ Config(p)!Render \/ Config(p)!MountSsr \/ Config(p)!Reload
  PROVE  CallsOK(p)' /\ HeapOK(p)' /\ mounted' # "yes"
<1>1. CallsOK(p) /\ HeapOK(p) /\ DOMAIN heap = Config(p)!Refs
  BY DEF GhostInv, HeapOK
<1>2. CASE Config(p)!Hydrate \/ Config(p)!Render
  <2>1. task' = task /\ mounted' # "yes"
    BY <1>2 DEF Config!Hydrate, Config!Render, GhostInv, PhaseInv
  <2>2. \E m, cur, st, ch : Config(p)!Replace(heap, m, cur, st, ch)
    BY <1>2 DEF Config!Hydrate, Config!Render
  <2>3. HeapOK(p)'
    BY <1>1, <2>2, Installs
  <2> QED BY <1>1, <2>1, <2>3 DEF CallsOK, CallOK, Calling
<1>3. CASE Config(p)!MountSsr
  BY <1>1, <1>3 DEF Config!MountSsr, Config!storeVars, HeapOK, CallsOK, CallOK, Calling
<1>4. CASE Config(p)!Reload
  <2>1. /\ connections' = 0 /\ heap' = [r \in Config(p)!Refs |-> Config(p)!EmptyMap]
        /\ task' = [t \in Pages[p].tasks |-> Config(p)!Idle] /\ mounted' = "no"
    BY <1>4 DEF Config!Reload
  <2>2. HeapOK(p)'
    BY <2>1, SomeRefs, PagesAssumption DEF HeapOK
  <2>3. CallsOK(p)'
    BY <2>1, IdleHere DEF CallsOK, CallOK, Calling
  <2> QED BY <2>1, <2>2, <2>3
<1> QED BY <1>2, <1>3, <1>4

\* Every step.
LEMMA GhostsKeptOut ==
  ASSUME NEW p \in DOMAIN Pages, Settling(p), GhostInv(p), Config(p)!Next
  PROVE  GhostInv(p)'
<1>1. PhaseInv(p)' /\ PhaseInv(p) /\ CallsOK(p) /\ HeapOK(p)
  BY PhaseKept DEF Settling, GhostInv
<1>2. ASSUME NEW t \in Pages[p].tasks,
             Config(p)!Continue(t) \/ Config(p)!Answer(t) \/ Config(p)!Call(t)
      PROVE  GhostInv(p)'
  <2>1. Clean(p) \/ (Reviving(p) /\ OneCall(p))
    BY <1>1, <1>2, CallsAreLate DEF Settling, GhostInv, Reviving
  <2>2. CallsOK(p)' /\ HeapOK(p)' /\ (Clean(p)' \/ Reviving(p)')
    BY <1>1, <1>2, <2>1, CallsClean, CallsRevive
  <2> QED BY <1>1, <2>2 DEF GhostInv
<1>3. ASSUME Config(p)!SwitchChains \/ Config(p)!Event
      PROVE  GhostInv(p)'
  <2>1. mounted' = mounted
    BY <1>3, EventsLoadNothing DEF Config!loadVars
  <2>2. mounted = "yes" => Clean(p) \/ (Reviving(p) /\ OneCall(p))
    BY DEF Settling, GhostInv, Reviving
  <2>3. CallsOK(p)' /\ HeapOK(p)' /\ (mounted = "yes" => Clean(p)' \/ Reviving(p)')
    BY <1>1, <1>3, <2>2, EventsSettle
  <2> QED BY <1>1, <2>1, <2>3 DEF GhostInv
<1>4. ASSUME NEW t \in Pages[p].tasks, Config(p)!MountClient(t) \/ Config(p)!MountResume(t)
      PROVE  GhostInv(p)'
  BY <1>1, <1>4, MountSettles DEF GhostInv
<1>5. ASSUME Config(p)!Hydrate \/ Config(p)!Render \/ Config(p)!MountSsr \/ Config(p)!Reload
      PROVE  GhostInv(p)'
  BY <1>1, <1>5, LoadSettles DEF GhostInv
<1> QED BY <1>2, <1>3, <1>4, <1>5 DEF Config!Next, Config!Page

\* The first page.
LEMMA GhostsInit ==
  ASSUME NEW p \in DOMAIN Pages, Config(p)!Init
  PROVE  GhostInv(p)
<1>1. /\ connections = 0 /\ heap = [r \in Config(p)!Refs |-> Config(p)!EmptyMap]
      /\ task = [t \in Pages[p].tasks |-> Config(p)!Idle] /\ mounted = "no"
  BY DEF Config!Init
<1>2. HeapOK(p) /\ CallsOK(p)
  BY <1>1, SomeRefs, PagesAssumption, IdleHere DEF HeapOK, CallsOK
<1> QED BY <1>1, <1>2, PhaseInit DEF GhostInv

\* The invariant, of whichever page it is.
SettlesInv == \A p \in DOMAIN Pages : page = p /\ Settling(p) => GhostInv(p)

\* Once a page has mounted and settled nothing of an earlier one is left, and what says
\* "connected" has a current connection: however often it is loaded, whatever was stored.
THEOREM NothingIsLeftBehind == PagesSpec => []NoGhosts
<1>1. PageInit \/ WalletsInit \/ WatchesInit => SettlesInv
  <2>1. ASSUME NEW p \in DOMAIN Pages, PageInit, page = p
        PROVE  GhostInv(p)
    <3>1. Config(p)!Init
      BY <2>1 DEF PageInit, Config!EffectInit
    <3> QED BY <3>1, GhostsInit
  <2> QED BY <2>1, PagesAssumption DEF PageInit, WalletsInit, WatchesInit, SettlesInv
<1>2. SettlesInv /\ [PagesNext]_allVars => SettlesInv'
  <2> SUFFICES ASSUME SettlesInv, [PagesNext]_allVars
               PROVE  SettlesInv'
    OBVIOUS
  <2>1. ASSUME NEW p \in DOMAIN Pages, PageStep(p)
        PROVE  SettlesInv'
    <3>1. page = p /\ page' = p /\ Config(p)!Next
      BY <2>1 DEF PageStep, Config!EffectNext
    <3>2. Settling(p) => GhostInv(p)'
      BY <3>1, GhostsKeptOut DEF SettlesInv
    <3> QED BY <3>1, <3>2 DEF SettlesInv, Settling, OneCall
  <2>2. ASSUME (\E o \in DOMAIN Offers : WalletsStep(o)) \/ WatchesStep
        PROVE  SettlesInv'
    <3>1. page' = page /\ page \notin DOMAIN Pages
      BY <2>2, PagesAssumption DEF WalletsStep, WatchesStep
    <3> QED BY <3>1 DEF SettlesInv
  <2>3. ASSUME UNCHANGED allVars
        PROVE  SettlesInv'
    <3>1. /\ UNCHANGED <<life, connections, current, status, heap, isReconnecting, task, hydration, mounted>>
          /\ page' = page
      BY <2>3 DEF allVars, vars, configVars
    <3> QED BY <3>1 DEF SettlesInv, Settling, OneCall, GhostInv, PhaseInv, CallsOK, CallOK, Calling,
                        HeapOK, Clean, Fresh, CurrentOK, Reviving, Config!Map, Config!Keys, Config!Pending
  <2> QED BY <2>1, <2>2, <2>3 DEF PagesNext
<1>3. SettlesInv => NoGhosts
  <2> SUFFICES ASSUME SettlesInv, NEW p \in Prompt, page = p, Settling(p), Config(p)!Loaded
               PROVE  /\ \A u \in Config(p)!Keys(Config(p)!Map) : u[2] = life
                      /\ Pages[p].reconnects /\ status = "connected"
                           => current \in Config(p)!Keys(Config(p)!Map)
    BY DEF NoGhosts, Settling, Prompt, Config!NoGhosts, Config!ConnectedHasConnection
  <2>1. GhostInv(p) /\ p \in DOMAIN Pages
    BY DEF SettlesInv, Prompt
  <2>2. \A t \in Pages[p].tasks : task[t].at = "idle"
    BY DEF Config!Loaded, Config!AllIdle, Config!InFlight
  <2>3. Clean(p) /\ HeapOK(p)
    BY <2>1, <2>2 DEF GhostInv, Config!Loaded, Reviving, Retrying
  <2> QED BY <2>3 DEF Clean, Fresh, CurrentOK, HeapOK, Config!Map
<1> QED BY <1>1, <1>2, <1>3, PTL DEF PagesSpec


-----------------------------------------------------------------------------
(***************************************************************************)
(* What the application hears.                                             *)
(***************************************************************************)

\* The pages of which HeardRight speaks.
Hearing(p) ==
  /\ p \in Prompt /\ Pages[p].listens /\ OneCall(p) /\ ~Pages[p].ssr /\ ~Pages[p].reconnects
  /\ {"reconnect", "disconnect", "events"} \cap Pages[p].calls = {}

\* Where a call to connect waits.
Asking == {"connect.wallet", "connect.saving"}

\* The application believes that it is connected from the first connection on, and while
\* it does there is a current connector: so a connect that is refused tells it nothing new.
ToldInv(p) ==
  /\ life \in Nat /\ told \in BOOLEAN /\ mounted \in {"no", "yes"}
  /\ \A t \in Pages[p].tasks :
       /\ task[t].at \in Asking \cup {"idle", "switch.saving"}
       /\ task[t].at = "switch.saving" => task[t].c \in Pages[p].connectors
  /\ mounted = "no" => status = "disconnected" /\ ~told
  /\ mounted = "yes" =>
       /\ told => current # None
       /\ Config(p)!Keys(Config(p)!Map) # {} => told
       /\ status \in {"connecting", "connected", "disconnected"}
       /\ status # "connecting" => (told <=> status = "connected")
       /\ status = "connecting" <=> \E t \in Pages[p].tasks : task[t].at \in Asking

\* What the callbacks then say.
LEMMA Tells ==
  ASSUME NEW p, ToldInv(p), Config(p)!Tell
  PROVE  /\ told' \in BOOLEAN
         /\ mounted = "no" \/ Config(p)!Reload => (told' <=> status' = "connected")
         /\ mounted = "yes" /\ ~Config(p)!Reload =>
              /\ status' = status => (told' <=> told)
              /\ status = "connecting" /\ status' = "connected"
                   => told' \/ (current \in Config(p)!Keys(Config(p)!Map) /\ (told' <=> told))
              /\ status' = "connecting" \/ (status = "connecting" /\ status' = "disconnected")
                   => (told' <=> told)
<1>1. ~Config(p)!EndsReconnect
  BY DEF Config!EndsReconnect, ToldInv, Asking
<1>2. CASE mounted = "no" \/ Config(p)!Reload
  <2>1. told' = (status' = "connected")
    BY <1>2 DEF Config!Tell, Config!Subscribed
  <2> QED BY <1>2, <2>1 DEF ToldInv
<1>3. CASE mounted = "yes" /\ ~Config(p)!Reload
  <2>1. status \in {"connecting", "connected", "disconnected"}
    BY <1>3 DEF ToldInv
  <2>2. /\ Config(p)!OnConnect <=> /\ status = "connecting" /\ status' = "connected"
                                   /\ current \notin Config(p)!Keys(Config(p)!Map)
        /\ Config(p)!OnDisconnect <=> status = "connected" /\ status' = "disconnected"
    BY <1>1, <2>1 DEF Config!OnConnect, Config!OnDisconnect, Config!HadAddress, Config!HasAddress
  <2>3. told' = CASE Config(p)!OnConnect -> TRUE
                  [] Config(p)!OnDisconnect -> FALSE
                  [] ~Config(p)!OnConnect /\ ~Config(p)!OnDisconnect -> told
    BY <1>3, <2>2 DEF Config!Tell, Config!Subscribed
  <2> QED BY <1>3, <2>1, <2>2, <2>3 DEF ToldInv
<1> QED BY <1>2, <1>3 DEF ToldInv

\* A call of the application goes on, is answered or begins.
LEMMA CallsTell ==
  ASSUME NEW p \in DOMAIN Pages, Hearing(p), GhostInv(p), ToldInv(p), NEW t \in Pages[p].tasks,
         Config(p)!Continue(t) \/ Config(p)!Answer(t) \/ Config(p)!Call(t), Config(p)!Tell
  PROVE  ToldInv(p)'
<1>1. /\ life' = life /\ mounted' = mounted /\ mounted = "yes" /\ life \in Nat
      /\ CallsOK(p) /\ HeapOK(p) /\ Thin(p, heap) /\ \A s \in Pages[p].tasks : s = t
      /\ None \notin Pages[p].connectors \X Nat
  <2>1. Config(p)!loadVars' = Config(p)!loadVars /\ mounted = "yes"
    BY CallsLoadNothing, CallsAreLate DEF GhostInv, Hearing, Prompt
  <2> QED BY <2>1, PagesAssumption
          DEF Config!loadVars, GhostInv, ToldInv, Hearing, OneCall, Thin, HeapOK
<1>2. /\ told' \in BOOLEAN
      /\ status' = status => (told' <=> told)
      /\ status = "connecting" /\ status' = "connected"
           => told' \/ (current \in Config(p)!Keys(Config(p)!Map) /\ (told' <=> told))
      /\ status' = "connecting" \/ (status = "connecting" /\ status' = "disconnected")
           => (told' <=> told)
  <2>1. ~Config(p)!Reload
    <3>1. Config(p)!loadVars' = Config(p)!loadVars
      BY CallsLoadNothing
    <3> QED BY <1>1, <3>1 DEF Config!Reload, Config!loadVars
  <2> QED BY <1>1, <2>1, Tells
\* What has to be shown of a step.
<1>3. ASSUME Moved(p, t), task'[t].at \in Asking \cup {"idle", "switch.saving"},
             task'[t].at = "switch.saving" => task'[t].c \in Pages[p].connectors,
             NEW m, NEW cur, NEW st, Stores(p, m, cur, st),
             told' => cur # None, Config(p)!Keys(m) # {} => told',
             st \in {"connecting", "connected", "disconnected"},
             st # "connecting" => (told' <=> st = "connected"),
             st = "connecting" <=> task'[t].at \in Asking
      PROVE  ToldInv(p)'
  <2>1. \A s \in Pages[p].tasks :
          /\ task'[s].at \in Asking \cup {"idle", "switch.saving"}
          /\ task'[s].at = "switch.saving" => task'[s].c \in Pages[p].connectors
    BY <1>1, <1>3
  <2>2. status' = "connecting" <=> \E s \in Pages[p].tasks : task'[s].at \in Asking
    BY <1>1, <1>3 DEF Stores
  <2>3. Config(p)!Keys(Config(p)!Map') # {} => told'
    BY <1>3 DEF Stores
  <2> QED BY <1>1, <1>2, <1>3, <2>1, <2>2, <2>3 DEF ToldInv, Asking, Stores, Config!Keys, Config!Map
<1>4. /\ told => current # None
      /\ Config(p)!Keys(Config(p)!Map) # {} => told
      /\ status \in {"connecting", "connected", "disconnected"}
      /\ status # "connecting" => (told <=> status = "connected")
      /\ status = "connecting" <=> task[t].at \in Asking
      /\ task[t].at \in Asking \cup {"idle", "switch.saving"}
      /\ task[t].at = "switch.saving" => task[t].c \in Pages[p].connectors
  BY <1>1 DEF ToldInv
<1>5. \A c \in Pages[p].connectors : Config(p)!U(c) # None
  BY <1>1 DEF Config!U
<1> DEFINE Map == Config(p)!Map
<1> HIDE DEF Map
<1>6. CASE Config(p)!ConnectDone(t)
  <2> DEFINE u == Config(p)!U(task[t].c)
             m == Config(p)!MapSet(Map, u, task[t].chain)
  <2>1. Moved(p, t) /\ task'[t].at = "idle"
    BY <1>1, <1>6, CallMoves
  <2>2. Config(p)!Install(heap, m, u, "connected") /\ task[t].at = "connect.saving"
    BY <1>6 DEF Config!ConnectDone, Map
  <2>3. u # None
    BY <1>1, <1>5, <2>2 DEF CallsOK, CallOK
  <2> HIDE DEF m, u
  <2>4. Stores(p, m, u, "connected") /\ status' = "connected"
    BY <1>1, <2>2, ItStores DEF Stores
  <2>5. status = "connecting"
    BY <1>4, <2>2 DEF Asking
  <2>6. told'
    BY <1>2, <1>4, <2>4, <2>5
  <2> QED BY <1>3, <2>1, <2>3, <2>4, <2>6 DEF Asking
<1>7. CASE Config(p)!ConnectFail(t)
  <2> DEFINE st == IF current # None THEN "connected" ELSE "disconnected"
  <2>1. Moved(p, t) /\ task'[t].at = "idle" /\ task[t].at = "connect.wallet"
    BY <1>1, <1>7, CallMoves DEF Config!ConnectFail
  <2>2. Stores(p, Map, current, st) /\ status' = st
    BY <1>1, <1>7, ItStores DEF Config!ConnectFail, Map, Stores
  <2>3. status = "connecting"
    BY <1>4, <2>1 DEF Asking
  <2>4. CASE current # None
    <3>1. told'
      BY <1>2, <1>4, <2>2, <2>3, <2>4
    <3> QED BY <1>3, <2>1, <2>2, <2>4, <3>1 DEF Asking
  <2>5. CASE current = None
    <3>1. st = "disconnected" /\ ~told
      BY <1>4, <2>5
    <3> HIDE DEF st
    <3>2. ~told' /\ Config(p)!Keys(Map) = {}
      BY <1>2, <1>4, <2>2, <2>3, <3>1 DEF Map
    <3> QED BY <1>3, <2>1, <2>2, <3>1, <3>2 DEF Asking
  <2> QED BY <2>4, <2>5
<1>8. CASE Config(p)!SwitchDone(t)
  <2>1. Moved(p, t) /\ task'[t].at = "idle" /\ task[t].at = "switch.saving"
    BY <1>1, <1>8, CallMoves DEF Config!SwitchDone
  <2>2. Stores(p, Map, Config(p)!U(task[t].c), status) /\ status' = status
    BY <1>1, <1>8, ItStores DEF Config!SwitchDone, Map, Stores
  <2>3. Config(p)!U(task[t].c) # None /\ status # "connecting" /\ task'[t].at \notin Asking
    BY <1>4, <1>5, <2>1 DEF Asking
  <2> QED BY <1>2, <1>3, <1>4, <2>1, <2>2, <2>3 DEF Map
<1>9. ASSUME NEW ch \in Pages[p].chains, Config(p)!ConnectAnswer(t, ch)
      PROVE  ToldInv(p)'
  <2>1. Moved(p, t) /\ task'[t].at = "connect.saving" /\ task[t].at = "connect.wallet"
    BY <1>1, <1>9, CallMoves DEF Config!ConnectAnswer
  <2>2. Stores(p, Map, current, status) /\ status' = status
    BY <1>1, <1>9, ItStores DEF Config!ConnectAnswer, Map, Stores
  <2> QED BY <1>2, <1>3, <1>4, <2>1, <2>2 DEF Map, Asking
<1>10. ASSUME NEW c \in Pages[p].connectors, Config(p)!Connect(t, c)
       PROVE  ToldInv(p)'
  <2>1. Moved(p, t) /\ task'[t].at = "connect.wallet"
    BY <1>1, <1>10, CallMoves
  <2>2. Stores(p, Map, current, "connecting") /\ status' = "connecting"
    BY <1>1, <1>10, ItStores DEF Config!Connect, Map, Stores
  <2> QED BY <1>2, <1>3, <1>4, <2>1, <2>2 DEF Map, Asking
<1>11. ASSUME NEW c \in Pages[p].connectors, Config(p)!SwitchConnection(t, c)
       PROVE  ToldInv(p)'
  <2>1. Moved(p, t) /\ task'[t].at = "switch.saving" /\ task'[t].c = c /\ task[t].at = "idle"
    BY <1>1, <1>11, CallMoves DEF Config!SwitchConnection, Config!Start, Config!InFlight
  <2>2. Stores(p, Map, current, status) /\ status' = status
    BY <1>1, <1>11, ItStores DEF Config!SwitchConnection, Map, Stores
  <2>3. status # "connecting" /\ task'[t].at \notin Asking
    BY <1>4, <2>1 DEF Asking
  <2> QED BY <1>2, <1>3, <1>4, <2>1, <2>2, <2>3 DEF Map
<1>12. task[t].at \notin {"reconnect.reading", "reconnect.trying", "disconnect.wallet"}
  BY <1>4 DEF Asking
<1> QED BY <1>6, <1>7, <1>8, <1>9, <1>10, <1>11, <1>12
        DEF Hearing, Config!Continue, Config!Answer, Config!Call, Config!ReconnectRead,
            Config!ReconnectSkip, Config!ReconnectRestore, Config!Trying, Config!DisconnectDone,
            Config!DisconnectFail

\* The page is loaded, mounts or renders again, and the application chooses a chain.
LEMMA PageTells ==
  ASSUME NEW p \in DOMAIN Pages, Hearing(p), GhostInv(p), ToldInv(p), Config(p)!Tell,
         \/ Config(p)!SwitchChains \/ Config(p)!Event \/ Config(p)!Hydrate \/ Config(p)!Page
         \/ Config(p)!Reload
  PROVE  ToldInv(p)'
<1>1. HeapOK(p) /\ Thin(p, heap) /\ PhaseInv(p)
  BY DEF GhostInv, Thin, HeapOK
<1>2. ~Config(p)!Event
  BY DEF Config!Event, Hearing
<1>3. ASSUME Config(p)!SwitchChains
      PROVE  ToldInv(p)'
  <2>1. /\ Config(p)!loadVars' = Config(p)!loadVars /\ task' = task
        /\ \E ch : Config(p)!Keep(current, status, ch)
    BY <1>3 DEF Config!SwitchChains, Config!SwitchChain
  <2>2. Stores(p, Config(p)!Map, current, status)
    BY <1>1, <2>1, ItStores
  <2>3. ~Config(p)!Reload
    BY <2>1 DEF Config!Reload, Config!loadVars, ToldInv
  <2>4. status' = status /\ current' = current /\ Config(p)!Keys(Config(p)!Map') = Config(p)!Keys(Config(p)!Map)
    BY <2>2 DEF Stores
  <2>5. told' \in BOOLEAN /\ (mounted = "yes" => (told' <=> told)) /\ (mounted = "no" => ~told')
    BY <2>3, <2>4, Tells DEF ToldInv
  <2> QED BY <2>1, <2>4, <2>5 DEF ToldInv, Config!loadVars, Config!Keys, Config!Map
<1>4. ASSUME Config(p)!Hydrate
      PROVE  ToldInv(p)'
  <2>1. /\ life' = life /\ mounted' = mounted /\ task' = task /\ mounted = "no"
        /\ \E m, ch : Config(p)!Replace(heap, m, unread.current, status, ch)
    BY <1>1, <1>4 DEF Config!Hydrate, PhaseInv, ToldInv
  <2>2. status' = "disconnected"
    BY <2>1 DEF Config!Replace, Config!SetState, ToldInv
  <2>3. told' \in BOOLEAN /\ ~told'
    BY <2>1, <2>2, Tells
  <2> QED BY <2>1, <2>2, <2>3 DEF ToldInv
<1>5. ~Config(p)!Render /\ ~Config(p)!MountSsr
  BY DEF Hearing, Config!Render, Config!MountSsr
<1>6. ASSUME NEW t, Config(p)!MountClient(t) \/ Config(p)!MountResume(t)
      PROVE  ToldInv(p)'
  <2>1. /\ life' = life /\ mounted' = "yes" /\ task' = task
        /\ Config(p)!Install(heap, Config(p)!EmptyMap, current, status)
    BY <1>6 DEF Config!MountClient, Config!MountResume, Config!Mounting, Hearing
  <2>2. Stores(p, Config(p)!EmptyMap, current, status)
    BY <1>1, <2>1, ItStores
  <2>3. status' = status /\ current' = current /\ Config(p)!Keys(Config(p)!Map') = {}
    BY <2>2, MapKeys DEF Stores
  <2>4. ~Config(p)!Reload
    BY <2>1 DEF Config!Reload
  <2>5. told' \in BOOLEAN /\ (mounted = "yes" => (told' <=> told)) /\ (mounted = "no" => ~told')
    BY <2>3, <2>4, Tells DEF ToldInv
  <2>6. CASE mounted = "no"
    <3>1. \A s \in Pages[p].tasks : task[s].at \notin Asking
      BY <1>1, <2>6 DEF PhaseInv, Asking
    <3> QED BY <2>1, <2>3, <2>5, <2>6, <3>1 DEF ToldInv, Config!Keys, Config!Map
  <2>7. CASE mounted = "yes"
    BY <2>1, <2>3, <2>5, <2>7 DEF ToldInv, Config!Keys, Config!Map
  <2> QED BY <2>6, <2>7 DEF ToldInv
<1>7. ASSUME Config(p)!Reload
      PROVE  ToldInv(p)'
  <2>1. /\ life' = life + 1 /\ mounted' = "no" /\ status' = "disconnected"
        /\ \A t \in Pages[p].tasks : task'[t].at = "idle"
    BY <1>7, IdleHere DEF Config!Reload
  <2>2. told' \in BOOLEAN /\ ~told'
    BY <1>7, <2>1, Tells
  <2> QED BY <2>1, <2>2 DEF ToldInv
<1> QED BY <1>2, <1>3, <1>4, <1>5, <1>6, <1>7 DEF Config!Page

\* The invariants, of whichever page it is.
HearingInv == \A p \in DOMAIN Pages : page = p /\ Hearing(p) => GhostInv(p) /\ ToldInv(p)

\* What an application believes that goes by the callbacks is so once everything settled.
THEOREM ApplicationsHear == PagesSpec => []HeardRight
<1>1. PageInit \/ WalletsInit \/ WatchesInit => HearingInv
  <2>1. ASSUME NEW p \in DOMAIN Pages, PageInit, page = p
        PROVE  GhostInv(p) /\ ToldInv(p)
    <3>1. Config(p)!Init /\ told = FALSE
      BY <2>1 DEF PageInit, Config!EffectInit
    <3>2. \A t \in Pages[p].tasks : task[t].at = "idle"
      BY <3>1, IdleHere DEF Config!Init
    <3>3. ToldInv(p)
      BY <3>1, <3>2 DEF Config!Init, ToldInv
    <3> QED BY <3>1, <3>3, GhostsInit
  <2> QED BY <2>1, PagesAssumption DEF PageInit, WalletsInit, WatchesInit, HearingInv
<1>2. HearingInv /\ [PagesNext]_allVars => HearingInv'
  <2> SUFFICES ASSUME HearingInv, [PagesNext]_allVars
               PROVE  HearingInv'
    OBVIOUS
  <2>1. ASSUME NEW p \in DOMAIN Pages, PageStep(p)
        PROVE  HearingInv'
    <3>1. page = p /\ page' = p /\ Config(p)!Next
      BY <2>1 DEF PageStep, Config!EffectNext
    <3>2. Pages[p].listens => Config(p)!Tell
      BY <2>1 DEF PageStep, Config!EffectNext
    <3>3. ASSUME Hearing(p)
          PROVE  GhostInv(p)' /\ ToldInv(p)'
      <4>1. GhostInv(p) /\ ToldInv(p) /\ Config(p)!Tell /\ Settling(p)
        BY <3>1, <3>2, <3>3 DEF HearingInv, Hearing, Settling, Prompt
      <4>2. GhostInv(p)'
        BY <3>1, <4>1, GhostsKeptOut
      <4>3. ToldInv(p)'
        BY <3>1, <3>3, <4>1, CallsTell, PageTells DEF Config!Next
      <4> QED BY <4>2, <4>3
    <3> QED BY <3>1, <3>3 DEF HearingInv, Hearing, Prompt, OneCall
  <2>2. ASSUME (\E o \in DOMAIN Offers : WalletsStep(o)) \/ WatchesStep
        PROVE  HearingInv'
    <3>1. page' = page /\ page \notin DOMAIN Pages
      BY <2>2, PagesAssumption DEF WalletsStep, WatchesStep
    <3> QED BY <3>1 DEF HearingInv
  <2>3. ASSUME UNCHANGED allVars
        PROVE  HearingInv'
    <3>1. /\ UNCHANGED <<life, connections, current, status, heap, isReconnecting, task, hydration,
                         mounted, told>>
          /\ page' = page
      BY <2>3 DEF allVars, vars, configVars
    <3>2. \A p : (GhostInv(p) => GhostInv(p)') /\ (ToldInv(p) => ToldInv(p)')
      BY <3>1 DEF GhostInv, PhaseInv, CallsOK, CallOK, Calling, HeapOK, Clean, Fresh, CurrentOK, Reviving,
                  ToldInv, Config!Map, Config!Keys, Config!Pending
    <3> QED BY <3>1, <3>2 DEF HearingInv, Hearing, Prompt, OneCall
  <2> QED BY <2>1, <2>2, <2>3 DEF PagesNext
<1>3. HearingInv => HeardRight
  <2> SUFFICES ASSUME HearingInv, NEW p \in Prompt, page = p, Hearing(p), Config(p)!Loaded
               PROVE  told <=> status = "connected"
    BY DEF HeardRight, Hearing, Config!HeardRight
  <2>1. ToldInv(p)
    BY DEF HearingInv, Prompt
  <2>2. \A t \in Pages[p].tasks : task[t].at \notin Asking
    BY DEF Config!Loaded, Config!AllIdle, Config!InFlight, Asking
  <2> QED BY <2>1, <2>2 DEF ToldInv, Config!Loaded
<1> QED BY <1>1, <1>2, <1>3, PTL DEF PagesSpec
=============================================================================
