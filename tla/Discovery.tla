------------------------------ MODULE Discovery ------------------------------
(***************************************************************************)
(* Which wallets a Config lists (createConfig.ts, hydrate.ts): wallets     *)
(* announce themselves by EIP-6963 at any time, before the Config exists,  *)
(* while storage is read, and later; each becomes a connector unless the   *)
(* application configured one that stands for it, or the list has one with *)
(* its id.                                                                 *)
(*                                                                         *)
(* The store of announcements (mipd) is external: it keeps every           *)
(* announcement and tells its listener of all of them each time.           *)
(***************************************************************************)
EXTENDS Integers

CONSTANTS
    Wallets,        \* announcements
    Ids,            \* reverse domain names
    Rdns,           \* the one of each announcement
    Claimed,        \* those that configured connectors stand for (rdns)
    Ssr,            \* createConfig({ ssr })
    AsyncStorage,   \* TRUE: storage answers in a later turn
    MaxMounts,      \* bound: how often the provider component mounts
    MaxSetups       \* bound: connectors made of one announcement

\* What the constants are (checked where they get their values).
DiscoveryAssumption ==
    /\ Rdns \in [Wallets -> Ids]
    /\ Claimed \subseteq Ids
    /\ {Ssr, AsyncStorage} \subseteq BOOLEAN
    /\ {MaxMounts, MaxSetups} \subseteq Nat

VARIABLES
    announced,  \* mipd.getProviders()
    listed,     \* how many connectors of the list are of an announcement
    made,       \* how many were set up: they listen to their wallet for good
    atOnce,     \* (history) listed by createConfig or by a mount, all in one go
    hydration,  \* the persist middleware: "idle", "reading", "done"
    mounts,     \* how often the provider component mounted
    mounting    \* onMount waits for storage

vars == <<announced, listed, made, atOnce, hydration, mounts, mounting>>

Unclaimed(ws) == {w \in ws : Rdns[w] \notin Claimed}

\* Connectors of the list by their id, which is the rdns.
ListedIds == {Rdns[w] : w \in {x \in Wallets : listed[x] > 0}}

Add(f, ws) == [w \in Wallets |-> f[w] + IF w \in ws THEN 1 ELSE 0]

\* Mistake: ids already in the list are not looked at
NewOnlyClaimed(ws) == Unclaimed(ws)

\* What the subscription adds: ids of the list are skipped, but only once the
\* connector was made.
New(ws) == {w \in Unclaimed(ws) : Rdns[w] \notin ListedIds}

\* A promise of synchronous storage is settled before the next event.
Quiet == AsyncStorage \/ hydration # "reading"

-----------------------------------------------------------------------------
\* createConfig: what announced itself by then is listed, but not with ssr; only
\* names of configured connectors are looked at.
Init ==
    /\ announced \in SUBSET Wallets
    /\ listed = [w \in Wallets |-> IF ~Ssr /\ w \in Unclaimed(announced) THEN 1 ELSE 0]
    /\ made = listed
    /\ atOnce = {w \in Wallets : listed[w] > 0}
    /\ hydration = IF Ssr THEN "idle" ELSE "reading"
    /\ mounts = 0 /\ mounting = FALSE

\* A wallet announces itself.  A connector is made of every announcement so far.
Announce(w) ==
    /\ Quiet /\ w \notin announced
    /\ announced' = announced \cup {w}
    /\ \A v \in Wallets : made[v] < MaxSetups
    /\ made' = Add(made, Unclaimed(announced'))
    /\ listed' = IF hydration = "done" THEN Add(listed, New(announced')) ELSE listed
    /\ UNCHANGED <<atOnce, hydration, mounts, mounting>>

Hydrated ==
    /\ hydration = "reading"
    /\ hydration' = "done"
    /\ ~mounting
    /\ UNCHANGED <<announced, listed, made, atOnce, mounts, mounting>>

\* onMount of a server rendered page starts to read storage.
Mount ==
    /\ Ssr /\ Quiet /\ ~mounting /\ mounts < MaxMounts
    /\ \A v \in Wallets : made[v] < MaxSetups
    /\ mounts' = mounts + 1
    /\ mounting' = TRUE
    /\ hydration' = "reading"
    /\ UNCHANGED <<announced, listed, made, atOnce>>

\* ... and when it is there lists every announcement.
MountDone ==
    /\ mounting /\ hydration = "reading"
    /\ hydration' = "done" /\ mounting' = FALSE
    /\ listed' = Add(listed, Unclaimed(announced))
    /\ made' = Add(made, Unclaimed(announced))
    /\ atOnce' = atOnce \cup Unclaimed(announced)
    /\ UNCHANGED <<announced, mounts>>

Next ==
    \/ \E w \in Wallets : Announce(w)
    \/ Hydrated \/ Mount \/ MountDone

\* Storage answers, and a page that was rendered mounts.
Spec ==
    /\ Init /\ [][Next]_vars
    /\ WF_vars(Hydrated) /\ WF_vars(MountDone) /\ WF_vars(mounts = 0 /\ Mount)

-----------------------------------------------------------------------------
\* The types of the variables; what is listed was set up.
TypeOK ==
    /\ announced \subseteq Wallets
    /\ listed \in [Wallets -> 0..MaxSetups] /\ made \in [Wallets -> 0..MaxSetups]
    /\ \A w \in Wallets : listed[w] <= made[w]
    /\ atOnce \subseteq announced
    /\ hydration \in {"idle", "reading", "done"}
    /\ mounts \in 0..MaxMounts /\ mounting \in BOOLEAN

\* A wallet is offered once, however often it announces itself, and not at all
\* when the application has a connector that stands for it.  Two of one name are
\* both offered only if both had announced themselves when the list was made:
\* neither createConfig nor onMount compares the announcements it lists.
OfferedOnce ==
    /\ \A v, w \in Wallets : listed[v] > 0 /\ listed[w] > 0 /\ Rdns[v] = Rdns[w] =>
         v = w \/ {v, w} \subseteq atOnce
    /\ \A w \in Wallets : listed[w] <= IF Rdns[w] \in Claimed THEN 0 ELSE 1

\* Once storage was read every announced wallet is offered.
Offered == hydration = "done" => \A w \in announced : Rdns[w] \in Claimed \cup ListedIds

=============================================================================
