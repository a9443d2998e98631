------------------------------ MODULE KeyProofs ------------------------------
(***************************************************************************)
(* What the connectors of Tempo keep true: the one with keys in storage    *)
(* for any number of tabs and accounts, and the one with passkeys and      *)
(* their access keys in every setting.  Last, what the connectors keep of  *)
(* what was agreed to.                                                     *)
(***************************************************************************)
EXTENDS ConnectorProofs

-----------------------------------------------------------------------------
(* Keys in storage (Secp256k1). *)

\* What storage tells: an account that any tab has was written down as the last
\* one, and the last one can be signed for.
Written ==
    /\ lastActive # None => lastActive \in keys \cup {Given}
    /\ \A t \in Tabs : account[t] # None => lastActive # None

\* While pages reconnect by themselves, a tab with an account is connected as it.
Together ==
    ReconnectOnMount => \A t \in Tabs : account[t] # None => connection[t] = account[t]

\* The inductive invariant.
IInv == TypeOK /\ ActiveIsUsable /\ Written /\ Together /\ NothingIsLeft

LEMMA InitOK == Init => IInv
BY DEF Init, IInv, TypeOK, ActiveIsUsable, Written, Together, NothingIsLeft

\* connect takes the last account with its key or the one of the options: the
\* account of the tab alone is never enough, or a last one would be missing.
LEMMA ChosenOK ==
    ASSUME IInv, NEW t \in Tabs, NEW acc, acc = account[t] \/ acc = AtSetup, Chosen(acc) # None
    PROVE  /\ Chosen(acc) \in Accounts
           /\ \/ lastActive \in keys /\ Chosen(acc) = lastActive
              \/ lastActive \notin keys /\ Given # None /\ Chosen(acc) = Given
<1>1. CASE lastActive \in keys
  BY <1>1 DEF IInv, TypeOK, Chosen
<1>2. CASE lastActive \notin keys /\ Given # None
  <2>1. Chosen(acc) = Given
    BY <1>2 DEF Chosen
  <2>2. QED
    BY <2>1, <1>2, Secp256k1Assumption
<1>3. CASE lastActive \notin keys /\ Given = None
  <2>1. Chosen(acc) = acc
    BY <1>3 DEF Chosen
  <2>2. lastActive = None
    BY <1>3 DEF IInv, Written
  <2>3. active = None
    BY <2>2 DEF IInv, ActiveIsUsable
  <2>4. AtSetup = None
    BY <2>3, Secp256k1Assumption DEF AtSetup, IInv, TypeOK
  <2>5. account[t] = None
    BY <2>2 DEF IInv, Written
  <2>6. QED
    BY <2>1, <2>4, <2>5
<1>4. QED
  BY <1>1, <1>2, <1>3

LEMMA SignInOK ==
    ASSUME IInv, NEW t \in Tabs, NEW acc, acc = account[t] \/ acc = AtSetup, SignIn(t, acc)
    PROVE  IInv'
<1> DEFINE a == Chosen(acc)
<1>1. /\ a # None
      /\ account' = [account EXCEPT ![t] = a]
      /\ connection' = [connection EXCEPT ![t] = a]
      /\ active' = a
      /\ lastActive' = IF lastActive \notin keys /\ Given # None THEN a ELSE lastActive
      /\ keys' = keys
  BY DEF SignIn
<1>2. a \in Accounts /\ (\/ lastActive \in keys /\ a = lastActive
                         \/ lastActive \notin keys /\ Given # None /\ a = Given)
  BY <1>1, ChosenOK
<1> HIDE DEF a
<1>3. lastActive' = a /\ a \in keys \cup {Given}
  BY <1>1, <1>2
<1>4. TypeOK'
  BY <1>1, <1>2, <1>3 DEF IInv, TypeOK
<1>5. ActiveIsUsable'
  BY <1>1, <1>3 DEF ActiveIsUsable
<1>6. Written'
  BY <1>1, <1>3 DEF Written
<1>7. Together'
  BY <1>1 DEF IInv, TypeOK, Together
<1>8. NothingIsLeft'
  <2>1. connection'[t] # None
    BY <1>1 DEF IInv, TypeOK
  <2>2. QED
    BY <2>1 DEF NothingIsLeft
<1>9. QED
  BY <1>4, <1>5, <1>6, <1>7, <1>8 DEF IInv

LEMMA SignUpOK ==
    ASSUME IInv, NEW t \in Tabs, SignUp(t)
    PROVE  IInv'
<1>1. PICK a \in Accounts \ (keys \cup {Given}) :
         /\ keys' = keys \cup {a}
         /\ active' = a /\ lastActive' = a
         /\ connection' = [connection EXCEPT ![t] = a]
  BY DEF SignUp
<1>2. connection[t] = None /\ account' = account
  BY DEF SignUp
<1>3. a # None
  BY Secp256k1Assumption
<1>4. TypeOK'
  BY <1>1, <1>2 DEF IInv, TypeOK
<1>5. ActiveIsUsable' /\ Written'
  BY <1>1, <1>3 DEF ActiveIsUsable, Written
<1>6. Together'
  <2> SUFFICES ASSUME ReconnectOnMount, NEW v \in Tabs, account'[v] # None
               PROVE  connection'[v] = account'[v]
    BY DEF Together
  <2>1. connection[v] = account[v] /\ account[v] # None
    BY <1>2 DEF IInv, Together
  <2>2. v # t
    BY <2>1, <1>2
  <2>3. QED
    BY <1>1, <1>2, <2>1, <2>2 DEF IInv, TypeOK
<1>7. NothingIsLeft'
  <2>1. connection'[t] # None
    BY <1>1, <1>3 DEF IInv, TypeOK
  <2>2. QED
    BY <2>1 DEF NothingIsLeft
<1>8. QED
  BY <1>4, <1>5, <1>6, <1>7 DEF IInv

LEMMA DisconnectOK ==
    ASSUME IInv, NEW t \in Tabs, Disconnect(t)
    PROVE  IInv'
<1>1. /\ active' = None /\ keys' = keys /\ lastActive' = lastActive
      /\ account' = [account EXCEPT ![t] = None]
      /\ connection' = [connection EXCEPT ![t] = None]
  BY DEF Disconnect
<1>2. TypeOK'
  BY <1>1 DEF IInv, TypeOK
<1>3. ActiveIsUsable' /\ NothingIsLeft'
  BY <1>1 DEF ActiveIsUsable, NothingIsLeft
<1>4. \A v \in Tabs : account'[v] # None =>
          account'[v] = account[v] /\ connection'[v] = connection[v]
  BY <1>1 DEF IInv, TypeOK
<1>5. Written' /\ Together'
  BY <1>1, <1>4 DEF IInv, Written, Together
<1>6. QED
  BY <1>2, <1>3, <1>5 DEF IInv

LEMMA SetupOK ==
    ASSUME IInv
    PROVE  AtSetup = active
BY Secp256k1Assumption DEF IInv, TypeOK, ActiveIsUsable, AtSetup

LEMMA LoadOK ==
    ASSUME IInv, NEW t \in Tabs, Load(t)
    PROVE  IInv'
<1>1. CASE AtSetup # None /\ ReconnectOnMount
  BY <1>1, SignInOK DEF Load
<1>2. CASE ~(AtSetup # None /\ ReconnectOnMount)
  <2>1. /\ account' = [account EXCEPT ![t] = active]
        /\ connection' = [connection EXCEPT ![t] = None]
        /\ keys' = keys /\ active' = active /\ lastActive' = lastActive
    BY <1>2, SetupOK DEF Load, storage
  <2>2. TypeOK' /\ ActiveIsUsable'
    BY <2>1 DEF IInv, TypeOK, ActiveIsUsable
  <2>3. account'[t] = active
    BY <2>1 DEF IInv, TypeOK
  <2>4. \A v \in Tabs : v # t =>
            account'[v] = account[v] /\ connection'[v] = connection[v]
    BY <2>1 DEF IInv, TypeOK
  <2>5. active # None => lastActive # None
    BY DEF IInv, ActiveIsUsable
  <2>6. Written'
    <3>1. \A v \in Tabs : account'[v] # None => lastActive # None
      BY <2>3, <2>4, <2>5 DEF IInv, Written
    <3>2. QED
      BY <2>1, <3>1 DEF IInv, Written
  <2>7. Together'
    <3> SUFFICES ASSUME ReconnectOnMount, NEW v \in Tabs, account'[v] # None
                 PROVE  connection'[v] = account'[v]
      BY DEF Together
    <3>1. active = None
      BY <1>2, SetupOK
    <3>2. v # t
      BY <3>1, <2>3
    <3>3. QED
      BY <3>2, <2>4 DEF IInv, Together
  <2>8. NothingIsLeft'
    BY <2>1, <2>3 DEF NothingIsLeft
  <2>9. QED
    BY <2>2, <2>6, <2>7, <2>8 DEF IInv
<1>3. QED
  BY <1>1, <1>2

LEMMA StepOK == IInv /\ [Next]_vars => IInv'
<1> SUFFICES ASSUME IInv, [Next]_vars PROVE IInv'
  OBVIOUS
<1>1. CASE UNCHANGED vars
  BY <1>1 DEF vars, storage, IInv, TypeOK, ActiveIsUsable, Written, Together, NothingIsLeft
<1>2. ASSUME NEW t \in Tabs, Connect(t) PROVE IInv'
  BY <1>2, SignInOK DEF Connect
<1>3. ASSUME NEW t \in Tabs, SignUp(t) PROVE IInv'
  BY <1>3, SignUpOK
<1>4. ASSUME NEW t \in Tabs, Disconnect(t) PROVE IInv'
  BY <1>4, DisconnectOK
<1>5. ASSUME NEW t \in Tabs, Load(t) PROVE IInv'
  BY <1>5, LoadOK
<1>6. QED
  BY <1>1, <1>2, <1>3, <1>4, <1>5 DEF Next

LEMMA Invariant == Spec => []IInv
BY InitOK, StepOK, PTL DEF Spec

-----------------------------------------------------------------------------
\* Storage and tabs hold accounts, whatever tabs connect, load and leave.
THEOREM TypeCorrect == Spec => []TypeOK
BY Invariant, PTL DEF IInv

\* What storage calls active can be signed for by the key in storage or by the
\* options, after any sequence of connects of any tabs (connect, setup).
THEOREM ActiveCanSign == Spec => []ActiveIsUsable
BY Invariant, PTL DEF IInv

\* The last tab that leaves takes the active account with it: no page load
\* connects it again (disconnect).
THEOREM LeavingIsFinal == Spec => []NothingIsLeft
BY Invariant, PTL DEF IInv

LEMMA TogetherIsEnough ==
    ASSUME IInv, ReconnectOnMount
    PROVE  NeverSignsForAnother
BY Secp256k1Assumption DEF IInv, Together, NeverSignsForAnother

\* While pages reconnect by themselves, no tab signs for an account other than
\* the one it is connected as (connect, disconnect, getClient).
THEOREM SignsForItself ==
    ASSUME ReconnectOnMount
    PROVE  Spec => []NeverSignsForAnother
<1>1. IInv => NeverSignsForAnother
  BY TogetherIsEnough
<1>2. QED
  BY <1>1, Invariant, PTL
-----------------------------------------------------------------------------
(* Passkeys and access keys (WebAuthn). *)

\* The settings of a passkey scene.
OfPasskey(k) == k \in DOMAIN Passkeys /\ Passkey(k)!WebAuthnAssumption

Passkeyed == {"a", "b"}
CredOrNone == Passkeyed \cup {None}
KeyOrNone(k) == Passkeys[k].keys \cup {None}
PromptSet(k) == [at : {"idle", "create", "get", "authorize", "send"}, cred : CredOrNone,
                 key : KeyOrNone(k), auth : KeyOrNone(k), good : BOOLEAN]

\* The types of the variables of a passkey scene.
KeyTypes(k) ==
  LET its == Passkeys[k] IN
  /\ now \in Nat /\ known \subseteq Passkeyed
  /\ active \in CredOrNone /\ lastActive \in CredOrNone /\ agreed \in CredOrNone
  /\ database \in [Passkeyed -> [key : KeyOrNone(k), expiry : Nat]]
  /\ pending \in [Passkeyed -> KeyOrNone(k)] /\ authorised \subseteq its.keys
  /\ until \in [its.keys -> Nat]
  /\ signer \in [its.tabs -> CredOrNone] /\ login \in [its.tabs -> CredOrNone]
  /\ accessKey \in [its.tabs -> [cred : CredOrNone, key : KeyOrNone(k)]]
  /\ expiry \in [its.tabs -> Nat] /\ prompt \in [its.tabs -> PromptSet(k)]

\* A prompt belongs to a connect; without the option there are no keys.
PromptInv(k) == LET its == Passkeys[k] IN
  \A t \in its.tabs :
    /\ prompt[t].at \in {"create", "get", "authorize"} => login[t] = None
    /\ prompt[t].at = "authorize" =>
         /\ its.grants /\ prompt[t].cred # None /\ prompt[t].key # None
         /\ accessKey[t] = [cred |-> prompt[t].cred, key |-> prompt[t].key]
    /\ accessKey[t].cred # None => its.grants /\ accessKey[t].key # None
    /\ login[t] # None \/ prompt[t].at = "authorize" => signer[t] # None
    /\ prompt[t].key # None => its.grants

\* While no key expires: who signs, and with what.
TimelessInv(k) == LET its == Passkeys[k] IN its.time = 0 =>
  /\ now = 0
  /\ \A t \in its.tabs : login[t] # None =>
       /\ its.strict => accessKey[t].cred = login[t]
       /\ ~ its.grants => signer[t] = login[t]
  /\ \A t \in its.tabs : prompt[t].at = "send" =>
       /\ its.strict => prompt[t].key # None
       /\ login[t] # None /\ (its.grants => its.strict) => prompt[t].cred = login[t]

\* The access key of the only tab is the one the database has.
OwnKeyInv(k) == LET its == Passkeys[k] IN
  Single(its.tabs) /\ (its.refusals => its.strict) =>
    \A t \in its.tabs :
      /\ prompt[t].at # "authorize" /\ accessKey[t].cred # None
      /\ login[t] # None \/ ~ its.refusals
      => accessKey[t].key = database[accessKey[t].cred].key

\* The chain knows that key, or the authorisation waits, or it has expired, or the
\* authorisation is on its way.
VouchedInv(k) == LET its == Passkeys[k] IN
  Single(its.tabs) /\ ~ its.failures /\ (its.refusals => its.strict) =>
    /\ \A c \in Passkeyed : database[c].key # None =>
         \/ database[c].key \in authorised \cup {pending[c]}
         \/ database[c].expiry < now
         \/ \E t \in its.tabs : prompt[t].at = "send" /\ prompt[t].auth = database[c].key
    /\ \A t \in its.tabs : prompt[t].at = "send" /\ prompt[t].key # None =>
         prompt[t].key \in authorised \cup {prompt[t].auth}

\* The database has the expiry a key was authorised with, and no key twice.
DatedInv(k) == LET its == Passkeys[k] IN
  Single(its.tabs) /\ ~ its.refusals =>
    /\ \A c \in Passkeyed : database[c].key # None => until[database[c].key] = database[c].expiry
    /\ \A c, d \in Passkeyed : database[c].key # None /\ database[c].key = database[d].key => c = d
    /\ \A t \in its.tabs : prompt[t].at = "authorize" =>
         \A c \in Passkeyed : database[c].key = prompt[t].key => c = prompt[t].cred
    /\ \A t \in its.tabs : prompt[t].at = "send" => prompt[t].good

\* Storage has the passkey the user agreed to, or is about to.
AgreedInv(k) == LET its == Passkeys[k] IN
  Single(its.tabs) /\ ~ its.refusals =>
    \A t \in its.tabs :
      IF prompt[t].at = "authorize" THEN active = prompt[t].cred ELSE active \in {None, agreed}

KeyInv(k) ==
  /\ KeyTypes(k) /\ PromptInv(k) /\ TimelessInv(k) /\ OwnKeyInv(k) /\ VouchedInv(k)
  /\ DatedInv(k) /\ AgreedInv(k)

\* The client of c signs with key q.
Signs(k, t, c, q) ==
  /\ prompt' = [prompt EXCEPT ![t] = [at |-> "send", cred |-> c, key |-> q, auth |-> pending[c],
                                      good |-> (q # None => ~ Passkey(k)!Expired(until[q]))]]
  /\ pending' = [pending EXCEPT ![c] = None]
  /\ active' = active /\ signer' = signer /\ login' = login

\* The key c has expired: strict options disconnect, others sign with the passkey.
Leaves(t, c) ==
  /\ pending' = [pending EXCEPT ![c] = None]
  /\ active' = None
  /\ signer' = [signer EXCEPT ![t] = None]
  /\ login' = [login EXCEPT ![t] = None]
  /\ prompt' = prompt

FallsBack(t, c) ==
  /\ prompt' = [prompt EXCEPT ![t] =
       [at |-> "send", cred |-> signer[t], key |-> None,
        auth |-> IF signer[t] = c THEN None ELSE pending[signer[t]], good |-> TRUE]]
  /\ pending' = [x \in Passkeyed |-> IF x \in {c, signer[t]} THEN None ELSE pending[x]]
  /\ active' = active /\ signer' = signer /\ login' = login

\* The three outcomes of a transaction being prepared.
LEMMA SendIs ==
  ASSUME NEW k, NEW t, Passkey(k)!Send(t)
  PROVE  /\ prompt[t].at = "idle" /\ login[t] # None
         /\ now' = now /\ known' = known /\ lastActive' = lastActive /\ database' = database
         /\ authorised' = authorised /\ until' = until /\ accessKey' = accessKey
         /\ expiry' = expiry /\ agreed' = agreed
         /\ \/ accessKey[t].cred = None /\ Signs(k, t, signer[t], None)
            \/ /\ accessKey[t].cred # None /\ Passkey(k)!StillGood(accessKey[t].cred)
               /\ Signs(k, t, accessKey[t].cred, accessKey[t].key)
            \/ /\ accessKey[t].cred # None /\ ~ Passkey(k)!StillGood(accessKey[t].cred)
               /\ Passkeys[k].strict /\ Leaves(t, accessKey[t].cred)
            \/ /\ accessKey[t].cred # None /\ ~ Passkey(k)!StillGood(accessKey[t].cred)
               /\ ~ Passkeys[k].strict /\ FallsBack(t, accessKey[t].cred)
<1>1. /\ prompt[t].at = "idle" /\ login[t] # None
      /\ now' = now /\ known' = known /\ lastActive' = lastActive /\ database' = database
      /\ authorised' = authorised /\ until' = until /\ accessKey' = accessKey
      /\ expiry' = expiry /\ agreed' = agreed
  BY DEF Passkey!Send, Passkey!Idle
<1>2. ASSUME NEW c, NEW q, Passkey(k)!Prepare(t, c, q), active' = active, signer' = signer,
             login' = login
      PROVE  Signs(k, t, c, q)
  <2> DEFINE good == q # None => ~ Passkey(k)!Expired(until[q])
  <2>1. [Passkey(k)!Job("send", c, q, pending[c]) EXCEPT !.good = good]
          = [at |-> "send", cred |-> c, key |-> q, auth |-> pending[c], good |-> good]
    BY DEF Passkey!Job
  <2> QED BY <1>2, <2>1, Zenon DEF Passkey!Prepare, Signs
<1>3. CASE accessKey[t].cred = None
  BY <1>1, <1>2, <1>3 DEF Passkey!Send
<1>4. CASE accessKey[t].cred # None /\ Passkey(k)!StillGood(accessKey[t].cred)
  BY <1>1, <1>2, <1>4 DEF Passkey!Send
<1>5. CASE /\ accessKey[t].cred # None /\ ~ Passkey(k)!StillGood(accessKey[t].cred)
           /\ Passkeys[k].strict
  BY <1>1, <1>5 DEF Passkey!Send, Passkey!Left, Leaves
<1>6. CASE /\ accessKey[t].cred # None /\ ~ Passkey(k)!StillGood(accessKey[t].cred)
           /\ ~ Passkeys[k].strict
  BY <1>1, <1>6 DEF Passkey!Send, Passkey!Job, FallsBack, Passkeyed
<1> QED BY <1>3, <1>4, <1>5, <1>6

\* A connect without a key returns at once, another asks the user to sign for it.
Returned(t, c) ==
  /\ prompt' = [prompt EXCEPT ![t] = [at |-> "idle", cred |-> None, key |-> None, auth |-> None,
                                      good |-> TRUE]]
  /\ login' = [login EXCEPT ![t] = c]
  /\ agreed' = c /\ accessKey' = accessKey

Asked(t, c, q) ==
  /\ prompt' = [prompt EXCEPT ![t] = [at |-> "authorize", cred |-> c, key |-> q, auth |-> None,
                                      good |-> TRUE]]
  /\ accessKey' = [accessKey EXCEPT ![t] = [cred |-> c, key |-> q]]
  /\ login' = login /\ agreed' = agreed

\* The two outcomes of a connect that has its passkey.
LEMMA ProvisionIs ==
  ASSUME NEW k, NEW t, NEW c, NEW q, Passkey(k)!Provision(t, c, q)
  PROVE  (q = None /\ Returned(t, c)) \/ (q # None /\ Asked(t, c, q))
<1>1. CASE q = None
  <2> DEFINE j == [at |-> "idle", cred |-> None, key |-> None, auth |-> None, good |-> TRUE]
  <2>1. Passkey(k)!IdleJob = j
    BY DEF Passkey!Job, Passkey!IdleJob
  <2>2. /\ prompt' = [prompt EXCEPT ![t] = j]
        /\ login' = [login EXCEPT ![t] = c] /\ agreed' = c /\ accessKey' = accessKey
    BY <1>1, <2>1 DEF Passkey!Provision
  <2> HIDE DEF j
  <2>3. Returned(t, c)
    BY <2>2 DEF Returned, j
  <2> QED BY <1>1, <2>3
<1>2. CASE q # None
  BY <1>2 DEF Passkey!Provision, Passkey!Job, Passkey!AccessKey, Asked
<1> QED BY <1>1, <1>2

\* One tab's call is another.
LEMMA PromptMoves ==
  ASSUME NEW k, KeyTypes(k), NEW t \in Passkeys[k].tabs, NEW j \in PromptSet(k),
         prompt' = [prompt EXCEPT ![t] = j]
  PROVE  /\ prompt' \in [Passkeys[k].tabs -> PromptSet(k)]
         /\ prompt'[t] = j /\ \A u \in Passkeys[k].tabs : u # t => prompt'[u] = prompt[u]
  BY DEF KeyTypes

\* The user is asked for a passkey.
LEMMA PasskeySignUp ==
  ASSUME NEW k, OfPasskey(k), KeyInv(k), NEW t \in Passkeys[k].tabs, Passkey(k)!SignUp(t)
  PROVE  KeyInv(k)'
<1> USE DEF Passkey!SignUp, Passkey!MayConnect, Passkey!Idle, Passkey!Job, Passkey!stored,
        Passkey!Expired, OfPasskey, Passkey!WebAuthnAssumption, KeyTypes, PromptSet, KeyOrNone,
        CredOrNone, Passkeyed, KeyInv
<1>1. KeyTypes(k)'
  OBVIOUS
<1>2. PromptInv(k)'
  BY ZenonT(60) DEF PromptInv
<1>3. TimelessInv(k)'
  BY DEF TimelessInv, PromptInv
<1>4. OwnKeyInv(k)'
  BY DEF OwnKeyInv, PromptInv, Single
<1>5. VouchedInv(k)'
  BY DEF VouchedInv, PromptInv, OwnKeyInv, Single
<1>6. DatedInv(k)'
  BY DEF DatedInv, PromptInv, OwnKeyInv, Single
<1>7. AgreedInv(k)'
  BY DEF AgreedInv, PromptInv, Single
<1> QED BY <1>1, <1>2, <1>3, <1>4, <1>5, <1>6, <1>7

\* A passkey is made; with the option a key as well, that the user is to sign for.
LEMMA PasskeyCreated ==
  ASSUME NEW k, OfPasskey(k), KeyInv(k), NEW t \in Passkeys[k].tabs, Passkey(k)!Created(t)
  PROVE  KeyInv(k)'
<1>1. PICK c \in Passkeyed \ known, q \in KeyOrNone(k) :
        /\ (q # None <=> Passkeys[k].grants)
        /\ q # None => \A d \in Passkeyed : database[d].key # q
        /\ prompt[t].at = "create" /\ known' = known \cup {c} /\ active' = c /\ lastActive' = c
        /\ signer' = [signer EXCEPT ![t] = c] /\ Passkey(k)!Provision(t, c, q)
        /\ now' = now /\ database' = database /\ pending' = pending /\ authorised' = authorised
        /\ until' = until /\ expiry' = expiry
  BY DEF Passkey!Created, Passkey!Chosen, Passkey!Fresh, KeyOrNone, Passkeyed, OfPasskey,
         Passkey!WebAuthnAssumption
<1>2. (q = None /\ Returned(t, c)) \/ (q # None /\ Asked(t, c, q))
  BY <1>1, ProvisionIs
<1>a. CASE q = None /\ Returned(t, c)
  <2> USE <1>1, <1>a DEF Returned, KeyInv, OfPasskey, Passkey!WebAuthnAssumption, KeyTypes,
          PromptSet, KeyOrNone, CredOrNone, Passkeyed
  <2>1. KeyTypes(k)'
    OBVIOUS
  <2>2. PromptInv(k)'
    <3>1. c # None /\ signer'[t] = c
      OBVIOUS
    <3>2. prompt'[t].at = "idle" /\ prompt'[t].key = None
      OBVIOUS
    <3>3. accessKey[t].cred # None => Passkeys[k].grants /\ accessKey[t].key # None
      BY DEF PromptInv
    <3>4. \A u \in Passkeys[k].tabs : u # t =>
            prompt'[u] = prompt[u] /\ login'[u] = login[u] /\ signer'[u] = signer[u]
      OBVIOUS
    <3> QED BY <3>1, <3>2, <3>3, <3>4 DEF PromptInv
  <2>3. TimelessInv(k)'
    BY DEF TimelessInv, PromptInv
  <2>4. OwnKeyInv(k)'
    BY DEF OwnKeyInv, PromptInv, Single
  <2>5. VouchedInv(k)'
    BY DEF VouchedInv, PromptInv, OwnKeyInv, Single
  <2>6. DatedInv(k)'
    BY DEF DatedInv, PromptInv, OwnKeyInv, Single
  <2>7. AgreedInv(k)'
    BY DEF AgreedInv, PromptInv, Single
  <2> QED BY <2>1, <2>2, <2>3, <2>4, <2>5, <2>6, <2>7
<1>b. CASE q # None /\ Asked(t, c, q)
  <2>a. \A u \in Passkeys[k].tabs : u # t => accessKey'[u] = accessKey[u] /\ signer'[u] = signer[u]
    BY <1>1, <1>b DEF Asked, KeyInv, KeyTypes
  <2> DEFINE j == [at |-> "authorize", cred |-> c, key |-> q, auth |-> None, good |-> TRUE]
  <2>j. /\ j \in PromptSet(k) /\ j.at = "authorize" /\ j.cred = c /\ j.key = q /\ j.auth = None
        /\ prompt' = [prompt EXCEPT ![t] = j]
    BY <1>1, <1>b DEF Asked, PromptSet, CredOrNone, KeyOrNone
  <2> HIDE DEF j
  <2>m. /\ prompt' \in [Passkeys[k].tabs -> PromptSet(k)]
        /\ prompt'[t] = j /\ \A u \in Passkeys[k].tabs : u # t => prompt'[u] = prompt[u]
    BY <2>j, PromptMoves DEF KeyInv
  <2>b. /\ accessKey' = [accessKey EXCEPT ![t] = [cred |-> c, key |-> q]]
        /\ login' = login /\ agreed' = agreed
    BY <1>b DEF Asked
  <2> USE <1>1, <1>b, <2>a, <2>j, <2>m, <2>b DEF KeyInv, OfPasskey, Passkey!WebAuthnAssumption,
          KeyTypes, PromptSet, KeyOrNone, CredOrNone, Passkeyed
  <2>1. KeyTypes(k)'
    OBVIOUS
  <2>2. PromptInv(k)'
    <3>1. c # None /\ Passkeys[k].grants
      OBVIOUS
    <3>2. login[t] = None
      BY DEF PromptInv
    <3>3. signer'[t] = c
      OBVIOUS
    <3>4. accessKey'[t] = [cred |-> c, key |-> q]
      OBVIOUS
    <3> QED BY <3>1, <3>2, <3>3, <3>4 DEF PromptInv
  <2>3. TimelessInv(k)'
    <3>1. login[t] = None
      BY DEF PromptInv
    <3> QED BY <3>1 DEF TimelessInv
  <2>4. OwnKeyInv(k)'
    BY DEF OwnKeyInv, PromptInv, Single
  <2>5. VouchedInv(k)'
    BY DEF VouchedInv, PromptInv, OwnKeyInv, Single
  <2>6. DatedInv(k)'
    BY DEF DatedInv, PromptInv, OwnKeyInv, Single
  <2>7. AgreedInv(k)'
    BY DEF AgreedInv, PromptInv, Single
  <2> QED BY <2>1, <2>2, <2>3, <2>4, <2>5, <2>6, <2>7
<1> QED BY <1>a, <1>b, <1>2

\* connect() with the passkey storage calls active.
LEMMA PasskeySignInActive ==
  ASSUME NEW k, OfPasskey(k), KeyInv(k), NEW t \in Passkeys[k].tabs, Passkey(k)!SignInActive(t)
  PROVE  KeyInv(k)'
<1> DEFINE c == active
           q == Passkey(k)!KeyOf(active)
<1>1. /\ c \in Passkeyed /\ q \in KeyOrNone(k) /\ (q # None => Passkeys[k].grants)
      /\ Passkeys[k].strict => q # None
      /\ Passkeys[k].grants => q = database[c].key
      /\ prompt[t].at = "idle" /\ login[t] = None
      /\ known' = known /\ active' = c /\ lastActive' = c
      /\ signer' = [signer EXCEPT ![t] = c]
      /\ now' = now /\ database' = database /\ pending' = pending /\ authorised' = authorised
      /\ until' = until /\ expiry' = expiry
  BY DEF Passkey!SignInActive, Passkey!Chosen, Passkey!KeyOf, Passkey!MayConnect, Passkey!Idle,
         KeyInv, KeyTypes, KeyOrNone, CredOrNone, Passkeyed
<1>2. (q = None /\ Returned(t, c)) \/ (q # None /\ Asked(t, c, q))
  BY ProvisionIs DEF Passkey!SignInActive
<1> HIDE DEF c, q
<1>a. CASE q = None /\ Returned(t, c)
  <2> USE <1>1, <1>a DEF Returned, KeyInv, OfPasskey, Passkey!WebAuthnAssumption, KeyTypes,
          PromptSet, KeyOrNone, CredOrNone, Passkeyed
  <2>1. KeyTypes(k)'
    OBVIOUS
  <2>2. PromptInv(k)'
    <3>1. c # None /\ signer'[t] = c
      OBVIOUS
    <3>2. prompt'[t].at = "idle" /\ prompt'[t].key = None
      OBVIOUS
    <3>3. accessKey[t].cred # None => Passkeys[k].grants /\ accessKey[t].key # None
      BY DEF PromptInv
    <3>4. \A u \in Passkeys[k].tabs : u # t =>
            prompt'[u] = prompt[u] /\ login'[u] = login[u] /\ signer'[u] = signer[u]
      OBVIOUS
    <3> QED BY <3>1, <3>2, <3>3, <3>4 DEF PromptInv
  <2>3. TimelessInv(k)'
    BY DEF TimelessInv, PromptInv
  <2>4. OwnKeyInv(k)'
    BY DEF OwnKeyInv, PromptInv, Single
  <2>5. VouchedInv(k)'
    BY DEF VouchedInv, PromptInv, OwnKeyInv, Single
  <2>6. DatedInv(k)'
    BY DEF DatedInv, PromptInv, OwnKeyInv, Single
  <2>7. AgreedInv(k)'
    BY DEF AgreedInv, PromptInv, Single
  <2> QED BY <2>1, <2>2, <2>3, <2>4, <2>5, <2>6, <2>7
<1>b. CASE q # None /\ Asked(t, c, q)
  <2>a. \A u \in Passkeys[k].tabs : u # t => accessKey'[u] = accessKey[u] /\ signer'[u] = signer[u]
    BY <1>1, <1>b DEF Asked, KeyInv, KeyTypes
  <2> DEFINE j == [at |-> "authorize", cred |-> c, key |-> q, auth |-> None, good |-> TRUE]
  <2>j. /\ j \in PromptSet(k) /\ j.at = "authorize" /\ j.cred = c /\ j.key = q /\ j.auth = None
        /\ prompt' = [prompt EXCEPT ![t] = j]
    BY <1>1, <1>b DEF Asked, PromptSet, CredOrNone, KeyOrNone
  <2> HIDE DEF j
  <2>m. /\ prompt' \in [Passkeys[k].tabs -> PromptSet(k)]
        /\ prompt'[t] = j /\ \A u \in Passkeys[k].tabs : u # t => prompt'[u] = prompt[u]
    BY <2>j, PromptMoves DEF KeyInv
  <2>b. /\ accessKey' = [accessKey EXCEPT ![t] = [cred |-> c, key |-> q]]
        /\ login' = login /\ agreed' = agreed
    BY <1>b DEF Asked
  <2> USE <1>1, <1>b, <2>a, <2>j, <2>m, <2>b DEF KeyInv, OfPasskey, Passkey!WebAuthnAssumption,
          KeyTypes, PromptSet, KeyOrNone, CredOrNone, Passkeyed
  <2>1. KeyTypes(k)'
    OBVIOUS
  <2>2. PromptInv(k)'
    <3>1. c # None /\ Passkeys[k].grants
      OBVIOUS
    <3>2. login[t] = None
      BY DEF PromptInv
    <3>3. signer'[t] = c
      OBVIOUS
    <3>4. accessKey'[t] = [cred |-> c, key |-> q]
      OBVIOUS
    <3> QED BY <3>1, <3>2, <3>3, <3>4 DEF PromptInv
  <2>3. TimelessInv(k)'
    <3>1. login[t] = None
      BY DEF PromptInv
    <3> QED BY <3>1 DEF TimelessInv
  <2>4. OwnKeyInv(k)'
    BY DEF OwnKeyInv, PromptInv, Single
  <2>5. VouchedInv(k)'
    BY DEF VouchedInv, PromptInv, OwnKeyInv, Single
  <2>6. DatedInv(k)'
    BY DEF DatedInv, PromptInv, OwnKeyInv, Single
  <2>7. AgreedInv(k)'
    BY DEF AgreedInv, PromptInv, Single
  <2> QED BY <2>1, <2>2, <2>3, <2>4, <2>5, <2>6, <2>7
<1> QED BY <1>a, <1>b, <1>2

\* connect() that asks the user for a passkey.
LEMMA PasskeySignIn ==
  ASSUME NEW k, OfPasskey(k), KeyInv(k), NEW t \in Passkeys[k].tabs, Passkey(k)!SignIn(t)
  PROVE  KeyInv(k)'
<1>1. PICK c \in CredOrNone :
        prompt' = [prompt EXCEPT ![t] = [at |-> "get", cred |-> c, key |-> None, auth |-> None,
                                         good |-> TRUE]]
  BY DEF Passkey!SignIn, Passkey!Job, KeyInv, KeyTypes, CredOrNone
<1>2. /\ prompt[t].at = "idle" /\ login[t] = None
      /\ now' = now /\ known' = known /\ active' = active /\ lastActive' = lastActive
      /\ database' = database /\ pending' = pending /\ authorised' = authorised /\ until' = until
      /\ signer' = signer /\ accessKey' = accessKey /\ login' = login /\ expiry' = expiry
      /\ agreed' = agreed
  BY DEF Passkey!SignIn, Passkey!MayConnect, Passkey!Idle, Passkey!stored
<1>3. KeyInv(k)'
  <2> USE <1>1, <1>2 DEF KeyInv, OfPasskey, Passkey!WebAuthnAssumption, KeyTypes, PromptSet,
          KeyOrNone, CredOrNone, Passkeyed
  <2>1. KeyTypes(k)'
    OBVIOUS
  <2>2. PromptInv(k)'
    BY ZenonT(60) DEF PromptInv
  <2>3. TimelessInv(k)'
    BY DEF TimelessInv, PromptInv
  <2>4. OwnKeyInv(k)'
    BY DEF OwnKeyInv, PromptInv, Single
  <2>5. VouchedInv(k)'
    BY DEF VouchedInv, PromptInv, OwnKeyInv, Single
  <2>6. DatedInv(k)'
    BY DEF DatedInv, PromptInv, OwnKeyInv, Single
  <2>7. AgreedInv(k)'
    BY DEF AgreedInv, PromptInv, Single
  <2> QED BY <2>1, <2>2, <2>3, <2>4, <2>5, <2>6, <2>7
<1> QED BY <1>3

\* The key is kept for the first transaction and for later pages.
Kept(t, c, q) ==
  /\ pending' = [pending EXCEPT ![c] = q]
  /\ database' = [database EXCEPT ![c] = [key |-> q, expiry |-> expiry[t]]]
  /\ until' = [until EXCEPT ![q] = expiry[t]]
  /\ prompt' = [prompt EXCEPT ![t] = [at |-> "idle", cred |-> None, key |-> None, auth |-> None,
                                      good |-> TRUE]]
  /\ login' = [login EXCEPT ![t] = c]
  /\ agreed' = c

\* The authorisation is kept.
LEMMA ProvisionedIs ==
  ASSUME NEW k, NEW t, NEW c, NEW q, Passkey(k)!Provisioned(t, c, q)
  PROVE  Kept(t, c, q)
  BY DEF Passkey!Provisioned, Passkey!Job, Passkey!IdleJob, Passkey!Entry, Kept

\* The user signs for the key.
LEMMA PasskeyAuthorize ==
  ASSUME NEW k, OfPasskey(k), KeyInv(k), NEW t \in Passkeys[k].tabs, Passkey(k)!Authorize(t)
  PROVE  KeyInv(k)'
<1>0. /\ prompt[t].at = "authorize" /\ Passkey(k)!Provisioned(t, prompt[t].cred, prompt[t].key)
      /\ now' = now /\ known' = known /\ active' = active /\ lastActive' = lastActive
      /\ authorised' = authorised /\ signer' = signer /\ accessKey' = accessKey
      /\ expiry' = expiry
  BY DEF Passkey!Authorize
<1>1. /\ prompt[t].cred \in Passkeyed /\ prompt[t].key \in Passkeys[k].keys /\ prompt[t].key # None
      /\ accessKey[t] = [cred |-> prompt[t].cred, key |-> prompt[t].key] /\ Passkeys[k].grants
  BY <1>0, Zenon DEF KeyInv, KeyTypes, PromptInv, PromptSet, KeyOrNone, CredOrNone
<1>2. PICK c \in Passkeyed, q \in Passkeys[k].keys :
        /\ c = prompt[t].cred /\ q = prompt[t].key /\ q # None
        /\ accessKey[t] = [cred |-> c, key |-> q] /\ Kept(t, c, q)
  BY <1>0, <1>1, ProvisionedIs
<1>4. KeyInv(k)'
  <2> USE <1>0, <1>1, <1>2 DEF Kept, KeyInv, OfPasskey, Passkey!WebAuthnAssumption, KeyTypes,
          PromptSet, KeyOrNone, CredOrNone, Passkeyed
  <2>1. KeyTypes(k)'
    OBVIOUS
  <2>2. PromptInv(k)'
    BY DEF PromptInv
  <2>3. TimelessInv(k)'
    BY DEF TimelessInv, PromptInv
  <2>4. OwnKeyInv(k)'
    BY SMTT(30) DEF OwnKeyInv, PromptInv, Single
  <2>5. VouchedInv(k)'
    BY SMTT(30) DEF VouchedInv, PromptInv, OwnKeyInv, Single
  <2>6. DatedInv(k)'
    BY DEF DatedInv, PromptInv, OwnKeyInv, Single
  <2>7. AgreedInv(k)'
    BY DEF AgreedInv, PromptInv, Single
  <2> QED BY <2>1, <2>2, <2>3, <2>4, <2>5, <2>6, <2>7, SMTT(30)
<1> QED BY <1>4

\* A passkey, that signs for a new key in the same prompt.
LEMMA PasskeyGot ==
  ASSUME NEW k, OfPasskey(k), KeyInv(k), NEW t \in Passkeys[k].tabs, Passkey(k)!Got(t)
  PROVE  KeyInv(k)'
<1>0. PICK c \in known, q \in IF Passkeys[k].grants THEN Passkey(k)!Fresh ELSE {None} :
        /\ Passkey(k)!Chosen(t, c)
        /\ IF q = None
           THEN Passkey(k)!Provision(t, c, q) /\ pending' = pending /\ database' = database /\
                   until' = until
           ELSE /\ Passkey(k)!Provisioned(t, c, q)
                /\ accessKey' = [accessKey EXCEPT ![t] = Passkey(k)!AccessKey(c, q)]
  BY DEF Passkey!Got
<1>1. /\ c \in Passkeyed /\ q \in KeyOrNone(k)
      /\ (q # None <=> Passkeys[k].grants)
      /\ q # None => \A d \in Passkeyed : database[d].key # q
      /\ prompt[t].at = "get" /\ active' = c /\ lastActive' = c
      /\ signer' = [signer EXCEPT ![t] = c]
      /\ now' = now /\ known' = known /\ authorised' = authorised /\ expiry' = expiry
  BY <1>0 DEF Passkey!Got, Passkey!Chosen, Passkey!Fresh, KeyOrNone, Passkeyed,
         OfPasskey, Passkey!WebAuthnAssumption, KeyInv, KeyTypes
<1>a. CASE q = None
  <2>b. Returned(t, c) /\ pending' = pending /\ database' = database /\ until' = until
    BY <1>0, <1>a, ProvisionIs
  <2> USE <1>1, <1>a, <2>b DEF Returned, KeyInv, OfPasskey, Passkey!WebAuthnAssumption, KeyTypes,
          PromptSet, KeyOrNone, CredOrNone, Passkeyed
  <2>1. KeyTypes(k)'
    OBVIOUS
  <2>2. PromptInv(k)'
    BY DEF PromptInv
  <2>3. TimelessInv(k)'
    BY DEF TimelessInv, PromptInv
  <2>4. OwnKeyInv(k)'
    BY DEF OwnKeyInv, PromptInv, Single
  <2>5. VouchedInv(k)'
    BY DEF VouchedInv, PromptInv, OwnKeyInv, Single
  <2>6. DatedInv(k)'
    BY DEF DatedInv, PromptInv, OwnKeyInv, Single
  <2>7. AgreedInv(k)'
    BY DEF AgreedInv, PromptInv, Single
  <2> QED BY <2>1, <2>2, <2>3, <2>4, <2>5, <2>6, <2>7
<1>b. CASE q # None
  <2>b. Kept(t, c, q) /\ accessKey' = [accessKey EXCEPT ![t] = [cred |-> c, key |-> q]]
    BY <1>0, <1>b, ProvisionedIs DEF Passkey!AccessKey
  <2> USE <1>1, <1>b, <2>b DEF Kept, KeyInv, OfPasskey, Passkey!WebAuthnAssumption, KeyTypes,
          PromptSet, KeyOrNone, CredOrNone, Passkeyed
  <2>1. KeyTypes(k)'
    OBVIOUS
  <2>2. PromptInv(k)'
    BY DEF PromptInv
  <2>3. TimelessInv(k)'
    BY DEF TimelessInv, PromptInv
  <2>4. OwnKeyInv(k)'
    BY DEF OwnKeyInv, PromptInv, Single
  <2>5. VouchedInv(k)'
    BY DEF VouchedInv, PromptInv, OwnKeyInv, Single
  <2>6. DatedInv(k)'
    BY DEF DatedInv, PromptInv, OwnKeyInv, Single
  <2>7. AgreedInv(k)'
    BY DEF AgreedInv, PromptInv, Single
  <2> QED BY <2>1, <2>2, <2>3, <2>4, <2>5, <2>6, <2>7
<1> QED BY <1>a, <1>b

\* The user closes a prompt.
LEMMA PasskeyRefuse ==
  ASSUME NEW k, OfPasskey(k), KeyInv(k), NEW t \in Passkeys[k].tabs, Passkey(k)!Refuse(t)
  PROVE  KeyInv(k)'
<1> USE DEF Passkey!Refuse, Passkey!Prompted, Passkey!NoOffer, Passkey!IdleJob, Passkey!Job,
        Passkey!stored, OfPasskey, Passkey!WebAuthnAssumption, KeyTypes, PromptSet, KeyOrNone,
        CredOrNone, Passkeyed, KeyInv
<1>1. KeyTypes(k)'
  OBVIOUS
<1>2. PromptInv(k)'
  BY ZenonT(60) DEF PromptInv
<1>3. TimelessInv(k)'
  BY DEF TimelessInv, PromptInv
<1>4. OwnKeyInv(k)'
  BY ZenonT(60) DEF OwnKeyInv, PromptInv, Single
<1>5. VouchedInv(k)'
  BY DEF VouchedInv, PromptInv, OwnKeyInv, Single
<1>6. DatedInv(k)'
  BY DEF DatedInv, PromptInv, OwnKeyInv, Single
<1>7. AgreedInv(k)'
  BY DEF AgreedInv, PromptInv, Single
<1> QED BY <1>1, <1>2, <1>3, <1>4, <1>5, <1>6, <1>7

\* disconnect, by the user.
LEMMA PasskeyDisconnect ==
  ASSUME NEW k, OfPasskey(k), KeyInv(k), NEW t \in Passkeys[k].tabs, Passkey(k)!Disconnect(t)
  PROVE  KeyInv(k)'
<1> USE DEF Passkey!Disconnect, Passkey!Idle, Passkey!Left, OfPasskey, Passkey!WebAuthnAssumption,
        KeyTypes, PromptSet, KeyOrNone, CredOrNone, Passkeyed, KeyInv
<1>1. KeyTypes(k)'
  OBVIOUS
<1>2. PromptInv(k)'
  BY DEF PromptInv
<1>3. TimelessInv(k)'
  BY DEF TimelessInv, PromptInv
<1>4. OwnKeyInv(k)'
  BY DEF OwnKeyInv, PromptInv, Single
<1>5. VouchedInv(k)'
  BY DEF VouchedInv, PromptInv, OwnKeyInv, Single
<1>6. DatedInv(k)'
  BY DEF DatedInv, PromptInv, OwnKeyInv, Single
<1>7. AgreedInv(k)'
  BY DEF AgreedInv, PromptInv, Single
<1> QED BY <1>1, <1>2, <1>3, <1>4, <1>5, <1>6, <1>7

\* A page load.
LEMMA PasskeyLoad ==
  ASSUME NEW k, OfPasskey(k), KeyInv(k), NEW t \in Passkeys[k].tabs, Passkey(k)!Load(t)
  PROVE  KeyInv(k)'
<1> USE DEF Passkey!Load, Passkey!MayLeave, Passkey!Prompted, Passkey!Sending, Passkey!KeyOf,
        Passkey!StillGood, Passkey!Expired, Passkey!IdleJob, Passkey!Job, Passkey!AccessKey,
        OfPasskey, Passkey!WebAuthnAssumption, KeyTypes, PromptSet, KeyOrNone, CredOrNone,
        Passkeyed, KeyInv
<1>1. KeyTypes(k)'
  OBVIOUS
<1>2. PromptInv(k)'
  BY DEF PromptInv
<1>3. TimelessInv(k)'
  BY DEF TimelessInv, PromptInv
<1>4. OwnKeyInv(k)'
  BY DEF OwnKeyInv, PromptInv, Single
<1>5. VouchedInv(k)'
  BY DEF VouchedInv, PromptInv, OwnKeyInv, Single
<1>6. DatedInv(k)'
  BY DEF DatedInv, PromptInv, OwnKeyInv, Single
<1>7. AgreedInv(k)'
  BY DEF AgreedInv, PromptInv, Single
<1> QED BY <1>1, <1>2, <1>3, <1>4, <1>5, <1>6, <1>7

\* ... and sent, which tells the chain the key,
LEMMA PasskeySent ==
  ASSUME NEW k, OfPasskey(k), KeyInv(k), NEW t \in Passkeys[k].tabs, Passkey(k)!Sent(t)
  PROVE  KeyInv(k)'
<1> USE DEF Passkey!Sent, Passkey!IdleJob, Passkey!Job, Passkey!stored, OfPasskey,
        Passkey!WebAuthnAssumption, KeyTypes, PromptSet, KeyOrNone, CredOrNone, Passkeyed, KeyInv
<1>1. KeyTypes(k)'
  OBVIOUS
<1>2. PromptInv(k)'
  BY DEF PromptInv
<1>3. TimelessInv(k)'
  BY DEF TimelessInv, PromptInv
<1>4. OwnKeyInv(k)'
  BY DEF OwnKeyInv, PromptInv, Single
<1>5. VouchedInv(k)'
  BY DEF VouchedInv, PromptInv, OwnKeyInv, Single
<1>6. DatedInv(k)'
  BY DEF DatedInv, PromptInv, OwnKeyInv, Single
<1>7. AgreedInv(k)'
  BY DEF AgreedInv, PromptInv, Single
<1> QED BY <1>1, <1>2, <1>3, <1>4, <1>5, <1>6, <1>7

\* ... or not.
LEMMA PasskeyUnsent ==
  ASSUME NEW k, OfPasskey(k), KeyInv(k), NEW t \in Passkeys[k].tabs, Passkey(k)!Unsent(t)
  PROVE  KeyInv(k)'
<1> USE DEF Passkey!Unsent, Passkey!IdleJob, Passkey!Job, Passkey!stored, OfPasskey,
        Passkey!WebAuthnAssumption, KeyTypes, PromptSet, KeyOrNone, CredOrNone, Passkeyed, KeyInv
<1>1. KeyTypes(k)'
  OBVIOUS
<1>2. PromptInv(k)'
  BY DEF PromptInv
<1>3. TimelessInv(k)'
  BY DEF TimelessInv, PromptInv
<1>4. OwnKeyInv(k)'
  BY DEF OwnKeyInv, PromptInv, Single
<1>5. VouchedInv(k)'
  BY DEF VouchedInv, PromptInv, OwnKeyInv, Single
<1>6. DatedInv(k)'
  BY DEF DatedInv, PromptInv, OwnKeyInv, Single
<1>7. AgreedInv(k)'
  BY DEF AgreedInv, PromptInv, Single
<1> QED BY <1>1, <1>2, <1>3, <1>4, <1>5, <1>6, <1>7

\* What is sent is a call of the tab.
LEMMA SignsWell ==
  ASSUME NEW k, OfPasskey(k), KeyTypes(k), NEW t \in Passkeys[k].tabs, NEW c \in Passkeyed,
         NEW q \in KeyOrNone(k), Signs(k, t, c, q)
  PROVE  LET j == prompt'[t] IN
         /\ j.at = "send" /\ j.cred = c /\ j.key = q /\ j.auth = pending[c]
         /\ j.good = (q # None => ~ Passkey(k)!Expired(until[q]))
         /\ j \in PromptSet(k) /\ prompt' = [prompt EXCEPT ![t] = j]
<1> DEFINE good == q # None => ~ Passkey(k)!Expired(until[q])
           j == [at |-> "send", cred |-> c, key |-> q, auth |-> pending[c], good |-> good]
<1>1. good \in BOOLEAN
  OBVIOUS
<1>2. prompt' = [prompt EXCEPT ![t] = j]
  BY DEF Signs
<1> HIDE DEF good
<1>3. j \in PromptSet(k)
  BY <1>1 DEF PromptSet, KeyTypes, CredOrNone
<1>4. prompt'[t] = j
  BY <1>2 DEF KeyTypes
<1>5. /\ j.at = "send" /\ j.cred = c /\ j.key = q /\ j.auth = pending[c] /\ j.good = good
  BY Zenon
<1> HIDE DEF j
<1> QED BY <1>2, <1>3, <1>4, <1>5 DEF good

\* A transaction is prepared.
LEMMA PasskeySend ==
  ASSUME NEW k, OfPasskey(k), KeyInv(k), NEW t \in Passkeys[k].tabs, Passkey(k)!Send(t)
  PROVE  KeyInv(k)'
<1> DEFINE c == accessKey[t].cred
<1>1. /\ prompt[t].at = "idle" /\ login[t] # None
      /\ now' = now /\ known' = known /\ lastActive' = lastActive /\ database' = database
      /\ authorised' = authorised /\ until' = until /\ accessKey' = accessKey /\ expiry' = expiry
      /\ agreed' = agreed
  BY SendIs
<1>2. /\ signer[t] \in Passkeyed /\ c \in CredOrNone /\ accessKey[t].key \in KeyOrNone(k)
      /\ c # None => accessKey[t].key # None
  BY <1>1 DEF KeyInv, KeyTypes, PromptInv, CredOrNone
<1>a. CASE c = None /\ Signs(k, t, signer[t], None)
  <2> DEFINE j == prompt'[t]
  <2>j. /\ j.at = "send" /\ j.cred = signer[t] /\ j.key = None /\ j.auth = pending[signer[t]]
        /\ j.good = (None # None => ~ Passkey(k)!Expired(until[None]))
        /\ j \in PromptSet(k) /\ prompt' = [prompt EXCEPT ![t] = j]
    BY <1>1, <1>2, <1>a, SignsWell, None \in KeyOrNone(k) DEF KeyInv, CredOrNone, KeyOrNone
  <2> HIDE DEF j
  <2>m. /\ prompt' \in [Passkeys[k].tabs -> PromptSet(k)]
        /\ prompt'[t] = j /\ \A u \in Passkeys[k].tabs : u # t => prompt'[u] = prompt[u]
    BY <2>j, PromptMoves DEF KeyInv
  <2>b. /\ pending' = [pending EXCEPT ![signer[t]] = None]
        /\ active' = active /\ signer' = signer /\ login' = login
    BY <1>a DEF Signs
  <2> USE <1>1, <1>2, <1>a, <2>j, <2>m, <2>b DEF Passkey!Expired, Passkey!StillGood, KeyInv,
          OfPasskey, Passkey!WebAuthnAssumption, KeyTypes, PromptSet, KeyOrNone, CredOrNone,
          Passkeyed
  <2>1. KeyTypes(k)'
    OBVIOUS
  <2>2. PromptInv(k)'
    BY DEF PromptInv
  <2>3. TimelessInv(k)'
    BY DEF TimelessInv, PromptInv
  <2>4. OwnKeyInv(k)'
    BY SMTT(30) DEF OwnKeyInv, PromptInv, Single
  <2>5. VouchedInv(k)'
    BY DEF VouchedInv, PromptInv, OwnKeyInv, Single
  <2>6. DatedInv(k)'
    BY DEF DatedInv, PromptInv, OwnKeyInv, Single
  <2>7. AgreedInv(k)'
    BY DEF AgreedInv, PromptInv, Single
  <2> QED BY <2>1, <2>2, <2>3, <2>4, <2>5, <2>6, <2>7
<1>b. CASE c # None /\ Passkey(k)!StillGood(c) /\ Signs(k, t, c, accessKey[t].key)
  <2> DEFINE j == prompt'[t]
  <2>j. /\ j.at = "send" /\ j.cred = c /\ j.key = accessKey[t].key /\ j.auth = pending[c]
        /\ j.good = (accessKey[t].key # None => ~ Passkey(k)!Expired(until[accessKey[t].key]))
        /\ j \in PromptSet(k) /\ prompt' = [prompt EXCEPT ![t] = j]
    BY <1>1, <1>2, <1>b, SignsWell, None \in KeyOrNone(k) DEF KeyInv, CredOrNone, KeyOrNone
  <2> HIDE DEF j
  <2>m. /\ prompt' \in [Passkeys[k].tabs -> PromptSet(k)]
        /\ prompt'[t] = j /\ \A u \in Passkeys[k].tabs : u # t => prompt'[u] = prompt[u]
    BY <2>j, PromptMoves DEF KeyInv
  <2>b. /\ pending' = [pending EXCEPT ![c] = None]
        /\ active' = active /\ signer' = signer /\ login' = login
    BY <1>b DEF Signs
  <2> USE <1>1, <1>2, <1>b, <2>j, <2>m, <2>b DEF Passkey!Expired, Passkey!StillGood, KeyInv,
          OfPasskey, Passkey!WebAuthnAssumption, KeyTypes, PromptSet, KeyOrNone, CredOrNone,
          Passkeyed
  <2>1. KeyTypes(k)'
    OBVIOUS
  <2>2. PromptInv(k)'
    BY ZenonT(60) DEF PromptInv
  <2>3. TimelessInv(k)'
    <3>1. Passkeys[k].grants /\ accessKey[t].key # None
      BY DEF PromptInv
    <3>2. Passkeys[k].time = 0 /\ Passkeys[k].strict => c = login[t]
      BY DEF TimelessInv
    <3> QED BY <3>1, <3>2 DEF TimelessInv
  <2>4. OwnKeyInv(k)'
    BY SMTT(30) DEF OwnKeyInv, PromptInv, Single
  <2>5. VouchedInv(k)'
    BY SMTT(30) DEF VouchedInv, PromptInv, OwnKeyInv, Single
  <2>6. DatedInv(k)'
    BY DEF DatedInv, PromptInv, OwnKeyInv, Single
  <2>7. AgreedInv(k)'
    BY DEF AgreedInv, PromptInv, Single
  <2> QED BY <2>1, <2>2, <2>3, <2>4, <2>5, <2>6, <2>7
<1>c. CASE c # None /\ ~ Passkey(k)!StillGood(c) /\ Passkeys[k].strict /\ Leaves(t, c)
  <2> USE <1>1, <1>2, <1>c DEF Leaves, Passkey!Expired, Passkey!StillGood, KeyInv, OfPasskey,
          Passkey!WebAuthnAssumption, KeyTypes, PromptSet, KeyOrNone, CredOrNone, Passkeyed
  <2>1. KeyTypes(k)'
    OBVIOUS
  <2>2. PromptInv(k)'
    BY DEF PromptInv
  <2>3. TimelessInv(k)'
    BY DEF TimelessInv, PromptInv
  <2>4. OwnKeyInv(k)'
    BY DEF OwnKeyInv, PromptInv, Single
  <2>5. VouchedInv(k)'
    BY DEF VouchedInv, PromptInv, OwnKeyInv, Single
  <2>6. DatedInv(k)'
    BY DEF DatedInv, PromptInv, OwnKeyInv, Single
  <2>7. AgreedInv(k)'
    BY DEF AgreedInv, PromptInv, Single
  <2> QED BY <2>1, <2>2, <2>3, <2>4, <2>5, <2>6, <2>7
<1>d. CASE c # None /\ ~ Passkey(k)!StillGood(c) /\ ~ Passkeys[k].strict /\ FallsBack(t, c)
  <2> USE <1>1, <1>2, <1>d DEF FallsBack, Passkey!Expired, Passkey!StillGood, KeyInv, OfPasskey,
          Passkey!WebAuthnAssumption, KeyTypes, PromptSet, KeyOrNone, CredOrNone, Passkeyed
  <2>1. KeyTypes(k)'
    OBVIOUS
  <2>2. PromptInv(k)'
    BY DEF PromptInv
  <2>3. TimelessInv(k)'
    BY DEF TimelessInv, PromptInv
  <2>4. OwnKeyInv(k)'
    BY DEF OwnKeyInv, PromptInv, Single
  <2>5. VouchedInv(k)'
    BY DEF VouchedInv, PromptInv, OwnKeyInv, Single
  <2>6. DatedInv(k)'
    BY DEF DatedInv, PromptInv, OwnKeyInv, Single
  <2>7. AgreedInv(k)'
    BY DEF AgreedInv, PromptInv, Single
  <2> QED BY <2>1, <2>2, <2>3, <2>4, <2>5, <2>6, <2>7
<1> QED BY SendIs, <1>a, <1>b, <1>c, <1>d

\* Time passes.
LEMMA PasskeyTick ==
  ASSUME NEW k, OfPasskey(k), KeyInv(k), Passkey(k)!Tick
  PROVE  KeyInv(k)'
<1> USE DEF Passkey!Tick, Passkey!stored, OfPasskey, Passkey!WebAuthnAssumption, KeyTypes,
        PromptSet, KeyOrNone, CredOrNone, Passkeyed, KeyInv
<1>1. KeyTypes(k)'
  OBVIOUS
<1>2. PromptInv(k)'
  BY DEF PromptInv
<1>3. TimelessInv(k)'
  BY DEF TimelessInv, PromptInv
<1>4. OwnKeyInv(k)'
  BY DEF OwnKeyInv, PromptInv, Single
<1>5. VouchedInv(k)'
  BY DEF VouchedInv, PromptInv, OwnKeyInv, Single
<1>6. DatedInv(k)'
  BY DEF DatedInv, PromptInv, OwnKeyInv, Single
<1>7. AgreedInv(k)'
  BY DEF AgreedInv, PromptInv, Single
<1> QED BY <1>1, <1>2, <1>3, <1>4, <1>5, <1>6, <1>7

\* No tab has done anything yet.
LEMMA PasskeyInitOK ==
  ASSUME NEW k, OfPasskey(k), Passkey(k)!Init
  PROVE  KeyInv(k)
<1> USE DEF Passkey!Init, Passkey!Entry, Passkey!AccessKey, Passkey!IdleJob, Passkey!Job, OfPasskey,
        Passkey!WebAuthnAssumption, KeyTypes, PromptSet, KeyOrNone, CredOrNone, Passkeyed
<1>1. KeyTypes(k)
  OBVIOUS
<1>2. PromptInv(k)
  BY DEF PromptInv
<1>3. TimelessInv(k)
  BY DEF TimelessInv
<1>4. OwnKeyInv(k)
  BY DEF OwnKeyInv
<1>5. VouchedInv(k)
  BY DEF VouchedInv
<1>6. DatedInv(k)
  BY DEF DatedInv
<1>7. AgreedInv(k)
  BY DEF AgreedInv
<1> QED BY <1>1, <1>2, <1>3, <1>4, <1>5, <1>6, <1>7 DEF KeyInv

\* Every step of the tabs and of time.
LEMMA PasskeyNext ==
  ASSUME NEW k, OfPasskey(k), KeyInv(k), Passkey(k)!Next
  PROVE  KeyInv(k)'
<1>1. ASSUME NEW t \in Passkeys[k].tabs, Passkey(k)!Connect(t)
      PROVE  KeyInv(k)'
  BY <1>1, PasskeySignUp, PasskeySignInActive, PasskeySignIn DEF Passkey!Connect
<1>2. ASSUME NEW t \in Passkeys[k].tabs, Passkey(k)!Prompt(t)
      PROVE  KeyInv(k)'
  BY <1>2, PasskeyCreated, PasskeyGot, PasskeyAuthorize, PasskeyRefuse DEF Passkey!Prompt
<1>3. ASSUME NEW t \in Passkeys[k].tabs, Passkey(k)!Transact(t)
      PROVE  KeyInv(k)'
  BY <1>3, PasskeySend, PasskeySent, PasskeyUnsent DEF Passkey!Transact
<1> QED BY <1>1, <1>2, <1>3, PasskeyDisconnect, PasskeyLoad, PasskeyTick DEF Passkey!Next

-----------------------------------------------------------------------------
(* Whatever the scene. *)

\* The invariant, of the passkeys of the scene.
KeySceneInv == \A k \in DOMAIN Passkeys : scene = k => KeyInv(k)

\* The settings are as the connector needs them.
LEMMA PasskeysAreRight == \A k \in DOMAIN Passkeys : OfPasskey(k)
  BY SettingsAssumption DEF OfPasskey

\* The invariant is about nothing but the variables of the connector.
LEMMA KeyInvUntouched ==
  ASSUME NEW k, KeyInv(k), passkeyVars' = passkeyVars, activeVars' = activeVars
  PROVE  KeyInv(k)'
<1> USE DEF passkeyVars, activeVars, KeyInv
<1>1. KeyTypes(k)'
  BY DEF KeyTypes
<1>2. PromptInv(k)'
  BY DEF PromptInv
<1>3. TimelessInv(k)'
  BY DEF TimelessInv
<1>4. OwnKeyInv(k)'
  BY DEF OwnKeyInv
<1>5. VouchedInv(k)'
  BY DEF VouchedInv
<1>6. DatedInv(k)'
  BY DEF DatedInv
<1>7. AgreedInv(k)'
  BY DEF AgreedInv
<1> QED BY <1>1, <1>2, <1>3, <1>4, <1>5, <1>6, <1>7

LEMMA KeySceneInit == WalletInit \/ PasskeyInit \/ KeyInit => KeySceneInv
<1>1. ASSUME NEW i \in 1..7, i # 6, scene \in Kinds[i]
      PROVE  KeySceneInv
  BY <1>1, OneKind, KindsByNumber DEF KeySceneInv
<1>2. WalletInit => KeySceneInv
  BY <1>1, KindsByNumber DEF WalletInit
<1>3. KeyInit => KeySceneInv
  BY <1>1, KindsByNumber DEF KeyInit
<1>4. PasskeyInit => KeySceneInv
  BY PasskeysAreRight, PasskeyInitOK DEF PasskeyInit, KeySceneInv
<1> QED BY <1>2, <1>3, <1>4

LEMMA KeySceneNext ==
  ASSUME KeySceneInv, [ConnectorsNext]_allVars
  PROVE  KeySceneInv'
<1>1. ASSUME scene' = scene, passkeyVars' = passkeyVars, activeVars' = activeVars
      PROVE  KeySceneInv'
  BY <1>1, KeyInvUntouched DEF KeySceneInv
<1>2. ASSUME NoKeys
      PROVE  KeySceneInv'
  BY <1>1, <1>2 DEF NoKeys
<1>3. ASSUME NEW k \in DOMAIN Passkeys, PasskeyStep(k)
      PROVE  KeySceneInv'
  <2>1. scene = k /\ scene' = k /\ Passkey(k)!Next
    BY <1>3 DEF PasskeyStep, NoWallet
  <2>2. KeyInv(k)'
    BY <2>1, PasskeysAreRight, PasskeyNext DEF KeySceneInv
  <2> QED BY <2>1, <2>2 DEF KeySceneInv
<1>4. CASE KeyStep
  <2>1. scene = "keys" /\ scene' = scene
    BY <1>4 DEF KeyStep, NoWallet
  <2>2. scene \in Kinds[7]
    BY <2>1, KindsByNumber
  <2>3. scene \notin DOMAIN Passkeys
    BY <2>2, OneKind, KindsByNumber
  <2> QED BY <2>1, <2>3 DEF KeySceneInv
<1>5. CASE UNCHANGED allVars
  BY <1>1, <1>5 DEF allVars
<1> QED BY <1>2, <1>3, <1>4, <1>5
        DEF ConnectorsNext, BrowserStep, RelayStep, PortoStep, SdkStep, MetaStep, BrowserRest,
            RelayRest, SdkRest

LEMMA KeyScene == ConnectorsSpec => []KeySceneInv
<1>1. KeySceneInv /\ [ConnectorsNext]_allVars => KeySceneInv'
  BY KeySceneNext
<1> QED BY <1>1, KeySceneInit, PTL DEF ConnectorsSpec

\* What the invariant says of the transactions that are being sent.
LEMMA KeysSignAsAllowed ==
  ASSUME NEW k, OfPasskey(k), KeyInv(k)
  PROVE  LET its == Passkeys[k] IN
         /\ Single(its.tabs) /\ ~ its.failures /\ (its.refusals => its.strict) =>
              Passkey(k)!KeyIsAuthorised
         /\ Willing(k) => Passkey(k)!KeyIsAlive
         /\ its.time = 0 /\ (its.grants => its.strict) => Passkey(k)!SignsAsConnected
         /\ its.time = 0 => Passkey(k)!StrictNeverFallsBack
<1> USE DEF KeyInv, Passkey!Sending
<1>1. /\ Single(Passkeys[k].tabs) /\ ~ Passkeys[k].failures
      /\ (Passkeys[k].refusals => Passkeys[k].strict)
      => Passkey(k)!KeyIsAuthorised
  BY DEF VouchedInv, Passkey!KeyIsAuthorised
<1>2. Willing(k) => Passkey(k)!KeyIsAlive
  BY DEF DatedInv, Willing, Passkey!KeyIsAlive
<1>3. Passkeys[k].time = 0 /\ (Passkeys[k].grants => Passkeys[k].strict)
        => Passkey(k)!SignsAsConnected
  BY DEF TimelessInv, Passkey!SignsAsConnected
<1>4. Passkeys[k].time = 0 => Passkey(k)!StrictNeverFallsBack
  BY DEF TimelessInv, Passkey!StrictNeverFallsBack
<1> QED BY <1>1, <1>2, <1>3, <1>4

\* What the passkey connector sends is signed by a key the chain accepts, that had not
\* expired, for the account of the connection, and with strict options never by the
\* passkey itself, each where it says so: whatever tabs, keys and time there are
\* (getClient, prepareTransactionRequest, connect, setup).
THEOREM SignedAsAllowed == ConnectorsSpec => []SignsAsAllowed
<1>1. KeySceneInv => SignsAsAllowed
  BY PasskeysAreRight, KeysSignAsAllowed DEF KeySceneInv, SignsAsAllowed
<1> QED BY <1>1, KeyScene, PTL

\* A page load connects whom storage calls active, which is who was agreed to.
LEMMA LoadsAsAgreed ==
  ASSUME NEW k, OfPasskey(k), KeyInv(k), Willing(k)
  PROVE  Passkey(k)!LoadsPrevious
<1> SUFFICES ASSUME NEW t \in Passkeys[k].tabs, Passkey(k)!Load(t)
             PROVE  login'[t] \in {None, agreed}
  BY DEF Passkey!LoadsPrevious
<1>1. prompt[t].at # "authorize"
  BY DEF Passkey!Load, Passkey!MayLeave, Passkey!Prompted, Willing
<1>2. active \in {None, agreed}
  BY <1>1 DEF KeyInv, AgreedInv, Willing
<1>3. login'[t] \in {None, active}
  BY DEF Passkey!Load, KeyInv, KeyTypes
<1> QED BY <1>2, <1>3

\* Nobody is connected but as agreed: a page load connects whom the user last connected
\* as, in any tab (setup, authorize), and no page takes over a session of chains it
\* never asked for (isChainsStale), whatever the keys, the chains and the pages.
THEOREM ConnectedAsAgreed == ConnectorsSpec => ConnectsAsAgreed
<1>1. ASSUME KeySceneInv, TrackInv, [ConnectorsNext]_allVars
      PROVE  /\ \A k \in DOMAIN Passkeys : scene = k /\ Willing(k) => Passkey(k)!LoadsPrevious
             /\ \A r \in CalmRelays : scene = r => Relay(r)!ChainsWereAsked
  <2>1. ASSUME NEW k \in DOMAIN Passkeys, scene = k, Willing(k)
        PROVE  Passkey(k)!LoadsPrevious
    BY <1>1, <2>1, PasskeysAreRight, LoadsAsAgreed DEF KeySceneInv
  <2>2. ASSUME NEW r \in CalmRelays, scene = r
        PROVE  Relay(r)!ChainsWereAsked
    BY <1>1, <2>2, ChainsAsked
  <2> QED BY <2>1, <2>2
<1> QED BY <1>1, KeyScene, TrackScene, PTL DEF ConnectorsSpec, ConnectsAsAgreed
=============================================================================
