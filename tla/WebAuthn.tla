------------------------------ MODULE WebAuthn ------------------------------
(***************************************************************************)
(* The connector webAuthn (core/src/tempo/Connectors.ts): passkeys that    *)
(* are the account of a user, access keys the passkey authorises so that   *)
(* transactions need no prompt, and the authorisation that has to travel   *)
(* with the first transaction an access key signs.  Tabs share the storage *)
(* and the key database of the browser; the connector's variables are of   *)
(* each tab.                                                               *)
(*                                                                         *)
(* Storage is synchronous; an action is the code from one prompt of the    *)
(* user, or answer of the chain, to the next.                              *)
(***************************************************************************)
EXTENDS Naturals

CONSTANTS
    Credentials,    \* passkeys; the account of each is its address
    Keys,           \* access keys that are generated (a bound)
    None,
    Tabs,
    Grants,         \* options.grantAccessKey is set
    Strict,         \* grantAccessKey.strict
    Refusals,       \* TRUE: the user may refuse a prompt
    Failures,       \* TRUE: what was prepared may fail to be sent
    Lifetime,       \* grantAccessKey.expiry, from the load of the page
    MaxTime         \* bound: the clock

\* What the constants are (checked where they get their values).
WebAuthnAssumption ==
    /\ None \notin Credentials \cup Keys
    /\ {Grants, Strict, Refusals, Failures} \subseteq BOOLEAN
    /\ Strict => Grants
    /\ Lifetime \in Nat \ {0} /\ MaxTime \in Nat

VARIABLES
    now,            \* Date.now()
    known,          \* credentials the key manager has a public key of
    active,         \* storage item webAuthn.activeCredential
    lastActive,     \* storage item webAuthn.lastActiveCredential
    database,       \* idb `accessKey:${address}`: a key and its expiry
    pending,        \* storage items `pendingKeyAuthorization:${address}`
    authorised,     \* keys the chain knows
    until,          \* (history) the expiry each key was last authorised with
    account,        \* of each tab: the passkey of the connector
    accessKey,      \* ... and the access key: of which passkey
    connection,     \* ... and the address of the connection of the Config
    expiry,         \* ... and the expiry its options have
    job,            \* ... and what is in flight
    agreed          \* (history) who the user last connected as, and stayed

stored == <<active, lastActive, database, pending>>
vars == <<now, known, stored, authorised, until, account, accessKey, connection, expiry, job,
          agreed>>

Job(at, c, k, auth) == [at |-> at, cred |-> c, key |-> k, auth |-> auth, good |-> TRUE]
IdleJob == Job("idle", None, None, None)
Idle(t) == job[t].at = "idle"
Prompted(t) == job[t].at \in {"create", "get", "authorize"}
Sending(t) == job[t].at = "send"

\* To leave a page in a prompt is to refuse, in a transaction not to send it.
MayLeave(t) == (Prompted(t) => Refusals) /\ (Sending(t) => Failures)

AccessKey(c, k) == [cred |-> c, key |-> k]
Entry(k, e) == [key |-> k, expiry |-> e]

\* Keys that are nowhere.
Fresh ==
    {k \in Keys : /\ k \notin authorised
                  /\ \A c \in Credentials : k \notin {database[c].key, pending[c]}
                  /\ \A t \in Tabs : k \notin {accessKey[t].key, job[t].key, job[t].auth}}

\* expiry < Date.now()
Expired(e) == e < now

\* What the database has for a credential the options ask a key for.
KeyOf(c) == IF Grants /\ c # None THEN database[c].key ELSE None

-----------------------------------------------------------------------------
(***************************************************************************)
(* connect                                                                 *)
(***************************************************************************)

\* connect may begin: with strict options that have expired it throws.
MayConnect(t) ==
    /\ Idle(t) /\ connection[t] = None
    /\ ~(Strict /\ Expired(expiry[t]))

\* The credential is there and written down, before anything is signed.
Chosen(t, c) ==
    /\ active' = c /\ lastActive' = c
    /\ account' = [account EXCEPT ![t] = c]

\* The user is to sign the authorisation of key k; a connect without a key
\* returns at once and leaves the access key of before.
Provision(t, c, k) ==
    IF k = None
    THEN /\ job' = [job EXCEPT ![t] = IdleJob]
         /\ connection' = [connection EXCEPT ![t] = c]
         /\ agreed' = c
         /\ UNCHANGED accessKey
    ELSE /\ job' = [job EXCEPT ![t] = Job("authorize", c, k, None)]
         /\ accessKey' = [accessKey EXCEPT ![t] = AccessKey(c, k)]
         /\ UNCHANGED <<connection, agreed>>

\* Mistake: the authorisation is not kept
ProvisionedUntold(t, c, k) ==
    /\ database' = [database EXCEPT ![c] = Entry(k, expiry[t])]
    /\ until' = [until EXCEPT ![k] = expiry[t]]
    /\ job' = [job EXCEPT ![t] = IdleJob]
    /\ connection' = [connection EXCEPT ![t] = c]
    /\ agreed' = c
    /\ UNCHANGED pending

\* The authorisation is kept for the first transaction, the key for later pages.
Provisioned(t, c, k) ==
    /\ pending' = [pending EXCEPT ![c] = k]
    /\ database' = [database EXCEPT ![c] = Entry(k, expiry[t])]
    /\ until' = [until EXCEPT ![k] = expiry[t]]
    /\ job' = [job EXCEPT ![t] = IdleJob]
    /\ connection' = [connection EXCEPT ![t] = c]
    /\ agreed' = c

\* connect({ type: 'sign-up' }): the user is asked for a new passkey.
SignUp(t) ==
    /\ MayConnect(t)
    /\ job' = [job EXCEPT ![t] = Job("create", None, None, None)]
    /\ UNCHANGED <<now, known, stored, authorised, until, account, accessKey, connection,
                   expiry, agreed>>

Created(t) ==
    /\ job[t].at = "create"
    /\ \E c \in Credentials \ known, k \in IF Grants THEN Fresh ELSE {None} :
         /\ known' = known \cup {c}
         /\ Chosen(t, c)
         /\ Provision(t, c, k)
    /\ UNCHANGED <<now, database, pending, authorised, until, expiry>>

Authorize(t) ==
    /\ job[t].at = "authorize"
    /\ Provisioned(t, job[t].cred, job[t].key)
    /\ UNCHANGED <<now, known, active, lastActive, authorised, account, accessKey, expiry>>

\* connect() with an active credential in storage: no prompt for the passkey.
\* Strict options want its access key as well.
SignInActive(t) ==
    /\ MayConnect(t)
    /\ active # None /\ (Strict => KeyOf(active) # None)
    /\ Chosen(t, active)
    /\ Provision(t, active, KeyOf(active))
    /\ UNCHANGED <<now, known, database, pending, authorised, until, expiry>>

\* connect() without one, or { selectAccount }: the user is asked for a passkey.
SignIn(t) ==
    /\ MayConnect(t)
    /\ \E select \in BOOLEAN :
         /\ ~select => active = None \/ (Strict /\ KeyOf(active) = None)
         /\ job' = [job EXCEPT ![t] = Job("get", IF select THEN None ELSE lastActive, None, None)]
    /\ UNCHANGED <<now, known, stored, authorised, until, account, accessKey, connection,
                   expiry, agreed>>

\* The passkey signs the authorisation of a new key in the same prompt.
Got(t) ==
    /\ job[t].at = "get"
    /\ \E c \in known, k \in IF Grants THEN Fresh ELSE {None} :
         /\ job[t].cred \in {None, c}
         /\ Chosen(t, c)
         /\ IF k = None
            THEN Provision(t, c, k) /\ UNCHANGED <<pending, database, until>>
            ELSE /\ Provisioned(t, c, k)
                 /\ accessKey' = [accessKey EXCEPT ![t] = AccessKey(c, k)]
    /\ UNCHANGED <<now, known, authorised, expiry>>

\* There is no passkey to offer (sign-in), or none or no key left (bounds).
NoOffer(t) ==
    \/ job[t].at = "get" /\ known = {}
    \/ job[t].at = "create" /\ known = Credentials
    \/ job[t].at \in {"get", "create"} /\ Grants /\ Fresh = {}

\* The user closes a prompt of connect: it fails, what it wrote stays.
Refuse(t) ==
    /\ Prompted(t) /\ (Refusals \/ NoOffer(t))
    /\ job' = [job EXCEPT ![t] = IdleJob]
    /\ UNCHANGED <<now, known, stored, authorised, until, account, accessKey, connection,
                   expiry, agreed>>

-----------------------------------------------------------------------------
(***************************************************************************)
(* disconnect and page loads                                               *)
(***************************************************************************)

\* Mistake: the credential stays active
LeftStored(t) ==
    /\ account' = [account EXCEPT ![t] = None]
    /\ connection' = [connection EXCEPT ![t] = None]
    /\ UNCHANGED active

\* disconnect of the connector, with the handler of the Config.
Left(t) ==
    /\ active' = None
    /\ account' = [account EXCEPT ![t] = None]
    /\ connection' = [connection EXCEPT ![t] = None]

Disconnect(t) ==
    /\ Idle(t) /\ connection[t] # None
    /\ Left(t)
    /\ agreed' = None
    /\ UNCHANGED <<now, known, lastActive, database, pending, authorised, until, accessKey, expiry, job>>

\* Whether the key in the database has not expired.
StillGood(c) == database[c].key # None => ~Expired(database[c].expiry)

\* The tab is loaded: setup(), then reconnect when there is an account.
Load(t) ==
    LET c == active
        k == KeyOf(c)
        lost == k # None /\ ~StillGood(c)
        back == c # None /\ ~(Strict /\ (k = None \/ lost)) IN
    /\ MayLeave(t)
    /\ expiry' = [expiry EXCEPT ![t] = now + Lifetime]
    /\ job' = [job EXCEPT ![t] = IdleJob]
    /\ active' = IF Strict /\ lost THEN None ELSE c
    /\ account' = [account EXCEPT ![t] = IF Strict /\ lost THEN None ELSE c]
    /\ connection' = [connection EXCEPT ![t] = IF back THEN c ELSE None]
    /\ accessKey' = [accessKey EXCEPT ![t] = IF k = None \/ lost THEN AccessKey(None, None)
                                             ELSE AccessKey(c, k)]
    /\ lastActive' = IF back \/ lost THEN c ELSE lastActive
    /\ pending' = IF lost THEN [pending EXCEPT ![c] = None] ELSE pending
    /\ UNCHANGED <<now, known, database, authorised, until, agreed>>

-----------------------------------------------------------------------------
(***************************************************************************)
(* Transactions: getClient and prepareTransactionRequest                   *)
(***************************************************************************)

\* The client of c signs with key k (None: the passkey); what waits for the
\* address is taken out of storage and goes with the transaction.
Prepare(t, c, k) ==
    /\ job' = [job EXCEPT ![t] = [Job("send", c, k, pending[c]) EXCEPT
                                      !.good = k # None => ~Expired(until[k])]]
    /\ pending' = [pending EXCEPT ![c] = None]

\* A transaction, signed by the access key or the account there is.  The key in
\* the database is asked whether it expired: strict options then disconnect.
Send(t) ==
    LET c == accessKey[t].cred IN
    /\ Idle(t) /\ connection[t] # None
    /\ CASE c = None ->
              Prepare(t, account[t], None) /\ UNCHANGED <<active, account, connection>>
         [] c # None /\ StillGood(c) ->
              Prepare(t, c, accessKey[t].key) /\ UNCHANGED <<active, account, connection>>
         [] c # None /\ ~StillGood(c) /\ Strict ->
              /\ pending' = [pending EXCEPT ![c] = None]
              /\ Left(t)
              /\ UNCHANGED job
         [] c # None /\ ~StillGood(c) /\ ~Strict ->
              /\ job' = [job EXCEPT ![t] = Job("send", account[t], None,
                                               IF account[t] = c THEN None ELSE pending[account[t]])]
              /\ pending' = [x \in Credentials |-> IF x \in {c, account[t]} THEN None ELSE pending[x]]
              /\ UNCHANGED <<active, account, connection>>
    /\ UNCHANGED <<now, known, lastActive, database, authorised, until, accessKey, expiry,
                   agreed>>

\* The chain takes the transaction when it knows the key, or learns it with it.
Sent(t) ==
    /\ job[t].at = "send"
    /\ job' = [job EXCEPT ![t] = IdleJob]
    /\ authorised' = IF job[t].auth = None THEN authorised ELSE authorised \cup {job[t].auth}
    /\ UNCHANGED <<now, known, stored, until, account, accessKey, connection, expiry, agreed>>

\* It is only prepared, or it could not be sent.
Unsent(t) ==
    /\ Failures /\ job[t].at = "send"
    /\ job' = [job EXCEPT ![t] = IdleJob]
    /\ UNCHANGED <<now, known, stored, authorised, until, account, accessKey, connection,
                   expiry, agreed>>

Tick ==
    /\ now < MaxTime
    /\ now' = now + 1
    /\ UNCHANGED <<known, stored, authorised, until, account, accessKey, connection,
                   expiry, job, agreed>>

-----------------------------------------------------------------------------
Init ==
    /\ now = 0 /\ known = {}
    /\ active = None /\ lastActive = None
    /\ database = [c \in Credentials |-> Entry(None, 0)]
    /\ pending = [c \in Credentials |-> None]
    /\ authorised = {} /\ until = [k \in Keys |-> 0]
    /\ account = [t \in Tabs |-> None]
    /\ accessKey = [t \in Tabs |-> AccessKey(None, None)]
    /\ connection = [t \in Tabs |-> None]
    /\ expiry = [t \in Tabs |-> Lifetime]
    /\ job = [t \in Tabs |-> IdleJob]
    /\ agreed = None

Connect(t) == SignUp(t) \/ SignInActive(t) \/ SignIn(t)
Prompt(t) == Created(t) \/ Got(t) \/ Authorize(t) \/ Refuse(t)
Transact(t) == Send(t) \/ Sent(t) \/ Unsent(t)

Next ==
    \/ \E t \in Tabs : Connect(t) \/ Prompt(t) \/ Disconnect(t) \/ Load(t) \/ Transact(t)
    \/ Tick

Spec == Init /\ [][Next]_vars

-----------------------------------------------------------------------------
Cred == Credentials \cup {None}
Key == Keys \cup {None}

\* The types of the variables.
TypeOK ==
    /\ now \in 0..MaxTime /\ known \subseteq Credentials
    /\ {active, lastActive, agreed} \subseteq Cred
    /\ database \in [Credentials -> [key : Key, expiry : 0..(MaxTime + Lifetime)]]
    /\ pending \in [Credentials -> Key] /\ authorised \subseteq Keys
    /\ until \in [Keys -> 0..(MaxTime + Lifetime)]
    /\ account \in [Tabs -> Cred] /\ connection \in [Tabs -> Cred]
    /\ accessKey \in [Tabs -> [cred : Cred, key : Key]]
    /\ expiry \in [Tabs -> 0..(MaxTime + Lifetime)]
    /\ job \in [Tabs -> [at : {"idle", "create", "get", "authorize", "send"},
                         cred : Cred, key : Key, auth : Key, good : BOOLEAN]]

\* An access key only signs what the chain accepts: it knows the key, or its
\* authorisation goes with the transaction.
KeyIsAuthorised ==
    \A t \in Tabs : Sending(t) /\ job[t].key # None =>
        job[t].key \in authorised \cup {job[t].auth}

\* No transaction is signed by an access key that had expired when it was made.
KeyIsAlive == \A t \in Tabs : Sending(t) => job[t].good

\* With strict options no transaction is signed by the passkey.
StrictNeverFallsBack == Strict => \A t \in Tabs : Sending(t) => job[t].key # None

\* The account that signs is the one the tab is connected as.
SignsAsConnected ==
    \A t \in Tabs : Sending(t) /\ connection[t] # None => job[t].cred = connection[t]

\* A page load connects nobody but whom the user last connected as.
LoadsPrevious == \A t \in Tabs : Load(t) => connection'[t] \in {None, agreed}
=============================================================================
