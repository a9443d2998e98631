----------------------------- MODULE Connectors -----------------------------
(***************************************************************************)
(* The connectors, one at a time: each against its wallet, in the settings *)
(* of connector and wallet a scene names.  The properties say in which     *)
(* settings they hold.                                                     *)
(***************************************************************************)
EXTENDS Secp256k1, Naturals

CONSTANTS
    Browsers,   \* injected: chains, slots, target, shim, patient, rejects, greets
    Relays,     \* walletConnect: chains, pages, slots, asks, fails, patient
    Portos,     \* porto: chains, default, slots, patient, breaks
    Sdks,       \* coinbaseWallet, gemini, baseAccount: chains, slots, base, patient, adds
    Metas,      \* metaMask: chains, slots, extension, patient, breaks
    Passkeys    \* webAuthn: tabs, keys, grants, strict, refusals, failures, time
                \* (each a function from scenes to such records)

VARIABLES
    scene,      \* of one of these settings, or "keys"
    link, status, on, temps, job,   \* link: the connection of the store
    granted, chain, listening,
    disconnected, connectedFlag, left,
    session, configured, requested,
    now, known, database, pending, authorised, until, accessKey, expiry, agreed,
    signer, login, prompt   \* account, connection and job of the passkey connector

Browser(b) ==
    INSTANCE Injected WITH
        Chains <- Browsers[b].chains, Slots <- Browsers[b].slots,
        Target <- Browsers[b].target, ShimDisconnect <- Browsers[b].shim,
        Patient <- Browsers[b].patient, Rejects <- Browsers[b].rejects,
        Greets <- Browsers[b].greets, connection <- link

Relay(r) ==
    INSTANCE WalletConnect WITH
        Chains <- Relays[r].chains, Slots <- Relays[r].slots, Configurations <- Relays[r].pages,
        Asks <- Relays[r].asks, RelayFails <- Relays[r].fails, Patient <- Relays[r].patient,
        connection <- link

PortoOf(p) ==
    INSTANCE Porto WITH
        Chains <- Portos[p].chains, Slots <- Portos[p].slots,
        DefaultChain <- Portos[p].default, Empties <- TRUE,
        Patient <- Portos[p].patient, Breaks <- Portos[p].breaks, connection <- link

Sdk(k) ==
    INSTANCE SdkConnector WITH
        Chains <- Sdks[k].chains, Slots <- Sdks[k].slots, BaseAccount <- Sdks[k].base,
        Patient <- Sdks[k].patient, AddsOnly <- Sdks[k].adds, bound <- listening,
        connection <- link

Meta(m) ==
    INSTANCE MetaMask WITH
        Chains <- Metas[m].chains, Slots <- Metas[m].slots, Extension <- Metas[m].extension,
        Patient <- Metas[m].patient, Breaks <- Metas[m].breaks, connection <- link

Passkey(k) ==
    INSTANCE WebAuthn WITH
        Credentials <- {"a", "b"}, Keys <- Passkeys[k].keys, Tabs <- Passkeys[k].tabs,
        Grants <- Passkeys[k].grants, Strict <- Passkeys[k].strict,
        Refusals <- Passkeys[k].refusals, Failures <- Passkeys[k].failures,
        Lifetime <- 1, MaxTime <- Passkeys[k].time,
        account <- signer, connection <- login, job <- prompt

\* The scenes of each kind have their own names.
Kinds ==
    <<DOMAIN Browsers, DOMAIN Relays, DOMAIN Portos, DOMAIN Sdks, DOMAIN Metas,
      DOMAIN Passkeys, {"keys"}>>

ASSUME SettingsAssumption ==
    /\ \A i, j \in 1..7 : i # j => Kinds[i] \cap Kinds[j] = {}
    /\ \A b \in DOMAIN Browsers : Browser(b)!ConnectorAssumption /\ Browser(b)!InjectedAssumption
    /\ \A r \in DOMAIN Relays : Relay(r)!ConnectorAssumption /\ Relay(r)!WalletConnectAssumption
    /\ \A p \in DOMAIN Portos : PortoOf(p)!ConnectorAssumption /\ PortoOf(p)!PortoAssumption
    /\ \A k \in DOMAIN Sdks : Sdk(k)!ConnectorAssumption /\ Sdk(k)!SdkAssumption
    /\ \A m \in DOMAIN Metas : Meta(m)!ConnectorAssumption /\ Meta(m)!MetaMaskAssumption
    /\ \A k \in DOMAIN Passkeys : Passkey(k)!WebAuthnAssumption

\* One call of the page at a time.
Single(slots) == \A s, t \in slots : s = t

\* Settings whose wallet stands still while something is in flight, and in which
\* there is one call at a time.
Calm(set) == {x \in DOMAIN set : set[x].patient /\ Single(set[x].slots)}

\* The sessions of pages that do not ask for a chain when they connect, over a
\* relay that does not fail.
CalmRelays == {r \in Calm(Relays) : ~Relays[r].asks /\ ~Relays[r].fails}

-----------------------------------------------------------------------------
(* What a scene leaves alone.                                              *)

secpOnly == <<keys, account, connection>>
activeVars == <<active, lastActive>>
storeVars == <<link, status, on, temps, job>>
walletVars == <<granted, chain, listening>>
flagVars == <<disconnected, connectedFlag>>
sessionVars == <<session, configured, requested>>
passkeyVars == <<now, known, database, pending, authorised, until, accessKey, expiry, agreed, signer,
                 login, prompt>>

allVars == <<scene, left, secpOnly, activeVars, storeVars, walletVars,
             flagVars, sessionVars, passkeyVars>>

NoKeys == UNCHANGED <<scene, secpOnly, activeVars, passkeyVars>>

BrowserRest == NoKeys /\ UNCHANGED sessionVars
RelayRest == NoKeys /\ UNCHANGED <<flagVars, granted>>
SdkRest == NoKeys /\ UNCHANGED <<flagVars, left, sessionVars>>
NoWallet == UNCHANGED <<scene, storeVars, walletVars, flagVars, left, sessionVars>>

BrowserStep(b) == scene = b /\ Browser(b)!Next /\ BrowserRest
RelayStep(r) == scene = r /\ Relay(r)!Next /\ RelayRest
PortoStep(p) == scene = p /\ PortoOf(p)!Next /\ SdkRest
SdkStep(k) == scene = k /\ Sdk(k)!Next /\ SdkRest
MetaStep(m) == scene = m /\ Meta(m)!Next /\ SdkRest
PasskeyStep(k) == scene = k /\ Passkey(k)!Next /\ NoWallet /\ UNCHANGED secpOnly
KeyStep == scene = "keys" /\ Next /\ NoWallet /\ UNCHANGED passkeyVars

ConnectorsNext ==
    \/ \E b \in DOMAIN Browsers : BrowserStep(b)
    \/ \E r \in DOMAIN Relays : RelayStep(r)
    \/ \E p \in DOMAIN Portos : PortoStep(p)
    \/ \E k \in DOMAIN Sdks : SdkStep(k)
    \/ \E m \in DOMAIN Metas : MetaStep(m)
    \/ \E k \in DOMAIN Passkeys : PasskeyStep(k)
    \/ KeyStep

-----------------------------------------------------------------------------
NoSecpInit ==
    /\ keys = {}
    /\ account = [t \in Tabs |-> None] /\ connection = [t \in Tabs |-> None]

NoPasskeyInit ==
    /\ now = 0 /\ known = {} /\ database = None /\ pending = None /\ authorised = {}
    /\ until = None /\ accessKey = None /\ expiry = None /\ agreed = None
    /\ signer = None /\ login = None /\ prompt = None

NoFlagsInit == disconnected = FALSE /\ connectedFlag = FALSE
NoSessionInit == session = {} /\ configured = {} /\ requested = {}
NoSdkInit == NoFlagsInit /\ NoSessionInit /\ left = FALSE
NoWalletInit ==
    /\ NoSdkInit
    /\ link = None /\ status = "disconnected" /\ on = {} /\ temps = {} /\ job = <<>>
    /\ granted = FALSE /\ chain = None /\ listening = {}

WalletInit ==
    /\ NoSecpInit /\ NoPasskeyInit /\ active = None /\ lastActive = None
    /\ \/ /\ scene \in DOMAIN Browsers /\ NoSessionInit
          /\ \A b \in DOMAIN Browsers : scene = b => Browser(b)!Init
       \/ /\ scene \in DOMAIN Relays /\ NoFlagsInit /\ granted = FALSE
          /\ \A r \in DOMAIN Relays : scene = r => Relay(r)!Init
       \/ /\ scene \in DOMAIN Portos /\ NoSdkInit
          /\ \A p \in DOMAIN Portos : scene = p => PortoOf(p)!Init
       \/ /\ scene \in DOMAIN Sdks /\ NoSdkInit
          /\ \A k \in DOMAIN Sdks : scene = k => Sdk(k)!Init
       \/ /\ scene \in DOMAIN Metas /\ NoSdkInit
          /\ \A m \in DOMAIN Metas : scene = m => Meta(m)!Init

PasskeyInit ==
    /\ scene \in DOMAIN Passkeys /\ NoWalletInit /\ NoSecpInit
    /\ \A k \in DOMAIN Passkeys : scene = k => Passkey(k)!Init

KeyInit ==
    /\ scene = "keys" /\ NoWalletInit /\ NoPasskeyInit /\ Init

\* The wallets that stand still, and their users, answer every request, and a
\* connect stores what it was given.
Fairness ==
    /\ \A b \in Calm(Browsers) : \A s \in Browsers[b].slots :
         /\ WF_allVars(scene = b /\ Browser(b)!Answer(s) /\ BrowserRest)
         /\ WF_allVars(scene = b /\ Browser(b)!ConnectStore(s) /\ BrowserRest)
    /\ \A r \in CalmRelays : \A s \in Relays[r].slots :
         WF_allVars(scene = r /\ Relay(r)!Answer(s) /\ RelayRest)
    /\ \A m \in Calm(Metas) : \A s \in Metas[m].slots :
         /\ WF_allVars(scene = m /\ Meta(m)!Answer(s) /\ SdkRest)
         /\ WF_allVars(scene = m /\ Meta(m)!ConnectStore(s) /\ SdkRest)

ConnectorsSpec ==
    /\ WalletInit \/ PasskeyInit \/ KeyInit
    /\ [][ConnectorsNext]_allVars /\ Fairness

-----------------------------------------------------------------------------
\* The connection of the store is the one the wallet or the session has, once
\* nothing is in flight, whoever ended or changed it, if the wallet stands still
\* meanwhile, switches when it is asked to and disconnects when it is told to; it
\* has an account even if the wallet may refuse to switch, and with MetaMask always.
TracksWallet ==
    /\ \A b \in Calm(Browsers) : scene = b =>
         /\ Browser(b)!ConnectionHasAccount
         /\ ~Browsers[b].rejects => Browser(b)!TracksWallet
    /\ \A r \in CalmRelays : scene = r => Relay(r)!TracksSession
    /\ \A p \in Calm(Portos) : scene = p /\ ~Portos[p].breaks => PortoOf(p)!TracksWallet
    /\ \A k \in Calm(Sdks) : scene = k /\ ~Sdks[k].adds => Sdk(k)!TracksWallet
    /\ \A m \in DOMAIN Metas : scene = m => Meta(m)!ConnectionHasAccount
    /\ \A m \in Calm(Metas) : scene = m /\ ~Metas[m].breaks => Meta(m)!TracksWallet

\* The status says whether there is a connection, in whatever order two calls and
\* the events of the wallet came.
StatusIsConnection ==
    /\ \A b \in DOMAIN Browsers : scene = b => Browser(b)!StatusIsConnection
    /\ \A r \in DOMAIN Relays : scene = r => Relay(r)!StatusIsConnection
    /\ \A p \in DOMAIN Portos : scene = p => PortoOf(p)!StatusIsConnection
    /\ \A k \in DOMAIN Sdks : scene = k => Sdk(k)!StatusIsConnection
    /\ \A m \in DOMAIN Metas : scene = m => Meta(m)!StatusIsConnection

\* After disconnect() nothing connects until the user does: an injected wallet with
\* the shim is not found by a page load, a session is over.
StaysDisconnected ==
    /\ \A b \in DOMAIN Browsers :
         /\ scene = b /\ Single(Browsers[b].slots)
         /\ Browsers[b].shim /\ ~Browsers[b].greets
         => Browser(b)!StaysDisconnected
    /\ \A r \in CalmRelays : scene = r => Relay(r)!LeavesNoSession

\* Passkeys of one tab, whose user refuses nothing.
Willing(k) == Single(Passkeys[k].tabs) /\ ~Passkeys[k].refusals

\* What the passkey connector sends is signed by a key the chain accepts, that had
\* not expired, for the account of the connection, and with strict options never
\* by the passkey itself: the first two in a single tab, the last two before any
\* key expires.
SignsAsAllowed ==
    \A k \in DOMAIN Passkeys : LET its == Passkeys[k] IN scene = k =>
        /\ Single(its.tabs) /\ ~its.failures /\ (its.refusals => its.strict) =>
             Passkey(k)!KeyIsAuthorised
        /\ Willing(k) => Passkey(k)!KeyIsAlive
        /\ its.time = 0 /\ (its.grants => its.strict) => Passkey(k)!SignsAsConnected
        /\ its.time = 0 => Passkey(k)!StrictNeverFallsBack

\* Nobody is connected but as agreed: a page load of the passkey connector connects
\* whom the user last connected as, and a session is not used by a page that has
\* more chains than were asked for.
ConnectsAsAgreed ==
    [][/\ \A k \in DOMAIN Passkeys : scene = k /\ Willing(k) => Passkey(k)!LoadsPrevious
       /\ \A r \in CalmRelays : scene = r => Relay(r)!ChainsWereAsked]_allVars

\* A switch of the chain returns, whatever events the wallet leaves out, and so does
\* every call of a WalletConnect page that does not ask for a chain when it connects.
SwitchesEnd ==
    /\ \A b \in Calm(Browsers) : \A s \in Browsers[b].slots :
         LET Switches == scene = b /\ Browser(b)!Switching(s) IN Switches ~> ~Switches
    /\ \A r \in CalmRelays : \A s \in Relays[r].slots :
         LET Calls == scene = r /\ Relay(r)!InFlight(s) IN Calls ~> ~Calls
    /\ \A m \in Calm(Metas) : \A s \in Metas[m].slots :
         LET Switches == scene = m /\ Meta(m)!Switching(s) IN Switches ~> ~Switches
=============================================================================
