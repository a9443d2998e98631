# Verification of the wallet contracts and of wagmi

TLA+ specifications of the Sequence wallet contracts under `src/contracts` and of
the connection layer of wagmi under `src/packages`, TLC runs that check them on
small instances, and TLAPS proofs for every value of the constants.

## The system

The repository holds two programs that meet at a wallet.

### The wallet contracts

A Sequence *wallet* is a minimal proxy (`Wallet.sol`) deployed by `Factory.sol`
at an address derived from its first *configuration* (image hash). The proxy
delegates every call to `MainModule`, or to `MainModuleUpgradable` once its
configuration has changed. The modules share the storage of the proxy:

| part | state | operations | used by |
|---|---|---|---|
| `ModuleCalls` | none of its own | `execute(txs, nonce, signature)`, `selfExecute(txs)` | relayers, the wallet itself |
| `ModuleNonce`, `SubModuleNonce` | a counter per nonce space | `_validateNonce` | `execute` |
| `ModuleAuth`, `ModuleAuthFixed`, `ModuleAuthUpgradable` | image hash | `_signatureValidation`, `updateImageHash` | `execute`, ERC-1271 callers |
| `ModuleExtraAuth`, `ModuleStaticAuth` | expirations of further image hashes and of digests | set, clear | `_signatureValidation` |
| `ModuleUpdate`, `Implementation` | implementation slot | `updateImplementation` | the proxy |
| `ModuleHooks`, `EIP4337Hook` | a contract per selector | `addHook`, `removeHook`, fallback; `validateUserOp`, `eip4337SelfExecute` | token contracts, the EIP-4337 entrypoint |
| `SequenceBaseSig`, `SequenceDynamicSig`, `SequenceNoChainIdSig`, `SequenceChainedSig`, `SignatureValidator` | none | recover image hash, weight, threshold, checkpoint | `ModuleAuth` |
| `SessionUtils`, `GapNonceUtils`, `NonceResetUtils`, `RequireUtils` | gap nonce, session nonce | transactions a bundle puts first | `execute`, by delegatecall |
| `EIP6492` (`UniversalSigValidator`) | none | validate a signature of a wallet not yet deployed | off-chain and on-chain verifiers |
| `Timelock`, `Ownable` | commitments, delays, owner | schedule, cancel, execute, setDelays, ownership | stand-alone |
| `ModuleRepository`, `MainModuleAutoUpdate` | a module per key | `setModule`, fallback | wallets that update themselves |

Within one blockchain transaction everything is a nested call: a relayer's contract
calls `execute`, the bundle calls foreign contracts, they call `execute` again with
another signed request, and so on. The shared state is the storage of the proxy; a
call that reverts puts back the storage as it was when the call was made. Between
blockchain transactions only the block time moves. Nothing runs in parallel: what
interleaves is the calls of one stack.

### The connection layer of wagmi

A page of an application holds one *Config*. Its store says which connectors are
connected, with which chain and accounts; asynchronous actions and the events of
the connectors change it, and a persisted copy outlives the page.

| part | state | operations and events |
|---|---|---|
| `core/createConfig.ts`, `core/hydrate.ts`, `core/actions` | `status`, `current`, `connections`, `chainId`; the persisted copy; the handlers on each emitter | `connect`, `reconnect`, `disconnect`, `switchConnection`, `switchChain`, page load, hydration, mount; `connect`, `change`, `disconnect` of a connector |
| EIP-6963 discovery (`createConfig.ts`, mipd) | the list of connectors | announcements, mount |
| `watchBlocks`, `watchBlockNumber`, `watchContractEvent`, `watchPendingTransactions` | the watcher, the subscription | call, stop, chain change |
| `react/useConnectionEffect.ts` | what the application believes | each pair of consecutive states |
| `injected.ts`, `walletConnect.ts`, `porto.ts`, `coinbaseWallet.ts`, `baseAccount.ts`, `gemini.ts`, `metaMask.ts` | the closures on the provider, flags in storage | `connect`, `disconnect`, `switchChain`, `accountsChanged`, `chainChanged`, `connect`, `disconnect` |
| `tempo/Connectors.ts` (`dangerous_secp256k1`, `webAuthn`) | keys, credentials and pending authorisations in storage; an account per tab | `setup`, `connect`, `disconnect`, `getClient`, transactions |

A page is one thread: code runs from one `await` to the next. What interleaves is
the calls in flight, the answers and events of the wallets, the user, storage that
answers later, and other tabs of the same browser; and a page may be closed between
any two of them.

### What is hard here

Listed line by line as hazards in `PROJECT.json`:

- *re-entrancy*: foreign code runs between two transactions of a bundle, and
  between the two lines of `Timelock.execute`;
- *partial failure*: optional transactions fail and are skipped, required ones undo
  the bundle, at every depth; a sign-in or a switch is refused half way;
- *authority that changes while it is used*: a bundle may rotate, lend, approve or
  downgrade the configuration that signed it, or remove the hook that runs it;
- *long legal sequences*: a session helper that sets nonces back, chained
  signatures nested in chained signatures, upgrades in two steps;
- *boundaries*: the last nonce of a space, an expiration equal to the block time,
  odd levels of a Merkle tree, `eta + maxDelay` past a word;
- *state read before an `await`* and written back after it (`disconnect.ts:33`,
  `reconnect.ts:90`, `injected.ts:484`);
- *calls that overlap*: several share one `status`, one set of listeners;
- *what outlives the page*: storage, sessions, keys, flags that stand for a
  disconnect; server rendered pages that promise work nobody may begin;
- *switches that wait for an event* the wallet, its own chain change or the
  connector's own closure may or may not send.

## Modules

| module | models | checked by | proved in |
|---|---|---|---|
| `WalletState` | the storage and every function on it, authorisation included | (through `Wallet`) | `WalletProofs` |
| `Wallet` | one wallet with its call stack; extends `WalletState` | `MCWallet`, `MCScenes` | `WalletProofs` |
| `RequestLog` | what a wallet is from outside: the abstract specification of `Wallet` | `MCScenes` (refinement) | `WalletProofs` |
| `Timelock` | `Timelock` and `Ownable`, with re-entrant targets | `MCTimelock` | `TimelockProofs` |
| `ChainedSig` | `ModuleAuth.signatureRecovery`, `chainedRecover`, `_signatureValidation` | `MCChainedSig`, `MCSignatures` | `SignatureProofs` |
| `SequenceSig` | `SequenceBaseSig.recover` | `MCSignatures` | `SignatureProofs` |
| `Signatures` | composes `ChainedSig` and `SequenceSig` | `MCSignatures` | `SignatureProofs` |
| `SigValidation6492` | `UniversalSigValidator` | `MCOutside`, itself | `OutsideProofs` |
| `Wallet4337` | `ModuleHooks`, `EIP4337Hook`, `Factory.deploy` under an entrypoint | `MCOutside` | `OutsideProofs` |
| `JsMap` | a JavaScript `Map` with its insertion order | (through `Config`) | `ConfigProofs` |
| `Config` | store, storage, actions and events of a Config, over page loads | `MCConfig`, `MCPages` | `ConfigProofs`, `PageProofs` |
| `ConnectionStatus` | what `status` promises: the abstract specification of `Config` | `MCConfig` (refinement) | `ConfigProofs` |
| `ConnectionEffect` | `useConnectionEffect` composed with `Config` | `MCPages` | `PageProofs` |
| `Discovery` | which announced wallets are listed | `MCPages` | `PageProofs` |
| `Watch` | the four watching actions | `MCPages` | `PageProofs` |
| `Pages` | composes `ConnectionEffect`, `Discovery` and `Watch`, in settings that are constants of it | `MCPages` | `PageProofs` |
| `Connector` | what connectors share: one place in the store, emitter, calls in flight | (through the next five) | `ConnectorProofs` |
| `Injected`, `WalletConnect`, `Porto`, `SdkConnector`, `MetaMask` | one connector each against its wallet; `SdkConnector` is Coinbase Wallet, Gemini and Base Account | `MCConnectors` | `ConnectorProofs` |
| `Secp256k1`, `WebAuthn` | the tempo connectors, over tabs and page loads | `MCConnectors` | `KeyProofs` |
| `Connectors` | composes the seven connector modules, in settings that are constants of it | `MCConnectors` | `ConnectorProofs`, `KeyProofs` |

Definitions keep the names of the source where there is one (`Execute`, `TxFailed`,
`SwitchConnection`, `ValidChain`); `PROJECT.json` maps each to its lines. A definition
under a comment "Mistake" is the next definition with a plausible bug. No
specification uses it: replacing the right one by it must make a run find a property
violated, which shows that the property depends on that code.

The `MC` modules combine specifications that ask related questions, so that a run is
one question about the system: a variable that no step changes (`page`, `scene`,
`side`, `way`, `storage`) says which specification, with which constants, a behaviour
is of, and each property says of which of them it speaks. The settings are records
(`Pages`, `Browsers`, `Relays`, ...), each field a constant of the specification. Those of
the pages are constants of the module `Pages`, those of the connectors of `Connectors` (and
the lists of members and the histories of signatures constants of `Signatures`); their
properties name the settings in which they hold by a condition (`Prompt`, `OneCall`, `Calm`,
`CalmRelays`, `Willing`), and `MCPages` and `MCConnectors` list the settings that are run.

### WalletState and Wallet

| state | in the code |
|---|---|
| `store` | the proxy's storage: a nonce per space, gap nonce, image hash, implementation, expirations of extra image hashes and of static digests |
| `stack` | the EVM call stack: frames of the wallet (a bundle and how far it is) and of foreign code, each with the storage its revert restores |
| `returned` | the success flag a bundle reads after each call |
| `now` | `block.timestamp` |
| `ledger` | history, reverted with the storage: requests accepted, bundles started, transactions executed |

`Execute` is `ModuleCalls.execute` up to its loop: the nonce is checked and
written, the signature checked. `CallLocal`, `CallSelfExecute`, `CallForeign` and
`CallOutOfGas` are the ways one transaction can go; `TxExecuted`, `TxFailed` and
`RevertOnError` what the loop does with the outcome; `EndBundle` and `Fail` its
ends. `CallDirectly` is foreign code that calls an `onlySelf` function.
A refused `execute` changes nothing, so it is no step. The nonce is written before the
signature is checked, but both happen inside one call of view functions
only; together they are one step. The configuration functions take a fixed wallet to
the upgradable implementation in the same update, as `ModuleAuthFixed` does, and the
gap nonce may skip values but must strictly grow.

Signatures are abstracted to the sets of configurations that signed a request
(`Signers`); what a signature recovers to is the matter of `ChainedSig` and
`SequenceSig`, and what is proved there (only the configuration on chain, or one
it delegated to, can speak) is what `Signers` stands for here. Validation is a
view, so nothing can happen between its steps. Delegatecalls of a bundle are
those of the session and require helpers, which the code ships for it.

`RequestLog` is what is left of a wallet when only the states between blockchain
transactions are looked at: a log to which requests are added, whole and in the order of
their nonces. `Wallet` implements it with its lanes mapped to the spaces other than that
of the sessions.

### Timelock

`commits`, `minDelay`, `maxDelay`, `owner` are the contract's variables. `Execute`
clears the commitment and enters the call; while the target runs, any function can be
called (`Callable`); `CallReturns`, `CallSetDelays` and `CallFails` end it.
`SetDelaysDirectly` is everybody else calling `setDelays`: the call reverts
(`Timelock.sol:55`), which leaves everything as it was. The owner is assumed never to be the timelock
itself. Sums are checked as Solidity 0.8 does, in words of `MaxWord`.

### ChainedSig

`stack` holds the calls of `chainedRecover` in progress, each with the digest it
was asked for and the values it would return; `result` is what the innermost
`signatureRecovery` returned. `RecoverBase` is a signature of one of the three flat
types: it may name any configuration, and has enough weight only if that
configuration signed. `signed`, the set of signatures that exist, is arbitrary.
The checkpoint of a configuration is a constant of it, as `ModuleAuth` uses it.

### SequenceSig

The two loops of `SequenceBaseSig`: one step per part, then one per node of each
level of the tree, in the workspace the code overwrites. Whoever writes the
signature chooses the number of parts, each part and each word of the witness.
Hashes are terms, equal only when made of equal things. `honest` is a history
variable: so far the signature is one of the wallet's own configuration, with any
members left out. Reading past the end of the signature yields zeros or the bytes
behind it, which is a choice its writer has anyway. Of a signature scheme only who
signed is left.

### SigValidation6492

One call of one of the four entry points. `chain` is the signer (deployed or not,
and what it replies) and whether a factory call left traces; `phase` is the place
in `isValidSigImpl` or in its caller. `Raise` is the revert of the call
`this.isValidSigImpl`: it undoes the whole of it, retries included. `recovery` is what
`ecrecover` makes of a plain signature: the signer, somebody else, or the zero address
when no key made it; `zero` says that the signer asked about is the zero address. A reply that
is no `bytes4`, or a signer without code, makes the validator itself revert, which
its `catch` does not see.

### Wallet4337

A wallet that an entrypoint runs. `Deploy` is `Factory.deploy`; `hooks` the selectors
that lead to `EIP4337Hook`; `ValidateUserOp` and the run of `eip4337SelfExecute` go
through the fallback. The entrypoint is external: it validates all operations of a
bundle before it runs the first, consumes each once, and takes the fee of a failed
one too. While it is at work, signed requests may be relayed from the calls of an
operation (`Execute`), and anybody may call the wallet with the calldata of one
(`Intrude`); they may rotate the configuration and add or remove the hooks. A bundle may
also run out of gas, and does nothing then (`DoOrRevert`). `Heirs` are the configurations
that the rotations done so far have put in charge.

### Config

| state | in the code |
|---|---|
| `chainId`, `connections`, `current`, `status` | the store; `connections` is a reference into `heap`, because `disconnect` and `reconnect` keep the Map they read across an `await` |
| `on` | which handlers of `createConfig.ts` hang on each connector's emitter |
| `isReconnecting` | the module variable of `reconnect.ts` |
| `task` | the calls in flight: where each waits, and what it read before |
| `disk`, `recent` | the storage items `wagmi.store` and `wagmi.recentConnectorId` |
| `hydration`, `unread`, `mounted` | how far the persisted state is read and the provider mounted |
| `life`, `seen` | the page load, and (history) the last chain a settled page showed |

An action is the code from one `await` to the next: `Connect`, `ConnectAnswer`,
`ConnectDone` are the three parts of `connect`. `SetState` is zustand's `setState` with
what runs in the same turn: the persisting middleware and the `syncConnectedChain`
subscription (`Synced`). Wallets are seen through their answers: a connect is answered
with any chain or fails, a reconnect finds a connector or not, and events come when
their handler is hung. Connectors get a fresh uid on each page load; a connection with
the uid of an earlier page is a *ghost*. Accounts are not part of this module: a
connection is represented by its chain.

`ConnectionStatus` is what a reader of `status` may rely on: it is "connecting" or
"reconnecting" only while some worker is at it, and whoever ends its work settles it or
leaves it to another. `Config` implements it with `Workers` mapped to its calls and the
server rendered page, and `work` to those of them that may still connect (`Work`).

### ConnectionEffect, Discovery, Watch, Pages

`ConnectionEffect` adds to `Config` what an application believes that goes by the
callbacks of `useConnectionEffect` (`told`). `Discovery` has announcements, the list
of connectors and when storage was read; mipd is external and keeps every announcement,
whatever its name. `atOnce` is history: the wallets that `createConfig`, or the mount of a
server page, listed in one go.
`Watch` is the one structure of the four watching actions: a viem watcher per call,
replaced when the chain of the Config changes unless the call named a chain.

`Pages` is a page of any of these kinds, and states of which pages the properties
hold. `NoGhosts` needs a storage that answers at once and one call at a time, or no
reconnect; `OfferedOnce` a storage that answers at once or a server page that mounts once;
`FollowsConnections` that no call disconnects, and that no chain of another connection is
switched; `HeardRight` that the page only connects and switches. `ChainSurvivesReload` is of
pages that are not left before they mounted, because `createConfig` has by then
overwritten the stored chain; with a server it needs the cookie, and no wallet that connects
by itself before storage is read, because its `setState` writes the initial chain.

### The connectors

`Connector` is one connector's place in the store, the listeners on its emitter and
the calls and handlers in flight (`job`, at most `Slots`); the five modules that extend it
add the wallet and the connector's own code. The composition includes what
`connect`, `reconnect`, `disconnect` and the handlers of the Config do with this one
connector (`Opened`, `Removed`, `EmitChange`, `EmitDisconnect`, `EmitConnect`). The wallet is
seen as the page sees it: its answers and events arrive in the order it sent them.

How a wallet may behave is a matter of constants, each true of some wallet the connector
is used with: it changes only while nothing is in flight (`Patient`), the user may
refuse a switch (`Rejects`), the provider may emit `connect` at any time (`Greets`), the
wallet may ask the user to add a chain (`Asks`) or only add it (`AddsOnly`), the relay or the
SDK may fail to disconnect (`RelayFails`, `Breaks`), accounts may be given back as an
empty list (`Empties`). `WalletConnect` has the session beside the page: `configured` are
the chains of this page, `requested` those stored with the session, so a page load with
other chains decides whether the session is stale. A switch inside `connect` that the wallet
refuses because it cannot add chains does not fail the connect (`SwitchUnadded`).

`Secp256k1` and `WebAuthn` have tabs that share storage. In `WebAuthn` a user refuses or
confirms each prompt, an access key is generated, stored, authorised by the passkey and
carried to the chain by the first transaction (`pending`, `authorised`), and expires while
the page is open (`now`).

## Runs

| run | question | instance | distinct states |
|---|---|---|---|
| `wallet_replay` | is every request accepted once, and does every transaction end? | 5 requests competing in 2 spaces, optional and required calls, a nested bundle; 2 nonces per space, 6 frames | 14 691 |
| `wallet_govern` | can control leave the hands that sign, or a session request run twice? is the wallet a log of requests? | 4 configurations, one of them rogue; rotation, downgrade, upgrade, lending, approval; 3 session bundles and their upgrade; times 0 to 2, 5 frames | 26 379 |
| `timelock` | does nothing run unannounced or twice? | a payment and a change of delays, 2 accounts (symmetric), words up to 7, times up to 5, 3 nested executions, 3 bookings | 221 236 |
| `signatures` | who speaks for the wallet, and with what weight? | 4 configurations, two with equal checkpoints, all histories of one to three signatures, chains in chains; configurations of 2, 3 and 5 members, signatures of 0 to 5 parts, every useful witness | 2 927 746 |
| `outside` | are the ways in beside `execute` as safe? | EIP-6492: all entries, signatures, signers and factories; ERC-4337: 5 operations and 4 requests, bundles of 3, 3 configurations, one of them rogue | 5 529 |
| `config` | does the status keep its promise, and settle? | server rendered page from a cookie, 2 connectors, 2 calls at once, storage that answers at once or later | 96 914 |
| `pages` | what is left, heard, believed, listed, watched? | 5 pages of one call at a time and up to two loads, with 2 connectors and 2 or 3 chains; 5 announcements, two of one name; 3 watching calls | 87 804 |
| `connectors` | is each connection the one the wallet has? | 19 settings of 9 connectors (Gemini is as Coinbase Wallet): one call with events in flight, or two calls at once | 419 060 |
| `chained_sig_order` | do checkpoints descend? **violated** | as `signatures`, with distinct checkpoints | (stops) |
| `sig_validation_trace` | are there side effects? **violated** | as `outside` | (stops) |
| `sig_validation_errors` | do errors arrive? **violated** | as `outside` | (stops) |
| `wc_hang` | does every call end? **violated** | 2 chains, 1 call, a patient wallet that asks | (stops) |

What each property says stands above it in its module. The type invariants are
proved where there is a proof module, and are otherwise the documentation of the
variables, which no listed run checks.

Why the bounds are enough.

- *Two nonces per space* make a space run out, so that the counter holds the
  value no request can carry; the competing requests share a nonce or follow one
  another.
- *Depth 5 or 6*: foreign code, bundle, foreign code, second bundle, and a nested
  bundle or a call in it. Every pair "a bundle is running while another is accepted and
  reverted" occurs from depth 4 on. A call beyond the bound fails like one
  without gas.
- *Times to 2* put an expiration before, at and after the block time, and the expiry
  of an access key before and after its use.
- *Words to 7 in the timelock* let `eta + maxDelay` overflow for some bookings and
  not for others; three bookings allow one that is replaced, one cancelled and one run.
- *Three signatures* are the least that make the order of checkpoints matter in a
  nested chain: one signs the message and two delegate.
- *Five parts* give a tree with an odd node on two levels, and empty subtrees on
  each.
- *Bundles of three operations* let one be validated before another rotates the
  configuration or removes the hook, and run after it.
- *Two connectors and two calls* (`Tasks`): every race in `Config` is between two
  pieces of work on the shared status or Map; a third call finds the states two leave.
  *Two page loads* (`MaxLife`): what the second does depends on the first only through
  storage.
- *One chain the Config does not have* makes wallets report and storage hold an
  unsupported chain.
- *One or two slots* (`Slots`): one call of the page with the events of a wallet
  that comes to its answers in between, or two calls at once.
- *Two keys, two passkeys, two tabs* in `WebAuthn` make one tab's key the newer one
  and one tab's account the other's; `Secp256k1` has three generated accounts and the one
  of its options.
- *`MaxMounts`, `MaxSetups`* let the provider mount once and every announcement be set
  up as often as the others can cause.

`CHECK_DEADLOCK FALSE` is set where what is modelled ends for good: a signature was
recovered, a validation answered, a page that loads no more has run out of
announcements. The constraint `OneScene` of `wallet_govern` keeps the requests of its
two scenes apart.

### What the violated runs show

- `chained_sig_order`: `SequenceChainedSig.sol:118` wants checkpoints in descending
  order. The test compares a part with the one before it in the same chain, and
  of a nested chain only the last checkpoint is returned. So the chain with
  checkpoints 3, 4, 2 is refused, and accepted with the last two nested: the
  configuration of checkpoint 4 has put the older one of checkpoint 3 in charge
  again. What the order protects most still holds and is proved
  (`SupersededStaySilent`): nobody at or below the checkpoint on chain is heard.
- `sig_validation_trace`: `isValidSig` promises no side effects (`EIP6492.sol:58`,
  `:109`), but the experimental retry makes the factory call for a signer that is
  already deployed, and the answer is then not given by revert, because the test at
  `:57` asks for a signer without code. The trace: a deployed signer refuses, the
  retry's factory call changes it, it accepts, and the change stays.
- `sig_validation_errors`: `revert(error, len)` at `EIP6492.sol:115` starts at the
  length of the error instead of at its first byte, so errors are not "simply
  forwarded".
- `wc_hang`: `connect({ chainId })` of the WalletConnect connector switches to the chain
  (`walletConnect.ts:176`) before it hangs `chainChanged` (`:205`), and `switchChain` waits
  for the `change` event that only this closure emits: connected, switched, and
  waiting for ever. `SwitchesEnd` shows that calls which need no switch inside a
  connect do end.

### Fairness

Nobody is ever assumed to call anything: fairness is of what was begun.

- `TransactionEnds`: the wallet's own code is never suspended (weak fairness of its
  steps) and foreign code at each depth cannot go on making calls for ever
  (strong fairness of its return): gas, which the model does not count, gives both.
- `ValidationEnds`: a running call goes on, again gas and a node that executes.
- `Settles`: the event loop runs promises that are resolved (`Continue`, `Hydrate`), a
  wallet answers a request with an account or an error (`Answer`), and React mounts
  what it rendered (`Page`, until mounted). None is assumed of calls, events of
  connectors or reloads.
- `SwitchesEnd`: the wallet, or the user for it, answers every request, with success or
  an error. Events of the wallet are *not* assumed: a switch must end when they do not
  come. It is checked of patient wallets: an injected wallet that is moved to
  another chain right after a switch may keep `switchChain` waiting (see below).

## Proofs

All theorems are checked by TLAPS for every value of the constants that the named
assumptions admit: `NonceAssumption`, `ConfigAssumption`, `RequestAssumption`,
`BoundAssumption` (types of the parameters), `TrustAssumption` (the trusted family is
closed under what its members sign), `TimelockAssumption`, `ConfigAssumption` of
`ChainedSig` and of `Config`, `PartsAssumption`, `WatchAssumption`, `PagesAssumption`, `DiscoveryAssumption`,
`Secp256k1Assumption`, `Wallet4337Assumption`, `SettingsAssumption`. The bounds on
depth, bookings, page loads and calls in flight are parameters too, so the results
hold for any of them.

| theorem | property |
|---|---|
| `WalletProofs!TypeCorrect` | `TypeOK` |
| `WalletProofs!ReplayProtection` | `NoReplay` |
| `WalletProofs!NonceMonotonicity` | `NoncesNeverRewind` |
| `WalletProofs!ControlIsInherited` | `NoTakeover` |
| `WalletProofs!NoncesAreSpentInOrder` | `NoncesCountRequests` |
| `WalletProofs!BundlesAreAtomic` | `AllOrNothing` |
| `WalletProofs!SessionsRunOnce` | `SessionOnce` |
| `WalletProofs!SessionsRunInOrder` | `SessionOrder` |
| `WalletProofs!AuthorityNeedsABundle` | `AuthorityIsGranted` |
| `WalletProofs!WalletStaysOpen` | `NeverLocked`, if `UpgradesAreCompleted` |
| `WalletProofs!WalletIsALog` | `KeepsLog` |
| `TimelockProofs!TypeCorrect` | `TypeOK` |
| `TimelockProofs!DelaysAreBooked` | `DelaysWereBooked` |
| `TimelockProofs!OneRunPerBooking` | `RunsOncePerBooking` |
| `TimelockProofs!NoticeIsGiven` | `RunsAfterNotice` |
| `TimelockProofs!RenouncedIsFinal` | `RenouncedForGood` (no run checks it) |
| `SignatureProofs!TypeCorrect` | `TypeOK` |
| `SignatureProofs!DelegationIsSound` | `OnlyDelegatesSpeak` |
| `SignatureProofs!SupersededAreRefused` | `SupersededStaySilent` |
| `SignatureProofs!NothingIsForged` | `NoForgedWeight` |
| `SignatureProofs!SomeMayBeLeftOut` | `MembersMayBeLeftOut` |
| `ConfigProofs!TypeCorrect` | `TypeOK` |
| `ConfigProofs!ChainIsConfigured` | `ChainIdIsConfigured` |
| `ConfigProofs!StatusIsTrue` | `StatusReflectsWork` |
| `ConfigProofs!Refinement` | `KeepsStatusPromise` |
| `PageProofs!TypeCorrect` | `TypeOK` |
| `PageProofs!NeverTwo` | `OneWatcher` |
| `PageProofs!Follows` | `FollowsChain` |
| `PageProofs!FixedIsExact` | `FixedStops` |
| `PageProofs!WalletsAreOffered` | `OfferedOnce` |
| `PageProofs!ConnectionsAreFollowed` | `FollowsConnections` |
| `PageProofs!ChainsSurvive` | `ChainSurvivesReload` of the pages |
| `PageProofs!NothingIsLeftBehind` | `NoGhosts` of the pages |
| `PageProofs!ApplicationsHear` | `HeardRight` of the pages |
| `KeyProofs!TypeCorrect` | `TypeOK` |
| `KeyProofs!ActiveCanSign` | `ActiveIsUsable` |
| `KeyProofs!LeavingIsFinal` | `NothingIsLeft` |
| `KeyProofs!SignsForItself` | `NeverSignsForAnother` |
| `KeyProofs!SignedAsAllowed` | `SignsAsAllowed` |
| `KeyProofs!ConnectedAsAgreed` | `ConnectsAsAgreed` |
| `OutsideProofs!SignerDecides` | `DeployedSignerDecides` |
| `OutsideProofs!DeploymentIsUndone` | `NoTraceOfDeployment` |
| `OutsideProofs!AnswersAreVouched` | `NoForgedAnswer` |
| `OutsideProofs!DeedsAreDoneOnce` | `DoneOnceAccepted` |
| `OutsideProofs!HeirsAlone` | `OnlyHeirsAct` |
| `ConnectorProofs!StatusIsTrue` | `StatusIsConnection` |
| `ConnectorProofs!DisconnectedStays` | `StaysDisconnected` |
| `ConnectorProofs!WalletIsTracked` | `TracksWallet` |

*Wallet and timelock.* A revert brings back a storage saved long before, so no
invariant of the present storage is inductive alone. `Inv` states `WorldOK` of the
present storage with its ledger and of every pair that a frame has saved: a step
that changes the storage has to preserve `WorldOK`, a step that pushes a frame copies
it, and a step that reverts takes it from the frame. `NoReplay` needs the stronger
`ReplaySafe` (an accepted request's nonce is below its counter), `NoTakeover` needs
`TrustSafe` (whatever the storage could make valid is trusted, expired or not) and
that every bundle on the stack is trusted. `NoncesBehind`, and `RunsBehind` in the
timelock, order the saved states along the stack: a revert to a frame cannot go
behind what an outer frame has seen.

*What bundles leave behind.* `Inv` says what is true of each saved storage by itself.
What a bundle has done is a relation between two of them, and a second invariant,
`History`, states it along the stack (`Chain`): each call `Leads` from the storage and
the ledger it was made in to those of the call it made, the last one to the present.
`Leads(f, s, l)` counts, for each transaction of each batch, the starts that have not come
to it (`Owed`): since call `f` was made this grew by one exactly if `f` itself still has
to come past the transaction (`Pending`), and by no less if the transaction may fail.
It also says that a bundle which has locked the wallet still has its `updateImageHash`
before it. When a call returns, its relation and its caller's compose (`LeadsCompose`);
when it reverts, its caller is again where it was; when the last one is gone, nothing is
owed (`Settled`), which is `AllOrNothing` and `NeverLocked`. `HistoryOK`, of every saved
storage, has the nonces spent in order and the session checks passed at or below the gap
nonce; `AnswerOK` keeps between a call's answer and its use what the answer means: the
session check that has just passed is above all that passed before. `UpgradesAreCompleted`
is an assumption about the owners' batches, which `MCScenes` asserts of its own: the code
lets them lock the wallet (see below).

*The wallet as a log.* `RequestLog` is the wallet of somebody who looks at it between
blockchain transactions: one step adds some requests, in each space the next in the order of
their nonces, each with all that its batch requires, or nothing changes. `KeepsLog` says
that `Wallet` implements it, the log being read from the state that the first call on the stack
would revert to (`PublicStore`, `PublicLedger`): what a transaction in progress does is not
seen before it ends. Most steps are stutters because that call stays where it is
(`FirstStays`). The one that counts is the return of the last call, which shows in one step
what a whole transaction did. `Follows`, a third invariant, says what this can be: the
ledger continues that of the first call, each batch started at least once for each request
added, and the storage is the first call's own unless there is such a request; likewise for
what each later call would revert to. With `HistoryOK` of both storages the requests added
have the nonces between the two counters, each once (`AddedInOrder`), and with `Settled` they
have run as a whole (`ReturnSettles`). The session space is not a lane, since a session
check resets its counter; what holds there is `SessionOnce` and `SessionOrder`. Who may add to the
log is not part of it either: that is `NoTakeover`.

*Ways in beside `execute`.* `ValidationInv` says at each step of a validation what was
asked and undone: a deployed signer that accepts was asked first (`AskedFirst`), one
without code is asked once, with the factory's work in place only while it is asked
(`OneAttempt`), and the byte that means true is somebody's word (`Vouched`), but for the zero
address, of which it is true when nobody's key made the signature (`ZeroIsNobody`). It says
nothing of what factories do: the model lets them do anything. `EntrypointInv` adds
to the counts of runs that what waits in a bundle is consumed, has not run and is in
it once, and counts the payments by the finite set `Payers`. `HeirsInv` says that the
configuration in charge and the signers of what was consumed are heirs, and no step takes an
heir away (`HeirsGrow`). All these theorems are of the composition the run checks, for any
configurations, operations, requests and bundles.

*ChainedSig.* The invariant gives a meaning to a half-read chain. `Backs(c, m)`: in
every family of configurations that contains `c` and is closed under delegation,
somebody signed `m`, either `c` or one of a later checkpoint. Each frame's last
configuration backs the subdigest it would return, and each frame was asked for the
digest the one around it wants next. The one real argument is `BackingDescends`: if
`y` backs the delegation to `x`, `x` backs `m` and `y` has the lower checkpoint, then
`y` backs `m`; it covers a part that is itself a chain without a case of its own.
Both theorems follow from `Backs` of the last configuration.

*SequenceSig* is proved for lists of members of any length, with any number of parts and
words of the witness. Its definitions recur over the levels of the tree; the induction
theorems of the library cannot be used, so `NatSet` states induction as a fact about a set
of naturals (of a set that is closed nothing is missing: its least missing number would
have one before it), and `RecursionDefines` derives from it that the recursive definitions
define something, once for all of them (`Step`). `LevelFacts` then has the sizes of the
levels, with the end of the loop: a level is one node, or smaller than the one below it.

- `NothingIsForged`. The words that matter, the leaves and the hashes of such words, have a
  weight: a leaf that of its address, if it signed, and a hash that of both its children
  (`WordsWeigh`). `WeighedInv` says that the weight collected is in the words of the workspace:
  those of the parts read so far; then those of the nodes of the level already made and of
  the nodes below that have no parent yet. `CombinesWeighs` is the step: whatever word the
  witness puts in for an empty child can only add. On the side of the configuration every
  level weighs the same (`LevelsWeigh`), hence the root weighs what the members who signed do
  (`RootWeighs`). If the roots agree, so do their weights.
- `SomeMayBeLeftOut`. `LeftOut`: while parts and witness are honest, each word of the workspace
  is that of the same node in the tree of the configuration, or empty.

*Config.* `StatusReflectsWork` is inductive together with the types and with
`ReconnectingIsWork` (`IInv`): the module variable of `reconnect.ts` is set only while a
reconnect runs, so a call that finds it set may return and leave the status to that one. A
page that was rendered from a cookie and will reconnect is a worker until its `onMount`
hands the work to a call. One lemma per
action shows that the action keeps `IInv` and, for the refinement, which step of
`ConnectionStatus` it is: a call that begins is `Begin`, one that ends is `End` and
settles the status, or `Join` when it leaves the status to another; the mount is
`HandOver`; events, and calls that only change what is there, are `Settle`; a page load
is `Reset`. Fairness plays no part: `ConnectionStatus` is a safety specification.

*Watch* (in `PageProofs`). `IInv` adds to the types that `unwatch` of a call holds its one running
watcher and that a call at work which follows the chain has it on the current chain.

*Pages.* The theorems are of the composition `PagesSpec`: any set of pages in any settings, any
calls in flight, loads and renders. The list of wallets is complete from the moment storage
was read, and what is added to it later has a name that is not there yet (`WalletsKeep`). The
others are about the Maps of connections, which are in the store, in storage, in what is
being read and with calls that wait, so their invariants speak of all four:

- `FollowsConnections`. `HeardInv`: every connection of this page, in whichever Map, has its
  handlers hung, and so has the connector of a connect that only waits for storage.
  `ChainInv`: wherever a Map is kept with a current connection and a chain, the
  chain is that of the connection if the Config has it.
- `ChainSurvivesReload`. `PhaseInv` says how far the page is and that it makes no call before it
  has mounted; `LastingInv` where the chain that was seen is until then: still to be read, or,
  after a render from the cookie, in storage again. From the mount on storage has the chain
  of the store, which a page load therefore finds.
- `NoGhosts`. `GhostInv`: once mounted a page is `Clean` (no Map, with a call or in the store,
  has a connection of an earlier page) or `Reviving` (a reconnect that has found none
  yet, and a status that makes it throw the Map away if it finds none). A clean page
  stays clean; a reviving one becomes clean with the first connector it finds, or without
  any. What makes this true of one call at a time is that nobody settles the status
  while the reconnect is at it. `CurrentOK` is the same for the current connection.
- `HeardRight`. `ToldInv`: while the application believes it is connected there is a current
  connector, and it does so when there is a connection at all; so neither a refused
  connect nor one more connection is news to it.

*Secp256k1 and WebAuthn* (in `KeyProofs`). Storage writes the last account down before any tab has it (`Written`), and
while pages reconnect by themselves a tab with an account is connected as it
(`Together`); `SignsForItself` assumes `ReconnectOnMount`, without which a page load
leaves an account that no connection names.
`SignedAsAllowed` is of the passkeys: three promises, each in the settings it holds in. `KeyInv`
says when a prompt may be open (`PromptInv`), and under the condition of each promise who
signs and with what while no key expires (`TimelessInv`), that the access key of the only
tab is the one the database has (`OwnKeyInv`), that the chain accepts it, or will with the
authorisation that waits or is being sent (`VouchedInv`), and that the database has the
expiry it was authorised with (`DatedInv`). `ConnectedAsAgreed` needs `AgreedInv`, that storage has
the passkey the user agreed to last, and takes the WalletConnect half from `ConnectorProofs`.

*Connectors.* `StatusIsTrue` is of all five connectors of a wallet in any settings: any
chains, any number of calls at once, wallets that interfere or not. `StoreInv` is about
the store they share: the status is settled, or it is "connecting" without a connection
and some call is in flight that has to settle it (`Works`: one that connects, or a switch
inside of one). What can happen to it is proved once, of `Connector`: a call begins, goes
on or ends (`MoveTells`, `ConnectStarts`, `TakeKeeps`, `EndSettles`), a handler of the Config
runs (`HandlersTell`), `change` reaches the calls that wait for it (`ChangeKeeps`), a page
loads (`OpenedKeeps`). One lemma per action of each connector then says which of these it
is, with the types of its wallet.
`DisconnectedStays` adds where the one call of a page that was left can be. `BrowserLeft`
says that the shim is in storage, so that a load starts nothing, and that what is in
flight either asks the user or only disconnects; `RelayLeft` that the session is over, so
that the reconnect of a load finds none and ends.
`WalletIsTracked` adds, for each connector, what it knows of its wallet and when: with a
connection the closures that keep it up to date hang on the provider and those of the Config
on the emitter, and it is on the chain of the wallet, or a call is waiting that will put it
there; a call that is about to store a connection has read the chain and the accounts that
the wallet still has (`BrowserTracks`, `PortoTracks`, `SdkTracks`, `MetaTracks`,
`RelayTracks`).

Every safety invariant and action property of the passing runs is the property of a theorem.
Model-checked only: the liveness properties `TransactionEnds`, `ValidationEnds`, `Settles` and
`SwitchesEnd` (liveness and ENABLED are out of the prover's reach).

## What the models say beyond the properties

The properties are stated of the settings in which they hold. Where a setting is
left out, the models show the following; each was seen as a counterexample of the
property named.

Of the contracts:

- A request of the session space that does not begin with a required
  `requireSessionNonce` can be accepted again after another one has reset the space;
  `SessionOnce` is stated of the others.
- `updateImplementation(MainModule)` puts the configuration of the wallet's address
  in charge again, although it was rotated away; `updateImplementation` to
  `MainModuleUpgradable` without an image hash locks the wallet. `NeverLocked`
  holds of wallets whose batches that upgrade also set the image hash, with
  `revertOnError` (`UpgradesAreCompleted`).
- Raising `maxDelay` revives timelock bookings whose window was over, and a
  `maxDelay` near 2^256 makes every `execute` revert.
- Of the zero address every plain signature is valid that is well formed and recovers to
  nobody: the result of `ecrecover` is compared with the signer and not tested for zero
  (`EIP6492.sol:90`): `NoForgedAnswer`.
- An operation of a 4337 bundle runs after its signer was rotated away by an earlier
  operation of the bundle, and does nothing, successfully, when the
  `eip4337SelfExecute` hook was removed: the fallback answers without a hook.

Of the Config (paths under `src/packages/core/src`):

- `connect()` refused during a reconnect sets "connected" when a stored `current` is there
  (`actions/connect.ts:156`), and `reconnect` then keeps the connections of the page before
  (`actions/reconnect.ts:110`): `NoGhosts`.
- `disconnect()` during a reconnect sets "disconnected", and the connector that is then
  restored leaves it there (`actions/disconnect.ts:46`).
- `disconnect()` writes back the Map it read before the `await` (`:33`): a connection
  that ended meanwhile can become the current one.
- `createConfig` sets its initial state through the persisting middleware
  (`createConfig.ts:264`): with `ssr`, or when the page is closed before anything else sets
  the state, the stored chain is lost: `ChainSurvivesReload`.
- A storage that answers after the mount is merged over what `reconnect` settled
  (`:238`): "connected" without a connection.
- With `reconnectOnMount` off, `onMount` empties the connections and keeps `current`
  (`hydrate.ts:52`), so a refused connect ends "connected" with nothing, and `onConnect`
  is called without an address. `onMount` runs in the render of a client page
  (`react/src/hydrate.ts:21`), so each render drops the connections.
- `switchChain` of a connector without a connection moves the chain of the Config off
  its current one (`actions/switchChain.ts:81`): `FollowsConnections`.
- The handler for `connect` takes the wrong function off its emitter
  (`createConfig.ts:361`), so a connector that connected by itself is still listened to.
- Two wallets of one name that both announced themselves before `createConfig`, or before a
  server page mounts, are both listed: what is announced is compared with the configured
  connectors only (`createConfig.ts:84`, `hydrate.ts:42`): `OfferedOnce`.
- A provider that mounts again lists every announced wallet again (`hydrate.ts:28`), and
  one announced while storage is read is not listed (`createConfig.ts:325`): `OfferedOnce`.
- The function a watching action returns ends the watcher the call began with; the
  one a chain change put in its place goes on (`actions/watchBlockNumber.ts:73`).
- `useConnectionEffect` tells `onConnect` neither of a connector that connects by itself
  (`useConnectionEffect.ts:38`) nor of a reconnect without a stored connection (`:39`): `HeardRight`.

Of the connectors:

- injected: a refused switch leaves a listener on `change` that makes the Config deaf to
  a later self-connect (`injected.ts:360`); `onConnect` does not look at the shim, so the
  provider's `connect` event reconnects a page that disconnected (`:479`); a reconnect
  may end with a connection without accounts (`:114`); a wallet that leaves the chain right
  after a switch may keep `switchChain` waiting.
- WalletConnect: a disconnect that fails at the relay leaves a dead connection
  (`walletConnect.ts:238`); a session of none of the page's chains does not count as stale
  (`:489`).
- Porto: a page load makes the wallet switch to the first chain (`porto.ts:62`); an empty list
  of accounts does not disconnect (`:241`).
- Coinbase Wallet and Gemini: a wallet that takes its accounts back during a connect leaves
  a connection without closures (`coinbaseWallet.ts:258`). Base Account: a chain that was
  only added counts as switched to (`baseAccount.ts:292`), and the accounts it reads again may
  be empty (`:118`).
- MetaMask: a chain change while `onConnect` asks for the accounts is missed
  (`metaMask.ts:460`). A disconnect that fails leaves a dead connection, as in Porto.
- dangerous_secp256k1: after a sign-up the connector has no account until the page is
  loaded again (`tempo/Connectors.ts:656`).
- webAuthn: a transaction that fails takes the authorisation of its key with it (`:412`); a
  refused authorisation leaves the new key in use (`:248`); the expiry that is looked up is
  that of another tab's newer key (`:364`); a sign-in refused half way is connected by the
  next load (`:241`); a key of the account before may sign for the next one (`:311`).

## Not modelled, and why

Of the contracts:

- Arbitrary delegatecalls, implementations other than the two main modules, and hooks
  other than the one that is shipped: such code can do anything to the storage.
- Gas amounts, values sent, events, return data of transactions.
- IPFS metadata, ERC-165, receivers, gas estimation: nothing in them changes
  what is accepted or run. The string and byte libraries are pure conversions.
- `ValidateSigOffchain` and a direct call of the public `isValidSigImpl`, whose caller
  chooses the flags himself. `ModuleRepository` and `MainModuleAutoUpdate`: one delegate,
  of an arbitrary module, looked up per call.

Of wagmi:

- Accounts of a connection, except whether there are any, and in the tempo connectors whose;
  RPC transports and clients, except which chain a client is of.
- `onConnect` of WalletConnect, for a session that a provider comes to by itself, and its
  `onAccountsChanged`, which passes on accounts and takes an empty list as `onDisconnect`; a second
  call of one tab while a prompt of `WebAuthn` is open.
- `unstable_shimAsyncInject`, a missing provider, display URIs, capabilities,
  `connectAndSign` and `connectWith`. The awaits inside `setup` and of `setItem` in `webAuthn`
  are one step with what follows.
- Safe (one listener, one flag), mock and deprecated connectors.
- The other actions of core and of tempo, the hooks of react, vue and solid, and the query
  options: each passes parameters to one function of viem or TanStack Query and keeps no
  state. They are most of the repository's TypeScript (for tempo one wrapper per
  contract function and framework), which is why the lines the
  models stand for are a small share of all lines: there is no behaviour of this
  repository in them, only of the libraries and of contracts that are not here.
- The CLI and create-wagmi (code generators), the site, playgrounds, bytecode tables,
  type declarations, tests, and the vendored Solidity under `lib`.

The snapshot mixes generations of the contracts. `ModuleAuth` uses
`SequenceBaseSig.subdigest` and four return values, while `SequenceBaseSig` here has
`subDigest` and three, without the checkpoint; `ModuleStaticAuth.sol` is imported and
missing; `LibBytesPointer` lacks `readUint24`; `MainModule` passes two arguments to the
three of `ModuleAuthFixed`. Where a definition is missing it is modelled as it
is used and marked external.

## Plan

1. `SupersededStaySilent` of the composition of `ChainedSig` with `Wallet`.
2. `Delegation`, the abstract specification of `ChainedSig`.
3. A Config composed with two `Injected` connectors instead of their answers; the chain
   of a connection in `WebAuthn`; `ModuleRepository` with `MainModuleAutoUpdate`.
