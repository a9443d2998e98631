----------------------------- MODULE Wallet4337 -----------------------------
(***************************************************************************)
(* A wallet that an ERC-4337 entrypoint runs: Factory.deploy, the hooks of *)
(* ModuleHooks and EIP4337Hook, which the wallet's fallback delegates to.  *)
(* The entrypoint is external: it consumes each operation once and in one  *)
(* transaction has all the operations of a bundle validated before it runs *)
(* the first.  What an operation runs may call foreign code, and so let    *)
(* the wallet's signed requests be relayed in between.                     *)
(*                                                                         *)
(* A definition marked "Mistake" is a variant of the one that follows it   *)
(* with a plausible bug, kept to show that the properties would notice.    *)
(***************************************************************************)
EXTENDS Integers, FiniteSets, SequencesExt

CONSTANTS
  Configs, FirstConfig,   \* configurations; the one the address is made of
  Ops, Requests,          \* user operations; bundles for execute
  Deed,                   \* what each of them does
  Signer,                 \* the configuration that signed it
  Fee,                    \* missingAccountFunds of each operation
  Funds,                  \* the balance at the start
  MaxBundle               \* bound: operations in a bundle

Selectors == {"validateUserOp", "eip4337SelfExecute"}
Deeds ==
  [do : {"pay"}] \cup [do : {"rotate"}, to : Configs]
    \cup [do : {"addHook", "removeHook"}, selector : Selectors]

ASSUME Wallet4337Assumption ==
  /\ FirstConfig \in Configs
  /\ Deed \in [Ops \cup Requests -> Deeds]
  /\ Signer \in [Ops \cup Requests -> Configs]
  /\ Fee \in [Ops -> Nat]
  /\ Funds \in Nat /\ MaxBundle \in Nat \ {0}

VARIABLES
  deployed,
  config,     \* the image hash in charge
  hooks,      \* selectors that lead to EIP4337Hook
  funds,      \* the wallet's balance
  phase,      \* of the entrypoint: "idle", "validating", "running"
  bundle,     \* operations still to run
  consumed,   \* operations and requests whose nonce is used
  paid,       \* (history) fees paid to the entrypoint
  runs        \* (history) how often each deed was done

vars == <<deployed, config, hooks, funds, phase, bundle, consumed, paid, runs>>
wallet == <<deployed, config, hooks, funds>>

Init ==
  /\ deployed = FALSE /\ config = FirstConfig /\ hooks = {} /\ funds = Funds
  /\ phase = "idle" /\ bundle = <<>> /\ consumed = {}
  /\ paid = 0 /\ runs = [x \in Ops \cup Requests |-> 0]

-----------------------------------------------------------------------------
\* Anyone deploys the wallet, once: create2 fails at a used address.
Deploy ==
  /\ ~deployed
  /\ deployed' = TRUE
  /\ UNCHANGED <<config, hooks, funds, phase, bundle, consumed, paid, runs>>

\* HookAlreadyExists, HookDoesNotExist, and a balance that does not suffice.
CanDo(d) ==
  CASE d.do = "pay" -> funds >= 1
    [] d.do = "rotate" -> TRUE
    [] d.do = "addHook" -> d.selector \notin hooks
    [] d.do = "removeHook" -> d.selector \in hooks

\* The wallet calls itself, or pays, in the course of x.
Do(x) ==
  LET d == Deed[x] IN
  /\ CanDo(d)
  /\ runs' = [runs EXCEPT ![x] = @ + 1]
  /\ config' = IF d.do = "rotate" THEN d.to ELSE config
  /\ funds' = IF d.do = "pay" THEN funds - 1 ELSE funds
  /\ hooks' = CASE d.do = "addHook" -> hooks \cup {d.selector}
                [] d.do = "removeHook" -> hooks \ {d.selector}
                [] OTHER -> hooks

\* The bundle of x is optional about nothing: it is done, or reverts, at the
\* latest for want of gas.
DoOrRevert(x) ==
  \/ Do(x)
  \/ UNCHANGED <<config, funds, hooks, runs>>

\* The first configuration, and those that rotations done so far put in charge.
Heirs ==
  {FirstConfig} \cup {Deed[x].to : x \in {y \in Ops \cup Requests :
                                            runs[y] > 0 /\ Deed[y].do = "rotate"}}

\* Mistake: a configuration that was rotated away stays trusted.
ExecuteForAnyHeir(r) ==
  /\ deployed /\ r \notin consumed /\ Signer[r] \in Heirs
  /\ Do(r)
  /\ consumed' = consumed \cup {r}
  /\ UNCHANGED <<deployed, phase, bundle, paid>>

\* ModuleCalls.execute, relayed at any time; a revert keeps the nonce unused.
Execute(r) ==
  /\ deployed /\ r \notin consumed /\ Signer[r] = config
  /\ Do(r)
  /\ consumed' = consumed \cup {r}
  /\ UNCHANGED <<deployed, phase, bundle, paid>>

-----------------------------------------------------------------------------
\* Mistake: the caller's account is asked, whoever the caller is.
OnlyEntrypointNever(caller) == TRUE

\* The fallback delegates, so that the hook still sees the caller.
OnlyEntrypoint(caller) == caller = "entrypoint"

Hooked(selector) == deployed /\ selector \in hooks

\* Paying the entrypoint; that it did not succeed is not looked at.
Pay(fee) ==
  IF fee <= funds
  THEN funds' = funds - fee /\ paid' = paid + fee
  ELSE UNCHANGED <<funds, paid>>

\* validateUserOp returned 0.  Everything else ends the transaction of the
\* entrypoint, which then did not happen.
ValidateUserOp(op) ==
  /\ Hooked("validateUserOp") /\ OnlyEntrypoint("entrypoint")
  /\ Signer[op] = config
  /\ Pay(Fee[op])

\* The entrypoint validates one more operation of its bundle.
Validate(op) ==
  /\ phase \in {"idle", "validating"} /\ Len(bundle) < MaxBundle
  /\ op \notin consumed
  /\ ValidateUserOp(op)
  /\ phase' = "validating"
  /\ bundle' = Append(bundle, op)
  /\ consumed' = consumed \cup {op}
  /\ UNCHANGED <<deployed, config, hooks, runs>>

StartRuns ==
  /\ phase = "validating" /\ phase' = "running"
  /\ UNCHANGED <<wallet, bundle, consumed, paid, runs>>

\* eip4337SelfExecute makes the wallet call its selfExecute.  Another caller
\* is refused, and the fallback answers a call without a hook by doing
\* nothing, which the entrypoint takes for success.
SelfExecute(caller, op) ==
  IF Hooked("eip4337SelfExecute") /\ OnlyEntrypoint(caller)
  THEN DoOrRevert(op)
  ELSE UNCHANGED <<config, funds, hooks, runs>>

RunNext ==
  /\ phase = "running" /\ bundle # <<>>
  /\ SelfExecute("entrypoint", Head(bundle))
  /\ bundle' = Tail(bundle)
  /\ UNCHANGED <<deployed, phase, consumed, paid>>

EndRuns ==
  /\ phase = "running" /\ bundle = <<>>
  /\ phase' = "idle"
  /\ UNCHANGED <<wallet, bundle, consumed, paid, runs>>

\* Anyone calls the wallet with the calldata of an operation.
Intrude(op) ==
  /\ SelfExecute("anyone", op)
  /\ UNCHANGED <<deployed, phase, bundle, consumed, paid>>

Next ==
  \/ Deploy
  \/ \E r \in Requests : Execute(r)
  \/ \E op \in Ops : Validate(op) \/ Intrude(op)
  \/ StartRuns \/ RunNext \/ EndRuns

\* A bundle that was validated runs to its end: it is one transaction.
Spec == Init /\ [][Next]_vars /\ WF_vars(StartRuns) /\ WF_vars(RunNext) /\ WF_vars(EndRuns)

-----------------------------------------------------------------------------
\* The types of the variables.
TypeOK ==
  /\ deployed \in BOOLEAN /\ config \in Configs /\ hooks \subseteq Selectors
  /\ funds \in 0 .. Funds /\ paid \in 0 .. Funds
  /\ phase \in {"idle", "validating", "running"}
  /\ bundle \in Seq(Ops) /\ Len(bundle) <= MaxBundle
  /\ consumed \subseteq Ops \cup Requests
  /\ runs \in [Ops \cup Requests -> Nat]

\* eip4337SelfExecute asks for no signature: that nothing is done twice or
\* without having been accepted rests on its caller alone.
\* What left the wallet are fees and the payments it was told to make.
DoneOnceAccepted ==
  /\ \A x \in Ops \cup Requests : runs[x] <= IF x \in consumed THEN 1 ELSE 0
  /\ Funds = funds + paid
               + Cardinality({x \in Ops \cup Requests : runs[x] > 0 /\ Deed[x].do = "pay"})

\* The wallet is handed on from one configuration to the next: whatever it does
\* was signed by one that had been put in charge, so that nobody whom none of
\* them named ever rotates it to himself.  For one that has been superseded it
\* does only what was waiting in the bundle of the entrypoint
\* (eip4337SelfExecute, which sees no signature, and execute).
OnlyHeirsAct ==
  [][\A x \in Ops \cup Requests : runs'[x] # runs[x] =>
       /\ Signer[x] \in Heirs
       /\ Signer[x] # config => x \in Range(bundle)]_vars
=============================================================================
