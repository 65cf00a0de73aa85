# A verification of harness-starter in TLA+

This directory models the parts of harness-starter that keep state on disk, in
context variables or in a session store, and that several processes, turns or
restarts share. The modules are translated from the code under `src/`;
`PROJECT.json` maps every definition to the lines it stands for, lists the
hazards of the code and names the runs, mutants, findings and theorems.

    tlc -workers 2 -config transport_faults.cfg MCCapabilityTransport.tla
    tlapm CapabilityTransportProofs.tla

## 1. The system

harness-starter is a small Python package with a handful of independent
mechanisms. They share no memory; they meet in files.

| component | code | state it keeps | operations | what is hard about it | what makes it correct |
|---|---|---|---|---|---|
| Capability transport | `capability_transport.py`, plugin `harness-capability-transport` | one claim file and one lock file per claim key | `consume_capability` | concurrent callers, crashes between seal, delivery and terminal, power loss around the directory fsync, damaged claims, a binding that changes while a call waits | one consumer at most per key; the claim is durably spent before it starts; "delivered" is true; callers agree; calls return and keys settle |
| Receipt runtime | `runtime.py` | per case: journal `receipts.jsonl`, projection `current.json`, three artifacts | `execute`, `execute_paired_cell`, `readback`, `paired_readback`, `analysis_input` | crashes between the journal and the projection, overlapping executions, readers that remove expired artifacts while others verify them | one command per case; a verified receipt tells of one execution; expired artifacts are gone; a receipt never changes |
| Bound ingress | `ingress.py` | one hash-chained receipt file per event; caches of the intake | `process_bound_ingress`, `ExecutionReceipts.start/transition/read/prune_terminal`, `IngressIntake.evaluate` | read-modify-write of one file without a lock, replayed events, pruning, the bootstrap of a manifest | a receipt is opened once, extended by legal stages only, dropped only when terminal |
| Gateway plugin | `.hermes/plugins/harness-gateway` | three context variables, the admission in the session store | five hooks, one middleware | nested and copied contexts, interrupted turns, sessions restored after a restart | a turn works for the project its channel was admitted to; its requests carry its own root; its tools are guarded; its receipt is legal |
| Project enrollment | `project_enrollment.py` | manifest, project registry, channel mapping (external) | `plan_enrollment`, `apply_enrollment` | partial failures, reapplication, concurrent enrollers | "applied" and "noop" are true; no channel is mapped to another root; the same request converges |
| Project binding | `project_binding.py` | four managed files and their temporary files, legacy manifest | `inspect`, `plan`, `apply`, `reconcile_legacy` | a crash between two of the files, drift, two calls on one temporary file, HEAD read twice | the files of a call that succeeds are of one commit; nothing unmanaged is overwritten or removed; applying again repairs |
| Guided capability | `guided_capability.py` | none (reads the binding) | `discovery`, `status`, `plan`, `apply` | the binding read twice, approvals that outlive their plan | an executor runs only the plan that was approved |
| Scheduled consumer | `scheduled_consumer.py`, `adapters/` | the caller's receipt, the cron registry (external) | `reconcile_scheduled_consumer` | a job created whose receipt is lost, stale job lists | one job per identity at most; the receipt tells what the job is declared |
| Sandbox | `sandbox.py` | none | `run_sandbox` | | the profile denies what is not listed |
| L3 cohort and adaptation | `l3_*.py` | one classification file | validators, one exclusive write | a crash within the exclusive write | only complete, disjoint cohorts are admitted |
| Entry points, schemas | `*_cli.py`, `cli.py`, `readiness_controller.py`, `contracts/` | none | | | |

How they interact. The gateway plugin calls `process_bound_ingress` for every
ordinary message of an admitted channel and then carries the receipt through
the hooks of the turn (`IngressReceipts` is the file side, `GatewayPlugin` the
context side of the same receipts). The capability transport loads the project
binding that `project_binding.py` writes; the model lets it change at any
moment. Guided capability and the scheduled consumer read the same binding
(`BoundProject` composes the four). Enrollment and the intake of the ingress
meet at `manifest.yml`, which both create (`ProjectOnboarding` composes them).
The receipt runtime stands alone: its callers give it a state directory.

## 2. Modules

| modules | of | abstract specification | proofs |
|---|---|---|---|
| `CapabilityTransport` | the transport | `OneShotDelivery` | `CapabilityTransportProofs`, `CapabilityRefinementProofs` |
| `ReceiptRuntime` | the receipt runtime | | `ReceiptProofs` |
| `IngressReceipts` | the receipt files of the ingress | `ReceiptLifecycle` | `IngressProofs` |
| `GatewayPlugin` | the hooks of the plugin | (`Legal` of `ReceiptLifecycle`) | `GatewayProofs` |
| `ManifestFile`, `Enrollment`, `IngressIntake`, composed by `ProjectOnboarding` | enrollment, intake | | `OnboardingProofs` |
| `ProjectBinding`, `LegacyFiles`, `GuidedCapability`, `ScheduledConsumer`, composed by `BoundProject` | binding, capabilities, scheduled job | | `BindingProofs`, `BoundProjectProofs` |

Each has an `MC` module and its configurations. What remains, in the order in
which it would add most: two gateways on one receipt directory; the validators
of the receipt runtime and of L3 as operators over bounded inputs. Runs stay at
two or three processes of each kind and at the smallest bound at which every
hazard of the component occurs.

## 3. Conventions

* A file is written in the steps in which a crash can tell them apart: create,
  write of the temporary file, replace. A read of a file is one step.
* A hash stands for what it hashes: two hashes agree when the contents do.
* A step a process takes on its own (memory, no file) is merged with the next
  step that others can see.
* `Crash` ends a process between any two steps; exceptions are modelled where
  the code lets the operating system raise them.
* An operator preceded by "Mutant of" is no part of the model. It is a
  plausible bug; put in place of the definition it names it must break the
  property `PROJECT.json` names.

## 4. Capability transport

`CapabilityTransport` models `consume_capability`: the binding is loaded
(`Call`, `Reject`), the lock file is opened and flocked (`Acquire`), the claim
is read under the lock (`ReturnStored`, `RepairClaim`, `Seal`, by what it
holds), every write goes through the steps of `_atomic_write` (writing, replaced,
synced), the consumer is started and ends (`Launch`, `Complete`), and the
terminal is written. A claim file has two views: what processes read (`claim`)
and what a power failure may bring back (`survivors`), which the directory
fsync reduces to the first. Faults are switched on per run: `io` (a step of the
lock, the read or the write raises), `crash`, `power`, `damage` (the file is
damaged from outside) and `rebind` (the project binding changes or breaks).

`OneShotDelivery` is what it promises: per key a cell that starts at most one
consumer, is decided once, and tells every caller the same verdict.

| run | question | bounds |
|---|---|---|
| `transport_faults` | `AtMostOneDelivery`, `DurablySpentBeforeDelivery`, `DeliveredIsTruthful` under io, crash, power, damage | two callers of one key, a clock that passes the expiry of a seal |
| `transport_refines` | `AnswersAgree`, `ImplementsOneShotDelivery` under io and crash | two callers, two keys |
| `transport_liveness` | `CallsReturn`, `EventuallySettled`, and `TypeOK`, `VerdictIsKept` when the binding changes before and while a call waits | two callers, two operations, crash, power and rebind |
| `transport_failed_seal` | a test's claim that I/O failures before delivery leave the claim as it was: violated | one caller, io |

Two callers are enough for the lock: a third waits as the second does. Keys
never share a file; two keys show that the refinement holds cell by cell. The
clock has two values, before and after the expiry. Damage is left out of the
liveness run (the state space of two callers with damage is too large for a
temporal check); a damaged claim is repaired by the same step as an expired one.
So are I/O errors: a write that fails leaves the claims a crash at that step
leaves, and its caller returns at once.

*Fairness.* Weak fairness of the steps of a process, which the operating system
schedules; the consumer is killed after 30 seconds (line 524), so it ends. Strong
fairness of `Acquire`: `flock` without `LOCK_NB` queues waiters, and a holder
that dies gives the lock back. `EventuallySettled` assumes that faults stop.

*Proved.* `CapabilityTransportProofs`, for any processes, keys, bindings, clock
bound and any set of faults: `TypeCorrect`; `OneDelivery` and
`SealedBeforeDelivery` from the inductive invariant `SafetyInv`; `Truthful` from
`TruthInv`. `AtMostOneDelivery` is not inductive: that a key was started says
nothing of the claim the next caller finds. `SafetyInv` adds that only the
holder of the lock is past it, that a claim about to be delivered is spent in
every version that may survive a power failure, and that the claim of a started
key is never unspent again in any of them. `CapabilityRefinementProofs`, under
`Mild` (faults are among io and crash): `Agreement` and `Refinement`, the latter
step by step against `OneShotDelivery`. `Mild` is needed: a rebound operation
repairs a valid terminal (line 608), damage and power failures undo a verdict
that was told. What remains of a verdict then is `VerdictIsKept`, proved for any
set of faults (`VerdictHolds`): it is replaced only by a call that is bound to
another operation, and by "terminal_claim_corrupt". The check of the claim and its
write are steps apart, so `KeptInv` says of whoever is between the two that there
is no verdict, or one that was of another operation when it was read, which the
lock keeps true. Liveness is model-checked only.

## 5. Receipt runtime

`ReceiptRuntime` models the directory of one case. An execution writes the body
and the empty outputs by temporary file and replace (`WriteTemporary`,
`MoveTemporary`), hashes them by reading them again, appends the dispatch
receipt to the journal (`AppendJournal`), projects it to `current.json`
(`WriteProjection`, `MoveProjection`), runs the command (`Launch`, `Exit`),
writes the outputs, appends and projects the terminal. A reader reads
`current.json`, then the journal, checks that it holds exactly one dispatch and
the projected terminal, verifies the artifacts one by one, and, past the
retention, removes them (`Unlink`, `RemoveDirectory`) and reports so.

| run | question | bounds |
|---|---|---|
| `receipt_executions` | `AtMostOneRun`, `VerifiedIsOneExecution`, `ExpiredLeavesNothing`, `ReceiptIsFinal` of executions that do not overlap, `OneExecutorPerReceipt` of those that do, `TypeOK` | two processes, three attempts of which two may overlap, crashes at every step, a retention that may have passed |
| `receipt_two_events` | the two-event journal of the documents: violated by a crash between the journal and the projection, and a retry | two attempts |

Three attempts give a crash, a crash of the retry and one that succeeds. With
overlapping executions `VerifiedIsOneExecution` does not hold: an execution
that overlaps can replace `body.bin` before the other hashes it, and readback
then verifies a receipt whose body its command was not given. The code refuses
a case that has a projection; it does not exclude two executions that start
before there is one, and nothing in the code promises that they may.

*Proved.* `ReceiptProofs` proves every property of `receipt_executions`, for any
number of processes, attempts and bodies. None of them is inductive, and the
invariant `Inv` has three parts. `Types` gives `TypeOK`. `Order` holds of
overlapping executions too: a terminal line is never before the dispatch line of
its execution, and what a readback has accepted follows that dispatch; it gives
`OneExecutorPerReceipt`. A line that an unfinished line grew into may hide a
dispatch, which is why `Order` lets it stand for one, and why it matters that no
readback accepts a journal with such a line. `Alone` holds until two executions
overlap: the one that executes finds in the shared temporary files, artifacts
and projection what it put there or nothing, no command was started while there
is no projection, and under a terminal projection nobody executes. It gives
`AtMostOneRun`, `VerifiedIsOneExecution`, `ExpiredLeavesNothing` and
`ReceiptIsFinal`. The one assumption besides the bounds is that "no value" is no
receipt and no body.

No liveness is claimed: the command has no timeout.

## 6. Bound ingress and gateway

`IngressReceipts` models `ExecutionReceipts` and `process_bound_ingress` at the
level of the file: `start` prunes when due (a look at the content, then an
unlink by name), creates the file exclusively and writes the first entry; every
transition reads, writes the one temporary file of the receipt and replaces.
`carrier` says how far the turn is that holds the receipt of an event; turns run
in threads of their own and interleave with ingresses. Ingresses run one at a
time: `_pre_gateway_dispatch` is a synchronous hook of one gateway. Two gateways
that share a receipt directory are outside of the model; there, a second pruner
can unlink a fresh receipt. The intake answers READY or HOLD at will; section 7
has the intake itself.
`ReceiptLifecycle` is the promise: a log per event that is opened once, extended
along one of the four lifecycles that `ExecutionReceipts.read` lists, and dropped
only when terminal.

`GatewayPlugin` models the hooks over the three context variables, with
transitions of a receipt as single steps. A task is a Python context; `turns`,
`base` and `home` are the host's own record of what runs in it, which the
properties compare with what the plugin remembers in `ingress`, `frames` and
`receipt`. A turn may begin below another, in the same context or in a copy of
it, at the root of the gateway, of a project (with a valid manifest or not) or
of none; turns end in any order; channels are bound anew; the gateway restarts.

| run | question | bounds |
|---|---|---|
| `ingress_receipts` | `TransitionsAreIsolated`, `CarrierIsCurrent`, `ImplementsLifecycle`, `TypeOK` | three actors, two events, four ingresses, crashes anywhere |
| `gateway_turns` | `IngressIsAdmission`, `BoundTurnsAreGuarded`, `ReceiptsAreLegal`, `ReceiptHasOneTurn`, `TypeOK` when turns of a context do not nest | two contexts and one copy, two channels, two projects, two turns, the gateway at its own root |
| `gateway_nested` | `HeaderIsAnchor` when they do | three turns, so parent, child and grandchild, or two copies |
| `gateway_nested_receipt` | the legal lifecycles: violated by a child turn that takes the receipt of its parent over | as above |

Three actors are an ingress and two turns, or two turns of which one recovers
after a crash; four ingresses give a replay of each event after its receipt was
pruned. Two contexts are enough to share a copied receipt; the bound on turns
is the depth of the stack.

`IngressIsAdmission` is proved for nested turns too; it is checked where channels
are rebound and the gateway restarts, which is what could break it. After a restart
an internal re-entry before the first dispatch is told nothing (`BeginUnknown`):
`BoundTurnsAreGuarded` speaks of turns that were told they are bound, and no
property of this one.

Met while modelling, and not held by any run: a turn outside of every project
leaves an empty frame, and a turn below it at the gateway's root is then told
that it is pinned to a project without a name (lines 471-488 and 511-519 of the
plugin). README.md, line 64, says that a normal turn makes no receipt; the
plugin and its tests make one for every bound message. A crash between the
creation and the first write of a receipt, and a message without text, leave a
receipt that is never closed nor pruned.

*Proved.* `IngressProofs` proves the four properties of `ingress_receipts` for any
number of actors, events and ingresses. That a transition is alone is not
inductive: nothing in `transition` excludes another actor, it is the way a receipt
is passed on that does. The invariant says so. Whoever handles the receipt of an
event (`Own`) finds it as far as the stage it is to record requires, while no turn
is waiting for that receipt; no two actors handle one receipt, and one ingress
runs at a time (`Exclusive`); and a receipt that waits for its turn is
`intake-ready`, or `consumer-running` (`Carried`). Pruning looks for a terminal
receipt and unlinks it later by name: with one ingress nobody creates that name in
between, and nobody handles a terminal receipt. A step then extends a receipt by
the stage that is due, removes a terminal one, or leaves what can be read alone,
which is the refinement of `ReceiptLifecycle`. The one assumption
(`NoneAssumption`) is that "no receipt" is no event and no receipt. Two gateways
on one directory break `Exclusive`, and the proof with it.

`GatewayProofs` proves every property of `GatewayPlugin`, for any contexts,
channels, projects, events and number of turns. `TypeOK`, `IngressIsAdmission`,
`BoundTurnsAreGuarded` and `HeaderIsAnchor` need no restriction: turns may nest,
contexts may be copied, the gateway may run at the root of a project. Turns end in
any order and the plugin looks for their frames from the end, so the invariant
compares the two stacks from their ends, index by index (`Stacked`): each turn the
plugin knows of has its frame at the same distance from the end, with its session,
its number and its anchor (`Paired`); the turns it knows nothing of are below
all others; the frames a copied context came with are below those of its turns; and
no turn has two frames (`Apart`), so that the frame that goes is the right one
(`WithoutIs`). Whose root the next turn is anchored to follows from what is below
(`Grounded`): the project of the last frame is the one the host's own record gives
(`ParentIsAbove`). What a turn was told agrees with the admission (`ToldTrue`),
which is what the guard reads. `ReceiptsAreLegal` and `ReceiptHasOneTurn` are
proved when turns do not nest, and `gateway_nested_receipt` shows that they must
not: `Receipts` says that a task that carries a receipt finds it "intake-ready"
until a turn takes it and "consumer-running" from then on (`Due`). Assumed are a
root for the gateway that is a project or `Home` (`RootsAssumption`) and that "no
value" is none of the values (`NoneAssumption`).

No liveness is claimed of the receipts: a turn that is interrupted leaves its
receipt open by design. The host
(sessions, contexts, order of the hooks) is external and modelled from how the
plugin and its tests use it; that `get_or_create_session` keeps the session of
a channel is an assumption.

## 7. Enrollment and intake

`manifest.yml` in the root of a project (`ManifestFile`) is created by the
enrollment of the project and by the intake of its events, each with `O_EXCL`,
each with a content of its own, and written in a second step. `Enrollment`
models `apply_enrollment`: the status of the config path (`Begin`), the
observations of the manifest, the mapping and the registry (`StatManifest` to
`ShowProject`), the creation of the manifest and its second observation
(`OpenManifest` to `ReadManifestAgain`), the creation of the project
(`CreateProject`), the second look for the slug of the root (`ListAgain`,
`ShowAgain`), and the mapping with its readback (`SetMapping`, `ReadBack`). Every
file access and every Hermes command is a step. Each may fail, a write before
or after it had its effect, and the call goes on and reports "partial"; or the
operator dies. `IngressIntake` models `evaluate`: read, bootstrap, read again,
look up, validate, answer from the cache. A validation is two steps: a manifest
that is a link or whose content is empty or not UTF-8 is refused, and then git is
asked whether the root is that of a worktree (`Validate`, `ValidateRoot`); either
verdict is cached by the content alone. Others may make the root a worktree or
none, and put a link in the place of the manifest, at any time. A bootstrap that
fails unlinks its file, or fails in that too, and the file stays
(`UnlinkBootstrap`). `ProjectOnboarding` runs them together.

| run | question | bounds |
|---|---|---|
| `project_onboarding` | `AppliedIsTrue`, `MappingGoesToRoot`, `Converges` of operators; `CreatedIsTrue`, `VerdictsAreEarned` of evaluations; `ManifestIsNeverReplaced` of both; `TypeOK` | two operators with a slug each and one channel, or an operator and an evaluation, or two evaluations; one of each pair may fail; every registry, mapping and manifest at first |

Two slugs give a registry in which the slug that was asked for is another root's
and one in which the root has a slug nobody asked for. Operators of different
channels meet only in the manifest and the registry, which one channel shows as
well. The operator that never fails is the one whose answers can be relied on
when the other leaves anything behind. Where an intake takes part the registry
and the mapping begin empty: it touches neither. Where an operator does, the
manifest is UTF-8 and no link, and the root a worktree, at first; two evaluations
begin in any of these conditions. 649,000 states.

*Fairness.* A call or evaluation that was started is carried on (weak fairness
of its next step). An operator need never call again; `Converges` speaks of one
that does, once nothing fails any more.

*Proved* (`OnboardingProofs`, for any operators, evaluations, slugs and
channels): everything the run checks but `Converges`, which is liveness. None of
the properties is inductive. What makes them so is `IInv`: whoever has created
the manifest and not finished is alone with it (`OneWriter`), which `O_EXCL`
gives; every call is right about what it has decided to leave alone (`Sound`),
because a project of the root, a mapping to it and an enrolled manifest stay
once they are there; and the cache is earned (`EarnedCache`): a HOLD of a sound
content has a condition in the life of the intake that explains it (no worktree,
or a link), a READY is of a sound content and saw a worktree and a path without
link, although it may never have seen both at once, since git is asked last.

What Hermes does with a slug that is taken is not in this repository, and the
fakes of its tests differ: `CreateProject` admits both, that it is refused and that the
project gets the new root; the properties hold either way.

Assumed: programs other than these change the registry and the mapping between
calls only (any initial state stands for them), and a mapping is right when its
project has the root as its primary root.

Met while modelling, and excepted by `AppliedIsTrue`: when the manifest is
missing at the second observation (lines 425-427), because an evaluation that had
created it failed in its `fsync` and unlinked it, its absence leaves no trace and
the operator is told "applied" or "noop". A HOLD for a root that was no Git
worktree stays cached when it becomes one, and so does one for a manifest that was
a link, for the content alone (ingress.py, lines 158-165). A torn
manifest, left by a death within its write, is never repaired by either side:
enrollment notes an observation, and the intake accepts any text that is not
blank.

## 8. The bound project

`ProjectBinding` models `apply_binding`: HEAD is read (`PlanSnapshot`), the
managed files are compared in their order (`Look`), HEAD is read again
(`DesireAgain`), and what differs is written, each file by way of `<name>.tmp`,
opened and emptied (`OpenNext`), written (`WriteFile`) and moved (`Replace`). The
temporary file is the same for every call: `hand` says where the file is that a
call has open, which another call may have moved to the path, or replaced there,
in the meantime. A content is told apart by what the code tells apart: the
commit it is of, an edit that the readers of the binding load (`Edits`), one that
keeps the mark of the tool and fails the digest of the graph, an empty file, one of
somebody else. The digest has no key: whoever edits the graph can compute it again,
as the repository's own tests do. `Altered` gives what an edited binding makes of
each capability: its scope, its provider, its target. A scope stands for what
`plan_capability` digests; two bindings may have the same one, when they differ in
their credentials, their verification or the list of the managed files. `LegacyFiles`
models `reconcile_legacy`: the files are compared (`LookLegacy`) and unlinked one by
one, and the manifest is removed (`ForgetLegacy`) or goes through `_write` and the
temporary file all calls share (`OpenLegacy`, `WriteLegacy`, `ReplaceLegacy`), so
that it can be empty (`Blank`) or have the rest of a longer one at its end
(`Garbled`); later calls refuse either. `GuidedCapability` models `apply_capability`
with its two readings of the binding, `ScheduledConsumer`
`reconcile_scheduled_consumer` with the caller that lists the jobs before and keeps
the receipt after. `BoundProject` runs them together on one directory, with commits
and with other programs that edit, replace or remove files and jobs.

| run | question | bounds |
|---|---|---|
| `bound_project` | `OneGeneration`, `TornIsShared`, `Converges` of applying; `OthersAreKept` of applying and retiring; `RecordIsKept` of the manifest of older files; `ExecutedAsApproved` of capabilities; `OneOwnJob` of the scheduled job; `TypeOK` | nine groups of at most three processes (`Groups`), one of which may fail; two commits, two edited bindings, two documents, three older files of which one leads out of the project, two declarations, two jobs |

The groups are every pair that meets in a file or a job: two operators that
apply, with commits or with one that dies; one against an editor; a caller of a
capability against an operator or an editor; two that retire, or one against a
cleaner; two reconcilers with a cron that others use, or one that fails against
an editor of the binding. Two of the four managed paths are in the run, the
binding and its lock: the launchers are written alike and do not depend on HEAD.
Each group begins with anything in the files it works on. Two jobs are enough for
a second one; two commits for a file of an older one. Of the two edited bindings one
has the scope of a commit's and the other a scope and a target of its own, with the
digest computed again. 446,000 states.

*Fairness.* A started call of `apply_binding` is carried on; `Converges` assumes
that commits, edits and failures stop.

*Proved*, for any processes, paths, commits, names, declarations and number of
jobs: `OneGeneration` from `BindingInv` (`BindingProofs`), `TornIsShared` from
`BindingInv` and `TornInv` (`BindingProofs`), `ExecutedAsApproved`
(`BoundProjectProofs`, on `BindingInv` and `GuidedInv`), `OthersAreKept` from
`BindingInv` and `LegacyInv`, `RecordIsKept` from `LegacyInv` (`BoundProjectProofs`), `OneOwnJob` from `ScheduleInv` (`BoundProjectProofs`),
and `TypeOK` from all four (`BoundProjectProofs`). Why the invariants are
needed: that a call ends with the files of one commit says nothing of the files
it is past; `Fresh` says, for every file nobody else has written since the call
began, that it is as planned or still to be written, and as written once the call
is past it. That only one job is made says nothing of a job list that is old;
`Alone` says, as long as calls only follow each other, that whatever job is there
was in the list. `Careful` says that a call that retires removes only what was
not modified when it looked, and has every file that is to be kept on one of its
lists; it is also what `ManifestIsComplete` rests on, together with `Manifests`:
without other programs, whatever can be read in the manifest or in its temporary
file names every modified file. `Lone` says that a call that is alone finds in the
temporary file what it put there. `GuidedInv` says of a request on its way that its
plan is of the binding and of HEAD as they are (`PlanIsCurrent`), or that one of
them changed during the call, which `drifted` remembers. An empty file gets to the path by the move of an empty temporary file, so
`TornInv` is about that one first: a call has it open and is going to write it, or
a call died over it. A call that is alone holds its own temporary file until it
has written it, so that whoever moves an empty one is not alone; and when it is
moved, those that have it open hold the file of the path. `Converges` is
model-checked only: it is liveness.

Met while modelling, and admitted by the properties:

* Two calls of `apply_binding` at once may be told success while a file is the
  other's, or empty until the other has written it (lines 334-339): `OneGeneration`
  excepts files others wrote to during the call, and `TornIsShared` admits an
  empty file when two calls are at it.
* HEAD is read twice (lines 320 and 348): files that needed no change stay of the
  first commit.
* A file of somebody else that appears after the plan is overwritten (line 352),
  while README.md, line 23, of the repository says that `apply` does not overwrite
  unmanaged files: that is true of what it finds when it plans, which is what
  `OthersAreKept` holds it to. A file modified after its digest was compared is
  removed (line 390).
* Two calls of `reconcile_legacy` at once share `legacy-files.json.tmp` (lines
  334-339 and 392). One empties it and the other moves it over the manifest, which
  is then empty until the first has written it, or for good when the first dies or
  fails: every file it listed is forgotten, and every later call raises. With
  others changing files in between the two write different lists, and the manifest
  may lose a name or be garbled. `RecordIsKept` says that nothing worse happens.
* An approval covers what the digests cover: the project, the digest of the runtime
  lock, the capability, its profiles and HEAD. The verification, the managed files
  and the credentials of a binding may be edited and an earlier approval still
  matches (guided_capability.py, lines 187-199).
* An executor is called with an approval that may be used again: approvals are not
  consumed.
* The target identities the binding has for vercel, n8n and the deployed API are
  not those `IDENTITY_FIELDS` asks for (guided_capability.py, lines 18-23, against
  project_binding.py, lines 117-137 and 200-206): of the graph the tool writes, only
  `railway.deploy` can be discovered or applied.
* An edit of the scheduled job whose result is lost leaves the older receipt; a
  reconciliation back to the older declaration then answers "noop" (line 137) and
  the job keeps the newer one. `OneOwnJob` excepts lost results there. A job whose
  creation lost its result is refused for ever (line 121). Two reconciliations at
  once make two jobs.

Abstracted: all operators apply with the same inputs; the content of a file is
written at once, so that a crash leaves it empty or whole; power failures are not
modelled (nothing is synced); `inspect_binding` is one step; declarations and receipts are well
formed.

## 9. Not modelled

The sandbox builds an argument list and has no state. The L3 modules validate
and digest frozen inputs; a model could only repeat their comparisons. Their one
write, of a classification, is exclusive and in a second step: a crash leaves an
empty file that refuses every later attempt (l3_manual_classification.py, lines
99-101). The entry points parse arguments and forward them; so do the two other
adapters, one of which runs a child process for an observation. Of the modelled
components these are left out: the layout of names, digests and envelopes, the
validators of the receipt runtime (lines 133-1105), the patterns that recognise
a named-profile launch, permissions of the files, symbolic links but that of the
manifest, the
two-second cache of the worktree state in the intake, and the plans that
`plan_enrollment` and the CLIs only print.

Every safety property of every run that holds is proved for all values of the
constants. Model-checked and not proved are the liveness properties, which are out
of the prover's reach: `CallsReturn` and `EventuallySettled` of the transport, and
`Converges` of the enrollment and of the binding.
