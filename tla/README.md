# A TLA+ model of lm-resiliency

lm-resiliency keeps large training jobs alive. It checkpoints a job in the
memory of its neighbours (GEMINI), validates checkpoints by replaying layers
(SCOUT), finds hanging, slow or silently corrupting machines, and restarts a job
on other machines through torchrun. This directory holds TLA+ specifications of
the parts in which several processes, threads or files have to agree, TLC
configurations that check them on small instances, and proofs that TLAPS checks.

Paths are relative to `src/lm_resiliency/` unless they begin with `docs/`.

## 1. The system

### 1.1 Components

`PROJECT.json` lists every component with its files. Those that hold state:

| component | state it keeps | operations | hard because |
|---|---|---|---|
| Recovery plan store (`integrations/torchrun/_simple_runtime.py`) | c10d keys: registrations, initial nodes, one plan per generation, the generation counter, plan leases, ready records, closed | `register_node`, `ensure_initial_nodes`, `publish`, `read`, `renew_plan_lease` | a publication is two compare-and-sets on two keys; coordinators race and die between them |
| Recovery coordinator (`integrations/torchrun/coordinator.py`) | the plan it leads, a renewal thread, its stop event, its error | `publish_successor`, lease start, retry, stop, `close` | a slow thread of an old plan lives beside the thread of the new one |
| Rendezvous handler (`_simple_runtime.py`) | last generation joined, its last look at a lease, the restart-context file | `next_rendezvous`, `num_nodes_waiting`, `set_closed` | agents poll the store at their own pace, and any of them dies, lags or restarts |
| GEMINI (`checkpointing/manager.py`, `buffer.py`, `copy.py`, `replication.py`, `disk.py`) | four slots per rank, an exchange in flight, a completion thread, a disk writer, files, a status sidecar | `save`, the completion thread, flushes, signal handlers, `load`, `find_latest` | the signal handler runs between any two lines of a save; pairs of ranks proceed independently; a node and its memory disappear |
| Certification (`integrations/_checkpoint_certification.py`, `detection/replay_shapes.py`) | position in the replay catalog, the candidate under validation | `apply_result`, `save_now`, `prepare_recovery`, `reject` | one result moves two checkpoint tiers; a candidate's trust is decided a whole cycle after it was saved |
| Durable checkpoints (`checkpointing/durable.py`) | record, pending and latest manifests | `begin_candidate`, `observe_validation`, commit, reject, restart | three files per commit, and a crash between any two |
| Hang detection (`detection/hang_detector.py`, `oob_service.py`, `op_tracker.py`) | progress in shared memory, the daemon's idle time, candidate and confirmations, reports | publish, observe, round, confirm, supervise | a verdict races the progress that refutes it; daemons stall and die too |
| Fault injection (`fault_injection/`) | per rank: a session, its active effects and records, a journal file of claimed occurrences, the history of a tensor | enable, preflight, claim, arm, complete, roll back, close | ranks agree in untagged rounds only; old and new workers share journals; any part can fail on one rank |
| Worker attachment (`integrations/torchrun/worker_adapter.py`) | the framework inferred and agreed on, wrapped entry points, three locks, the handle | import transaction, rollback, agreement, attach, framework load | anything a script imports, in any thread, may fail and be rolled back |
| Sessions (`integrations/`, `_feature_wiring.py`, `handle.py`) | step count, kept tensor references, a pending boundary | enable, recover, step, scheduler, save, close | each framework calls the hook at another point of a step |
| SCOUT harness (`detection/replay_harness.py`, `layer_replay.py`, `optimizer_step.py`) | captures, cadence, rotation, timing baselines | step, readiness, replay, confirm, emergency check | every rank decides by itself whether to enter a collective |
| Shard transfer (`checkpointing/transfer.py`) | a serve and a fetch in progress, a published manifest | serve, fetch | the source's memory changes while it is sent; either side gives up alone |
| Localization and comparison (`detection/c3.py`, `*_localizer.py`) | a window of timings, streaks | record, vote, localize | ties, small groups, missing members, wandering congestion |

### 1.2 How they interact

```
  manager process              c10d store                 torchrun agents
  RecoveryCoordinator  --->  plans, generation,   <---   rendezvous handler
  renewal thread       --->  plan lease                   | starts workers with
                             ready records, closed        | a restart-context file
                                                          v
  worker rank r:  training loop -> SCOUT replay -> certification
                        |                            |          |
                        v                            v          v
                  GEMINI buffers  <- peer exchange  status    durable manifests
                        |                            |          |
                        +------> node disk <---------+----------+
  after a restart: recovery selection (MIN-reductions over what each rank finds)
```

The store is the only thing managers and agents share. Ranks share collectives
and peer exchanges. A job that died and its successor share only files.

### 1.3 What makes each part correct

* Plan store: one plan per generation, decided once; a caller is told "published"
  only of the plan that is committed; no machine returns from quarantine.
* Rendezvous: workers of two generations of one group never run side by side;
  workers run where they were assigned and find their own restart context; nobody
  waits for ever; old workers stop.
* Lease: an agent does not take a dead manager for a live one, and does not lose
  time of the deadline it was given.
* GEMINI: what is flushed is what its label says; what all ranks have exchanged
  survives the loss of a node.
* Recovery selection: all ranks load the same step, all of them can, and it is the
  newest such; every rank returns.
* Certification: a trusted checkpoint is clean if corruption stays observable; the
  two tiers follow each other; a crash never promotes or loses a trusted one.
* Worker attachment: ranks of a process group attach the same integration, at the
  step their state is at, and an attachment ends.
* Sessions: a checkpoint holds one step, and its label counts the updates in it.
* SCOUT harness: ranks replay the same recipes; a certifying check was clean and
  complete.
* Hang detection: a rank that is blamed was slow; training that stopped is reported.
* Localization: who is blamed was at fault, also when reports are lost.
* Shard transfer: a fetch that returns has one described content, in full.
* Fault injection: no candidate fires more often than its limit, whatever is
  restarted; effects are armed on all ranks or undone on all; only what lasted as
  configured is ground truth; what ends leaves no trace in the training state.

`hazards` in `PROJECT.json` lists where in the code each can go wrong, with the
properties that watch it, or a note where nothing does yet.

## 2. Plan

Written so far, in this order, most important first:

1. `GenerationLog` (abstract), `PlanStore` (detailed, implements it), proofs;
2. `Rendezvous` on top of the log, and `PlanLease` beside it with a clock, with their proofs;
3. `GeminiBuffers`, with its proofs: how checkpoints come to exist; `CheckpointTransfer`: how a shard
   gets to a replacement;
4. `RecoverySelect`, with its proofs: how they are chosen;
5. `CheckpointTrust` and `TrustSidecars`, with their proofs: how they come to be trusted, and what each
   rank keeps of it by itself;
6. `FaultCampaign`, with its proofs: faults injected on purpose, once and on all ranks; `StateFault`:
   what one of them does to a tensor;
7. `HangDetection`: the out-of-band daemons;
8. `WorkerAttach`: a worker's start, up to an attached session; `TrainingSession`: the
   session itself under each framework;
9. `Consensus`, `ReplayAnalysis`, `ReplayHarness`: what a replay check is and when it is
   made; `Localization`: whom the timings blame.

Next:

10. Proofs of what `StateFault` says of the values of a tensor (`NoTraceOfFault`,
    `StaleIsOneBehind`).
11. `TrustSidecars`: `load(step=)` with the history of verified steps.
12. `GeminiBuffers`: transfer threads that outlive the timeout of a flush.

The runs are kept few: components that share no state are checked side by side in
one run, as its parts, and a behaviour is one of one part.

## 3. The modules

### GenerationLog

The promise of the store without keys, processes or crashes. `generation` is the
committed generation and `history[g]` the placement (nodes of the slots,
quarantine, worker shape) committed for `g`. `CommitInitial` decides generation 0;
`CommitSuccessor` appends a same-node restart or one replacement, the two kinds of
plan `publish_successor` builds.

### PlanStore

`SimpleRecoveryPlanStore` over a c10d store whose single-key operations are atomic.
`generation`, `plans`, `initialNodes` and `registrations` are its keys; `call[m]` is
the program counter of coordinator `m` in `publish`. `publish` is three steps, one
per store call (`PublishReadGeneration`, `PublishPlanCas`, `PublishGenerationCas`);
another coordinator, a registration or a `Crash` can come between any two. The
guards of `BeginRestart` and `BeginReplacement` are those of `publish_successor` and
of the plan's validation. `register_node` makes two calls (the node limit, then the
append); they are one step, since the limit is the same for all agents of a run.

### Rendezvous

`SimpleRendezvousHandler`, one agent per node. An action is one round of a polling
loop with the early returns of that loop as guards: `Construct` (registration),
`ReadGeneration`, `Assign*`, `WaitForPlanLease`, `SetReady`, the exits of
`_wait_for_group` (`GroupComplete`, `GroupLeaseElapsed`, `GroupPolicyConflict`,
`GenerationMoved`), `BuildBootstrap`, `Join`, and while workers run
`MembershipPoll`, `MembershipChange` and `WorkerFailure`. The manager's side is the
generation log: commits appear in one step, which is what `PlanStore` is proved to
implement, and `ImplementsLog` checks that agents never disturb it.

* Heartbeats are over-approximated: a ready record suffices for `GroupComplete`, and
  only the fairness asks that the peers are alive.
* A restarted agent on the same node registers again, and the list of registrations
  cannot be decoded from then on, as in the code; `AssignCorrupt` is that exit.
* Time is a lapse of a lease (`Lapse`) or a `Timeout` that can come at any moment.

### PlanLease

The coordinator's renewal threads and the agent's look at the lease, over a discrete
clock whose unit is the renewal interval. `Publish`, `StopLease`, `StartLease` and
`InstallThread` are the caller's side of `publish_successor`; `RenewAdd` and
`RenewSet` the two store calls of a renewal, `RenewFail` its failure with the count
of consecutive failures, `WakeUp` and `StopThread` the thread's loop; `LookAtLease` is
`_plan_lease_is_live` with its observation state. The clock may advance between any
two steps, so that each thread can be arbitrarily slow. The bounded join on the old
thread may give up (`JoinTime`), after which two threads live side by side.

### WorkerAttach

`_AutoFrameworkAdapter` of each rank, from the boot (`Bootstrap`: `sitecustomize` and the
checks of the restart context) to an attached handle. A rank has a main thread
and perhaps one that imports. An outermost import is a transaction: `BeginImport`,
`ObserveTorch`, `ObserveSpecialized`, `SelectSpecialized`, `EndImport`, or after an
exception `Rollback`, `CloseForgotten`, `Unwind`. `InitProcessGroup` and `Gather` are the
agreement of the ranks on a framework. `Forward`, with a `Vote` on whether all have a model
and an optimizer, and `SpecializedEntry` lead into `_attach`: `BeginAttach`,
`EnableImports`, `Enabled` (the integration's collectives and the recovery check), `OnAttach`. The three locks are those of the code, each held for as long as
it is held there.

* The user's script is the environment: what it imports and calls, which imports fail
  and are caught, in any order.
* The run's import thread brings in PyTorch and a specialized framework. While the main
  thread attaches the native adapter, that thread can hold the import lock and ask for the
  adapter's (`NativePyTorchAdapter.attached` in `_select_specialized_locked`, or its `close`
  after an import that failed), which the main thread holds in `_enable` while its own
  imports wait for the import lock: both stop for ever. `LocksCrossed` is that state.
  `RestartEnds` excepts it and says that nothing else keeps an attachment from ending; an
  `EndImport` that keeps the import lock breaks it.

### TrainingSession

The session of one rank under DeepSpeed (engine and pipeline), Megatron, FSDP, TorchTitan
and the native wiring: `Enable*`, `TrainerLoad`, `TryRecover`, the step and scheduler
actions of each, `SaveNow`, `FrameworkSave`, `Close`, `StopJob`. `live` is what the process
trains (updates, scheduler, moments), `session` the handle with its kept tensor
references and Megatron's pending boundary; `gemini`, `own` and `validated` are the newest
checkpoints of the three stores. What SCOUT finds is a nondeterministic verdict.

* `CountsEveryUpdate`, `LoadsOnlyCertified` and `HookComesOff` say of a job what each property
  asks of it: the hook runs once per update and after the scheduler, the framework's own loading
  asks the durable coordinator, and `close` can take the hook off. The last fails for a Trainer
  whose scheduler was wrapped again after the hook: `_SchedulerStepHook.remove` only restores
  what it finds on top, and the hook itself does not ask whether the session is closed.
* The run has the jobs in which count and captures are right (`SoundJobs`). Outside it
  are: gradient accumulation and loss-scale overflow under DeepSpeed, where every call of
  `engine.step()` counts as a step; a scheduler or a fallback checkpoint under the native
  wiring, which captures before the caller's scheduler and does not learn the step of
  what the fallback loaded; and a durable checkpoint under a TorchTitan `Trainer`, which
  loads its own. `Jobs` can be given each of them.

### HangDetection

`tracker` is the shared memory of a rank, written by its training process (`TrainStep`:
a sampled stage, layers, a collective, the boundary) without a lock. `daemon` is the
process beside it: on the progress event, in the collectives of `check_once` (`Round`,
`RoundFails`), gone, or reported by its supervisor. `memory` is what decides a report
from round to round, `report` what `on_hang` was given. `Tick` lets time pass, and a
daemon may notice late.

* A snapshot is read as one value. It is taken before the collective in which the daemon
  waits for its peers, and training goes on meanwhile.
* Any rank may stop anywhere; the last one may enter a collective with a fingerprint
  that differs.
* `spent` is history: how long each rank really was in a stage.

### Consensus

C3: the exact rule (a strict majority or nothing) and the statistical one (median absolute
deviation, interquartile range, range) as operators on a function from ranks to values. The
divisions are multiplied out.

### ReplayAnalysis

The evidence of a replay: one round (`ReplayRound`), the merge of confirmation rounds
(`MergeRounds`), the aggregation over recipes, and the timing baselines with their bounds
on samples and keys. `c3` of a merged result stays that of the first round, as in the
code; the bitmaps are merged.

### ReplayHarness

The harness on the ranks of a peer group. `TrainStep` captures; `Step` decides on every
rank what is due and makes the readiness comparison; `Replay`, `ReplayOptimizer` and
`ReplayAllToAll` are the recipes, `Finish` the end of a check, `EmergencyCheck` the sweep
that puts the earlier baselines back. `plan[r]` is what rank `r` goes on to execute by its
own decision. A collective is one step of the group.

* All ranks have an optimizer with a pre-step hook, or all but the source of the broadcasts.
  The contract of a dynamic job does not compare that
  (`_dynamic_replay_readiness`), so that the ranks with a hook would go on to a replay their
  peers leave out. `LockStep` excepts such jobs (`OptimizersAlike`; `docs/scout.md:83` speaks
  of the dense catalog), and `Together` stops them where their gathers would stop to match.
* In a corrupted replay any of the given sets of ranks computes one wrong value together, up
  to all but one of them. `NobodyTies` excludes sets of exactly half of the ranks (section 4).
* `CertifiedMeansClean` is about a check that is finished: an emergency check may begin while the
  certified result of an earlier one still stands.

### Localization

`Record` and `MarkFailed` fill the collector's window, `Round` runs the three localizers
on it, and `FaultChanges` moves the truth (`fault`), so that congestion can wander. A group
with a faulty endpoint is slow or in the neutral zone, one routed over a faulty switch is
slow; a known compute straggler may or may not slow its groups. `Touches` says which groups
a fault is on, `Observable` how long their collectives then take.

### CheckpointTransfer

`serve` and `fetch` of both backends. Two-sided: `Manifest`, `Preflight`, `Payload` chunk by
chunk, `Verdict`, `CopyOut`; one-sided: `Register`, `Publish`, `GetMetadata`, `Read`,
`CheckBuffers`, `CloseTransfer`. `Overwrite` is training writing the next version into a
chunk at any moment; `ServeTimesOut` and `FetchTimesOut` end one side alone, and it may call
again. A checksum tells all contents apart.

### GeminiBuffers

One rank per node, paired by `Peer`. A save is the steps `PrepareNextCapture`
(rotation), `StartCopy`, `Label`, `Mark` and `FinalizeAndLaunch`; the completion thread is
`WorkerDone` and `WorkerFails`; the exchange is `PeerSends`, `ExchangeDone`,
`ExchangeFails` and `BreakLink`; the periodic flush is `WriterDone`, the flush on
demand `FlushForRestart`, the final one `Stop` then `FlushSlots`. `LoseNode` takes a
node with its memory and disk. A slot is its label and the step its bytes come from,
so that a slot that is being overwritten (`Mixed`) can be told from a whole one.

* Captures of different ranks are kept in step by the collectives of training.
* An exception out of a save ends the run. A broken link stays broken.
* A flush stops the exchange; threads that outlive the timeout are item 12 above.

### RecoverySelect

`load`, `load_tensors`, `find_latest` and `load(step=)` on every rank. Reductions
carry no tag, so the n-th reduction of one rank meets the n-th of the others whatever
each is asking: `Round` is one reduction, `Vote(r)` what rank `r` contributes where it
is, and `After(r, m)` where it goes with the result. `Agree` is the comparison of
requests by `load(step=)`, `Activate` the write of the mode.

* Init is every combination of memory contents, files, damaged files, verified
  steps and modes; what no call looks at is left empty.
* What ranks hold does not change during a call.
* A failing status write is modelled where the code handles it (`load(step=)`).
* Collective timeouts are left out: the job would fail and repeat the call.

### CheckpointTrust

`apply_result`, `save_now`, `prepare_recovery`, `_persist_boundary`, `begin_candidate`,
`observe_validation`, commit, reject and the restart sequence. A handler decides once
and leaves in `todo` the file changes it makes, in the code's order; `WriteManifest`,
`WriteShards` and `WriteStatus` perform them one at a time, and `Crash` or `Terminate`
(which flushes memory) comes between any two. `Restart` and `LoadState` are what the
framework integrations do on start: durable coordinator, load, certification.

* The job is one actor: each decision follows a reduction over the ranks.
* Corruption follows the assumption of `docs/gemini.md`: unsafe state stays
  observable. A taint appears in any training step, stays in all that is computed or
  saved from it, and the replay of exactly one shape reveals it.
* Steps count detection intervals; the dense recipe classes share one interval.
* Artifacts of rejected candidates are quarantined and never loaded; without any
  checkpoint the framework starts from step 0.
* A durable load does not carry the replay position, as in the code.

### TrustSidecars

What `CheckpointTrust` has once for the job, each rank keeps in a sidecar of its own.
Here a decision of `apply_result` (`Cycle`) leaves every rank a list `todo` of what it
does, `Write` performs one item of one rank (the capture, the shard of the rank, that of
its peer, the status), and a rank is `Killed`, `Terminated` with a flush, or
`TerminatedWithMirror` between any two. `Restart` gives each rank its folder, an empty
one, or the mirror; `Select` is the load. `VerifiedPick` is what a verified recovery
would choose at this moment.

* `Fallback` and `Read` are `CheckpointStatusStore.read`: the rank's sidecar, or what the
  others in the folder agree on. `copy_to` writes the status under both names.
* A rank writes its own shard and its peer's one after the other. A flush that is killed has
  written some of the shards, in its order (`FlushCuts`); a copy to the mirror that is
  killed some of the files, and the status only after all shards.
* A shard is known by whether it is corrupt and by the run of the job that wrote it.
* A cycle is one step; corruption is early (seen in the cycle) or late (in the next). The
  two ranks are a replication pair; a flush has the peer's capture if both have it.
* Nothing orders one rank's status write after another's shard writes; all ranks have the
  capture before any writes a file, by the reduction in `_persist_boundary`.
* The history of verified steps, read by `load(step=)` only, is left out, and a job that
  finds nothing starts from the beginning.

### FaultCampaign

`FaultInjectionSession` on every rank of a job and of its restarts. `ses[j][r].at` is
where the session of rank `r` in job `j` is; between two rounds it goes through
`Prepare` (constructor), `CommitJournalBinding`, `EnterIteration` (preflight), `Stage`
(claims), `Restore`, `Activate` or `ActivateFails`, `Rollback`, and then trains:
`MatchCall`, `Notify`, `StateReplaced`, `StepComplete`. `Round` is one
`all_gather_object`; it only knows that every rank waits in some round, and
`AfterRound` sends each rank on from where it was. `Cleanup`, `Close` and
`TrainingRaises` are the ways out, `CollectiveFails` the one of a rank that waits for
a peer that has gone. `store[r]` is rank `r`'s journal file, which all jobs share;
`CompareAndSwap` may raise before or after the file has been replaced.

* `held` and `fired` are history: optimizer steps under an effect, and applications.
* An occurrence is an incident and its iteration. Probability selects a fixed set
  (`chosen`), as the seed does in the code; the heap and cache of the schedule are
  what they compute, the occurrences of an iteration.
* An effect that could not be undone is booked as `stuck`; how often the code tries to
  undo it is left out. (`docs/fault_injection.md` says that the session keeps an
  effect whose deactivation was interrupted until a retry succeeds;
  `_rollback_new_activations` retries and then drops it from `_active`.)
* External effects outlive a process that dies.
* The campaign is the same in all jobs; a changed manifest is refused when the
  journal is loaded.
* Several faults of one incident on one rank are one action.

### StateFault

`_mutate_state_tensor` and its surroundings in `fault_injection/local.py`, on one tensor and
two incidents. `Enable` has the validation of the schedule (`WellSpaced`,
`WindowsMayOverlap`) and the first boundary, `Step` an iteration: the update, the end of an
effect, the history, activation. `Notify`, `Load`, `Save` and `Close` are the other places
where an effect ends or the tensor changes. The tensor is one number of which no two
updates are of the same size; `tensor.updates` and `tensor.excess` are history: the updates
that are in it, and what a checkpoint brought back of a fault or a recovery left in it.

* In the mode "inplace" an update adds to the tensor, in "resynchronized" the optimizer
  copies its own master value over it.
* `Enumerable` stands for the 10,000 candidates up to which windows are compared one by one;
  at 1 both algorithms are used.
* When a recovery is announced without a load, the code keeps a tensor that training has
  changed since, as documented; that excess is booked and not called a trace.

### MC modules

`MCPlanStore`, `MCRendezvous`, `MCGeminiBuffers` and `MCReplayTie` define the sets their configurations use, symmetry where constants are
interchangeable (nodes, managers, plan identities), and for the run with four ranks an order
of the ranks' saves and stops. `MCRendezvousLive` holds two instances of `Rendezvous` side by side, one
of which is deployed. `MCTraining`, `MCRestart`, `MCWatch`, `MCCheckpointTrust` and
`MCFaultCampaign` put components that share no state beside each other: the variable `part`
says which of them runs, the others stay in one state. A property of a run names its part, or
holds of the state in which that part stays. `MCFaultCampaign` also has an `ASSUME` that
compares `WindowsMayOverlap` with its definition by windows, for all pairs of its incidents.

Five small modules give such components the names that a module beside them leaves free, and
state what is promised of them together. The MC modules and the modules of proofs both extend
them, so that a run and a theorem speak of the same definition:

| module | holds | states | extended by |
|---|---|---|---|
| `ShardCopies` | `GeminiBuffers`, `CheckpointTransfer` | `ReceivedIsWhole` | `MCTraining`, `GeminiBuffersProof` |
| `Scout` | `ReplayHarness`, `Localization` | `LockStep`, `CertifiedMeansClean`, `BlamedIsGuilty` | `MCTraining`, `TrainingProof` |
| `Attachment` | `WorkerAttach` | `SameFramework`, `CountsTheStateItHas` | `MCRestart`, `RendezvousProof` |
| `StageWatch` | `HangDetection` | `StageCulprits` | `MCWatch`, `PlanLeaseProof` |
| `SidecarTrust` | `TrustSidecars` | `PickIsSound`, `PickNeverRecedes` | `MCCheckpointTrust`, `CheckpointTrustProof` |

Some properties that runs check are conjunctions of properties of the components:
`ReceivedIsWhole`, `BlamedIsGuilty`, `CertifiedMeansClean`, `CaptureIsOfItsStep`,
`ResumesWhereTrusted`, `NewestIsFound`, `PickIsSound`, `LeaseTellsTheTruth`,
`InjectedAsScheduled` and `TensorAsScheduled`. Each conjunct is defined, with its own
comment, in the module of its component.

Operators whose comment calls them a mutant or a slip are the definition beside them with a
plausible bug. They are used by no specification; `PROJECT.json` names the property that each
of them breaks.

## 4. The runs

| run | parts and configuration | checks |
|---|---|---|
| `store` | 3 nodes, 2 slots, 2 successor generations, 2 coordinators, 2 plan identities | `CommittedGenerationsHavePlans`, `ReturnedIsCommitted`, `QuarantineIsForever`, `ImplementsLog` |
| `rendezvous` | 3 nodes, 2 slots, 1 successor | `NoMixedGenerations`, `RunsAsAssigned`, `ContextIsOwn`, `ImplementsLog` |
| `rendezvous_live` | 2 nodes; either 2 slots, or 1 slot and a standby | `AssignedNodeSettles`, `ClosedRunDrains`, `OldWorkersStop` |
| `watch` | hang: 3 ranks, one step; lease: 2 plans, 4 instants, 3 failing store calls | `StageCulprits`, `StoppedIsReported`, `LeaseTellsTheTruth`, `FirstLeaseIsRetried` |
| `restart` | select: 2 ranks, 3 steps, all three calls, both modes; attach: 2 ranks, one with a thread that imports PyTorch and DeepSpeed | `ResultIsHeldByAll`, `NewestIsFound`, `SameFramework`, `CountsTheStateItHas`, `RestartEnds` |
| `training` | gemini: 1 pair, 3 captures, flush every 2, 1 lost node; session: 11 jobs, 5 updates, 3 starts; harness: 3 ranks, dense and dynamic; local: 4 ranks in rows and columns, 2 rounds; transfer: 2 backends, 2 chunks, 2 versions, 2 calls of each side | `PreviousPairIsAligned`, `ReceivedIsWhole`, `SecuredStepSurvives`, `CaptureIsOfItsStep`, `ResumesWhereTrusted`, `ClosedIsSilent`, `BlamedIsGuilty`, `LockStep`, `CertifiedMeansClean`, `SlowIsNeverLearned` |
| `trust` | job: catalogs of 1 and 2 shapes with durable checkpoints, dense with and without, 4 steps, 2 candidates, 1 stop; sidecars: 2 ranks, rotating catalog with durable checkpoints, or with a mirror, 2 steps, 1 stop | `VerifiedIsClean`, `LatestIsValidated`, `RolesMoveTogether`, `PickIsSound`, `PickNeverRecedes` |
| `campaign` | campaign: 2 ranks, four campaigns in one job with 2 mishaps, two in overlapping jobs; tensor: all accepted pairs of 45 incidents, 5 iterations, 1 load | `ClaimedEverywhere`, `SameConsensus`, `InjectedAsScheduled`, `TensorAsScheduled`, `CompletedLastedInFull` |
| `gemini_interrupted` | as the part gemini of `training` | violates `OwnShardsAreWhole` |
| `gemini_two_pairs` | 2 pairs, 3 captures | violates `SecuredStepSurvives` |
| `recovery_split` | 2 ranks, `mode=None` | violates `EveryRankReturns` |
| `trust_stale` | a catalog of 2 shapes without durable checkpoints | violates `VerifiedIsClean` |

Most stateful modules have a `TypeOK` (`SessionTypeOK` in `TrainingSession`). It holds under the configurations above; the runs
list only the properties that say more, and `StoreTypes` proves the one of the store.

### Bounds

* `store`: a third node makes a replacement possible and lets a quarantined machine
  come back as a candidate; `MaxRegistrations = 4` lets one register twice; two
  coordinators with two plan identities race on the same and on different plans; two
  successors are needed for a quarantine to be inherited.
* `rendezvous`: two slots make a group, a third node a standby; one successor is
  enough for an old and a new generation to overlap. `Policies` allows one machine a
  worker policy of its own.
* `rendezvous_live`: two nodes, since the liveness graph is the costly part, and two
  situations, because a same-node restart needs a full group and a replacement a
  spare.
* `watch`: leases of two units with an observation fresh for two let a lease lapse and
  come back; three failures reach `MaxConsecutiveFailures`. Three ranks make a majority, and
  five ticks let a stage pass its threshold and a stale snapshot of it be confirmed. With
  sampled stages a step has fewer collectives, so that one step stays within reach.
* `restart`: three steps let a missing file, a damaged one and a good one occur
  on one rank, and the search descend twice; of two initial states that differ only in
  the order of the two ranks one is kept (`InOrder`: the ranks run the same code); a plan that selected step 2 and an engine that
  counts to 2 can miss each other in both directions.
* `training`: two captures fill both slots and the third rotates them; five updates and three
  starts let a job pass its last checkpoint, fall back and come to the same step again, at
  an interval of two. Two wrong ranks of three outvote the third. Two rounds make a streak of
  the persistence required, over which the fault may move. Two chunks let a shard be torn,
  two versions change it, and second calls meet what the first ones left.
* `trust`: a cycle of two shapes, saved at its boundary and validated by the next
  cycle, is four steps; a stop comes between any two file changes, and the restart is in either
  mode. For the sidecars, two cycles make a candidate and promote it, and one stop tears either
  on any rank. The properties of both parts are proved for any number of cycles, those of the
  job for any number of stops (`VerifiedIsClean` with a durable coordinator or a dense catalog);
  with a second stop those of the sidecars do not hold, and `PickNeverRecedes` after the stop only with a durable coordinator (below).
* `campaign`: three iterations let an effect of two iterations begin and end; between
  them the campaigns have every kind of effect and lifetime. Two mishaps let an undo
  fail after a failed activation, or a rollback after a failed claim. Two jobs are an
  old one and its restart, in one case with a second iteration to rewind from. In the tensor
  part, five iterations hold two windows of two iterations with a gap between them.

Deadlock is not checked where a bound or the end of the job stops the model
(`CHECK_DEADLOCK FALSE`). `restart` and `watch` have it on: a script that has ended
(`ScriptRests`), a clock at its bound (`Bounded`) and ranks that have all returned
(`Finished`) stutter by steps of their own.

### Fairness

* `Rendezvous!FairSpec`: weak fairness of each agent's own polling (`Progress`) and of
  its deadline (`Timeout`). The agent sleeps for a short interval and polls again,
  and `join_timeout` is finite. Nothing is assumed of managers or of failures, and an
  agent is not obliged to see heartbeats of dead peers. `OldWorkersStop` names its
  own assumption, that the new lease is renewed, since an agent ignores a plan that
  nobody stands behind.
* `WatchSpec`: the threads of a living coordinator are scheduled, but the clock of the
  lease is under no fairness. For hang detection the daemons, their wait and the collective's
  timeout go on, and time passes; a stage that is bounded (`MaxStage`) ends. Training
  itself is under no fairness: that it stops is what `StoppedIsReported` is about. `[]<>~Met`
  is weak fairness of `Round`, which alone leaves `Met`, in a form TLC evaluates fast.
* `RestartSpec`: a rank that selects a checkpoint goes on, and a reduction that all have
  joined completes. Of the attachment, the code of the adapter is scheduled in each thread,
  an import ends or fails, and a collective that all have joined completes. What waits for a
  lock that the other thread's imports take and release (`WaitsForImports`: a vote's outcome, the
  imports of `_enable`, the end of the attachment) is under strong fairness: it gets the lock
  if that is free again and again. What else the script does is under no fairness.

### What the violations show

* `gemini_interrupted`: `_do_save` starts to overwrite a slot before it takes the
  slot's READY label away. A SIGTERM between the two lines flushes half-overwritten
  bytes as an older step's shard, though `docs/gemini.md` says only completed slots
  are serialized.
* `gemini_two_pairs`: each rank rotates by the outcome of its own exchange. While one
  pair's link is down, the other pair drops the generation that the first still keeps,
  so that after the loss of a node no generation is complete. The comments in
  `buffer.py` and `replication.py` say that the last replicated step stands; for one
  pair it does (`training`).
* `recovery_split`: with `mode=None` each rank takes the mode from its own sidecar. After
  a crash between two ranks' writes these differ, the ranks join different reductions
  and one waits in a reduction that nobody else joins. With an explicit mode the
  search always ends (`restart`).
* `trust_stale`: without durable checkpoints, a candidate of an earlier process can be
  promoted by a cycle of replays on a state that does not come from it. With durable
  checkpoints the restart rejects the interrupted window first, and in dense
  certification no candidate waits, so `trust` holds there.

Five more configurations are kept beside the runs. Each takes TLC less than a minute and
ends in a violation, of a property whose bounds or hazard above refer to it:

* `MCTrustTorn.cfg` (with `SidecarTrust`), `PickIsClean` at two stops: the MIN over the
  verified pointers is taken for a generation that all ranks verified. A promotion that a
  crash tore leaves one rank's pointer ahead; the job goes back, passes that step again and
  flushes an unvalidated capture over its shard; when the other rank gets ahead, the MIN is
  the stale pointer. One stop does no harm (`trust`), two do, also with durable checkpoints,
  and sooner with a mirror, where one rank's status stands for both.
* `MCTrustDense.cfg` (with `SidecarTrust`), `TrustIsKept` for a dense catalog: a rank
  promotes a boundary that another may not have written yet. If the pointers differ, the MIN
  can be a step one rank has no shard of, and a verified load looks no further, although an
  older generation is verified by all.
* `MCTrustRecedes.cfg` (with `SidecarTrust`), `TrustIsKept` without a durable coordinator: after a
  crash that tore a promotion, one rank's sidecar names a candidate whose shards the other does
  not have. A latest load keeps it, the next accepted cycle promotes it, and both ranks verify
  generations after it. In between, when one rank is a promotion ahead, the MIN is the left-over
  generation, and a verified recovery finds nothing to load. It takes six cycles, more than
  the run `trust` has; the proof attempt found it. The cause is that of `trust_stale`. A durable
  coordinator clears the candidate after a load, and then it does not happen (`PickNeverRecedes`).
* `MCRecoveryMemory.cfg` (with `RecoverySelect`), `MemoryIsNotForgotten`: a `load` inside a
  living process finds the newest step on disk damaged and goes down on disk, to an older
  step or to none, past one that every rank holds in memory. `find_latest` on the same files
  reports the one in memory.
* `MCReplayTie.cfg` (with `MCReplayTie`), `InconclusiveBlocks`: of four peers, two compute a wrong
  value together, but only in the confirmation rounds. The exact comparison of such a round has no
  majority and is inconclusive; `merge_replay_rounds` keeps the comparisons of the first round, so
  that `replay_result_certifies_checkpoint` does not see it, although `docs/scout.md` says that an
  inconclusive comparison does not certify. Where one side has the majority the deviating ranks are
  in the merged bitmaps, and `CertifiedMeansClean` is proved.

## 5. The proofs

TLAPS checks them. They hold for every value of the constants that the assumptions below
allow: any sets of nodes, ranks, coordinators and plans, any bounds.

| module | theorem | states |
|---|---|---|
| `PlanStoreProof` | `LogQuarantine` | `QuarantineIsForever` of the log |
| | `StoreTypes`, `StoreHasPlans`, `StoreReturns` | the type invariant, `CommittedGenerationsHavePlans`, `ReturnedIsCommitted` |
| | `StoreImplementsLog`, `StoreQuarantine` | `ImplementsLog` and, through it, `QuarantineIsForever` of the store |
| `RendezvousProof` | `RendezvousBarrier`, `RendezvousAssignment`, `RendezvousContext` | `NoMixedGenerations`, `RunsAsAssigned`, `ContextIsOwn` |
| | `RendezvousImplementsLog` | `ImplementsLog` of the rendezvous |
| | `SameFrameworkAlways`, `CountsTheStateItHasAlways` | `SameFramework` and `CountsTheStateItHas` of the workers |
| `GeminiBuffersProof` | `PreviousAligned`, `ReplicasWhole` | `PreviousPairIsAligned`, `PeerShardsAreWhole` |
| | `SecuredSurvives` | `SecuredStepSurvives`, for one pair and one loss |
| | `ReceivedIsWholeAlways` | `ReceivedIsWhole`: replicas, and the shards that were fetched |
| | `FetchedIsUndamaged` | a fetched shard has a content that training has written |
| `FaultCampaignProof` | `SameConsensusAlways`, `ClaimedEverywhereAlways`, `CompletedLastedInFullAlways` | the invariants of those names |
| | `LimitIsKeptAlways`, `ArmedTogetherAlways`, `NothingLeftBehindAlways` | the three parts of `InjectedAsScheduled` |
| | `InjectedAsScheduledAlways` | `InjectedAsScheduled` |
| | `TargetIsFreeAlways` | a part of `TensorAsScheduled`: two incidents on one tensor are never in each other's way |
| | `ProgressionsIntersectIsExact` | what the comparison of two long ranges computes |
| `PlanLeaseProof` | `LeaseTellsTheTruthAlways` | the four parts of `LeaseTellsTheTruth` |
| | `LeaseInvariant` | the inductive invariant they follow from |
| | `StageCulpritIsSlowAlways` | `StageCulprits` of hang detection, with two confirmation rounds or more |
| `RecoverySelectProof` | `ResultIsHeldByAllAlways`, `NewestIsFoundAlways` | `ResultIsHeldByAll`; `NewestValidIsFound` and `ModeIsRecorded`, for ranks in one mode |
| | `ReturnTogetherAlways` | ranks in one mode return in one round with one result |
| | `SelectInvariant` | the inductive invariant these follow from |
| `CheckpointTrustProof` | `LatestIsValidatedAlways`, `RolesMoveTogetherAlways` | `LatestIsValidated`, `RolesMoveTogether` |
| | `VerifiedIsCleanAlways` | `VerifiedIsClean`, with durable checkpoints or a dense catalog |
| | `TrustInvariant` | the inductive invariant these three follow from |
| | `PickIsSoundAlways`, `PickNeverRecedesAlways` | `PickIsSound` and `PickNeverRecedes` of the sidecars, for a rotating catalog and one stop |
| `TrainingProof` | `SessionTypes`, `NeverBehindGeminiAlways` | types and `NeverBehindGemini`, for every job |
| | `CaptureIsOfItsStepAlways`, `ResumesWhereTrustedAlways`, `ClosedIsSilentAlways` | the properties of those names, for the jobs they are true of |
| | `LockStepAlways` | `LockStep` of the replay harness: dense jobs, and dynamic ones whose optimizers are alike |
| | `CertifiedMeansCleanAlways`, `CertifiedIsCoveredAlways` | the two parts of `CertifiedMeansClean`; the second also where corruptions may tie |
| | `BlamedEndpointIsGuilty` | `EndpointIsGuilty` and `LostReportsDoNotMislead` of the localizers, for layouts that tell endpoints apart |
| | `BlamedIsGuiltyAlways` | `BlamedIsGuilty`, if next to failed collectives some group is as fast as ever |

### Assumptions

TLC evaluates each of them in the run in brackets.

* `ConstantsOK`, `StoreAssumption` (`store`), `RendezvousAssumption` (`rendezvous`): the numbers
  are naturals, there is at least one slot and no more slots than nodes are admitted, and
  `None` is not a value it stands beside.
* `BuffersAssumption` (`training`): `Peer` pairs the ranks, as `_compute_peer_rank` (`replication.py`) does.
* `CampaignAssumption` (`campaign`): the ranks are finitely many, iterations, limits and
  lifetimes are naturals, and a fault with a number of iterations does not also end with an
  event (`fault_injection/config.py`: a lifetime is exactly one of the three kinds); faults
  target ranks of the job (`_validate_distributed_target_ranks`).
* `StateFaultAssumption` (`campaign`): bounds are naturals, and an incident that is given candidate by
  candidate has finitely many.
* `TrustAssumption` (`trust`): a replay plan is not empty, and that of a dense catalog is the
  one shape that was captured (`detection/replay_shapes.py`: the constructor refuses an empty
  plan, `dense` builds it of one).
* `SidecarAssumption` (`trust`): there are two ranks, each other's replication peers, and their
  folders are not the mirror's. `RotatingOnce`, the hypothesis of two theorems, holds of that run too.

* `LeaseAssumption` (`watch`): there is a plan, the clock has a bound, a lease and the time for
  which an observation is fresh last at least one renewal interval.
* `AttachAssumption` (`restart`): ranks with an import thread are ranks, the steps a selection may
  return go up to `MaxStep`, and a specialized framework is not called "none" or "pytorch".
* `HangAssumption` (`watch`): ranks are numbered from 0, thresholds and bounds are naturals.
  `Confirmations >= 2` is what `detection/config.py` sets for both kinds of stage; with a single
  round a snapshot that training has left behind would be reported.
* `SessionAssumption`, `TransferAssumption`, `HarnessAssumption`, `NobodyTies` (`training`): bounds and
  intervals are naturals, a transfer has a chunk, ranks are finitely many naturals of which at
  least one is not corrupted. The run also evaluates what the theorems on the session ask
  of a job, for all of its jobs.
* `LocalizationAssumption` (`training`): the ranks are finitely many, every group has a member, and
  between the factors for slow and healthy there is room for a neutral latency.
  `CrossOnce` and `LeavesApart` (`training`) are about the deployment: groups that differ have at
  most one rank in common, and then no switch but the leaf of that rank.
* `SelectAssumption` (`restart`): there is a rank, the calls and modes are those of the code,
  and `load(step=)` asks for a step that checkpoints are labelled with.

### GenerationLog and PlanStore

* `QuarantineIsForever` is not inductive. `LogInv` adds that nothing is committed ahead of
  the counter (`NothingAhead`), that no generation is skipped (`NoGap`), and that quarantines
  grow (`QuarantineHistoryGrows`), without which the successor of the newest placement says nothing
  of older ones. `SuccessorSafe` is the lemma on a single successor.
* The part of `StoreInv` that matters is `CarriedPlans`: a plan in the hands of a coordinator
  extends the committed placement of the generation it leaves, even if that generation has
  passed, and a coordinator past its first compare-and-set carries the plan that is stored.
* `StoreImplementsLog`: every step of the store is a step of the log or a stutter, under
  the mapping `History` that shows plans only up to the generation key. The compare-and-set
  of the plan is a stutter, that of the generation the commit.

### Rendezvous

`NoMixedGenerations` speaks of agents that are past the barrier, but what keeps them apart
is what they left behind on the way there. `RendezvousInv` says that a ready record of an
agent is never of a later generation than the one it tries (`IsNotBehindItsRecords`: an
agent reads the committed generation again before each attempt, and that never recedes), and
that all members of a group have been ready at once for whoever has left the barrier
(`HasMetItsGroup`). Of two agents inside with different generations, the older one would
need a record of an agent that is already ahead. `HasItsContext` carries the restart
context over the two ways into a generation: removed before generation 0, written before a
later one.

### GeminiBuffers

`SecuredStepSurvives` is about a time at which all ranks have exited, so the invariant has to
follow the newest secured generation through every rotation and flush before. `KeepsSecured`
is what each rank keeps of it: its previous pair is that generation or a newer one, or both
shards are on its disk. A rotation preserves that only if the pair that comes in is whole and
the one that goes out is dispensable. The first is `WhileReplicating`: while there is a source,
the own slot holds its step, and the peer slot is empty but for an exchange that ended well.
The second is `WhenFlushed`: after a flush on demand, which ends the exchange itself, what the
current slots say of each other. `PeerShardsWhole` is the same for replicas on disk.

The hypotheses of `SecuredSurvives`, one pair and at most one loss, are those under which the
code keeps the promise: `gemini_two_pairs` is the counterexample for two pairs, and with both
ranks of a pair nothing is left to restore from. That an own shard may be torn by a signal
(`gemini_interrupted`) is a disjunct of the property itself.

### FaultCampaign

`CampaignInv` has four parts.

* `InStep`. A round is untagged and each rank decides by itself whether one is due, so
  agreement has to follow from what the ranks knew after the round before: one journal, the
  journal before it, and an iteration. `OnTheWay` says where a rank can be that goes from that
  knowledge to the next round. `SameConsensus` is a consequence, not a part.
* `Books`: what a session believes of its journal between reading and writing it.
* `Claims` is a count: for ranks `r` and `q`, `r` has applied an occurrence no more often than
  `q`'s journal has attempts, less the jobs in which `q` may still take its claim back or `r`
  may still apply it. `ClaimedEverywhere` alone is not inductive, since a claim that is
  rolled back and one that is applied look the same in the journal. The lemmas on
  `Cardinality` of `FiniteSetTheorems` carry it.
* `Effects`: where each effect of one rank is in its lifetime, from which
  `CompletedLastedInFull` and `NothingLeftBehind` follow.

`ArmInv` adds to it, for `ArmedTogether`, what a rank knows that waits after `Activate`
(`AsOne`): it has applied nothing that is not selected in this iteration, and unless it
reports a failure it has a record of all it had to do. `InStep` says that the ranks in that
round have the same selection and iteration, and no record is ever taken back (`Grows`), so
a rank that trains after the round can rely on the records of the others.

The proof found two actions whose `CASE` had guards that overlapped (`AfterRound`, the record in
`Activate`). TLC takes the first guard that is true, TLA+ leaves the choice open; they are
exclusive now, in the order in which the code asks.

### PlanLease

`LeaseInv` follows a renewal on its way. `Carries` is about a thread between the store's clock
and its write: the remaining time it is about to publish is that to the deadline of its plan
at the instant it read, and its sequence number is above the record's. `Recorded` says the same of
the record, and `LookInv` of what the agent has seen of it: a record that it has not
looked at yet was written after its last look. That is why a live answer rests on a
renewal the agent has watched happen, however old the record was when it first looked.
`NotBegun` plans, not committed yet or with the old thread still being waited for, have no thread
and no record. `SequenceMovesForward` is the part of `LookInv` that compares with the record.

### RecoverySelect

The reductions carry no tag, so that two ranks speak of the same question has to be part of
the invariant. `Together` says how: ranks enter one by one (`Arriving`), in `load(step=)` they
also activate one by one (`Activating`), and from the first reduction on that they share, all
have learnt the same (`InOneRound`). `Informed` is what a rank has concluded from its own
reductions about everybody's files: a memory step is in the slots of all ranks, a step up
for validation is one that is verified where the mode asks for it, and no generation that
all ranks have lies above the bound of the search. There is one lemma per reduction
(`MemoryHasGoesOn`, `NewestPlace`, `ExactPlace`, `ValidPlace` and so on). `Smallest` and `Largest` say
what `Min` and `Max` of the community modules choose, from the well-foundedness of the
naturals.

The hypothesis `SameMode` (the ranks resolve one mode) holds of every call with an explicit mode
(`ExplicitMode`). Under `mode=None` it asks that the statuses agree; `recovery_split` is what
happens when they do not.

### CheckpointTrust

A handler decides in memory and then changes files one by one, and the job may be killed
between any two. The invariant is therefore about `todo`, the changes still to come.

* `JobInv`: the schedule is in step with the evidence for the candidate (`Follows`), and the
  changes to come are in order: the roles advance once, before a candidate is saved, and a
  load is followed by no boundary.
* `ManifestInv`: what a commit under way has established, and that corruption in the pending
  candidate is in the live state too, where a shape that is still ahead will reveal it.
* `RolesInv`: what manifest and status will say when `todo` has been carried out.
  `RolesMoveTogether` is the case of an empty `todo`.
* `FilesInv`: the GEMINI candidate is an ancestor of the live state, so that a validated cycle
  speaks for its shards. This part needs durable checkpoints or a dense catalog: without
  both, a candidate survives the restart that loads another state, and `trust_stale` is the
  behaviour in which it is then verified.

### TrustSidecars

`VerifiedPick` is computed from two sidecars and two folders that no step changes together. `SideInv`
describes them in the three stages of a job that stops once (`RotatingOnce`).

* Before the stop (`FirstInv`): corruption is only in the last step that was kept, and no
  sidecar has verified it (`FirstBad`); a generation that a sidecar names is whole in its
  folder (`FirstRoles`), in the mirror as well as in a rank's own; and every rank's folder has all
  generations but the one in progress, the mirror too once it holds a sidecar (`FirstFiles`). The ranks may be anywhere in their files otherwise.
* While the ranks load (`LoadInv`): what the restart has left, with folders lost, moved or kept. A rank that
  has shards has all generations up to those its sidecar names (`Covers`), so that the MIN of two
  pointers is whole on both ranks or on none.
* In the second run (`RunInv`): left-over pointers may name generations of the abandoned history that are
  newer than the load. Not both ranks' can (`WeakRank`), because what both ranks have is what a load
  finds. The invariant therefore names one rank `w` whose pointers are to the step of the load or to
  generations that this run has made whole (`RunRoles`); it keeps the MIN sound. Of corruption it says
  that this run's is not yet verified by `w`, and the run's before by nobody (`RunBad`).
* A copy that was cut short may leave the mirror with one sidecar, which both ranks then read. `ReadsInv`
  says that what a rank reads of its peer's does not move as long as it has none of its own.
* With a durable coordinator `RunTrust` adds that the ranks are at most one file apart in what they
  promote (`Alongside`), which `PickNeverRecedesAlways` needs: between two promotions each rank still has
  what the other's older pointer names.

At a second stop `FirstInv` no longer describes where the restart begins, and `MCTrustTorn.cfg` shows that no
other invariant could.

### WorkerAttach

`SameFramework` relates ranks that may attach long after they have agreed. `Agrees` therefore says
of each rank alone that what it has selected since is what it agreed to, and `AllAgree` that all ranks
hold one agreement; that begins at `Gather`, for all at once. `HoldsLocks` ties every place
of a thread to the locks it must hold there, from which follows that no other thread can be at a
place where selection or handle change. The difficult case is an import that fails while a handle
is open: its rollback forgets the adapter and then closes the handle, and in between
a rank could train with what nobody remembers. `Stands` and `ClosesSoon` say when that is: the main
thread holds the transaction at the gather, so that no such import is under way there. `Counts` carries
the recovered step from the plan through the enabling of the integration into the handle.

### HangDetection

The invariant follows one occurrence of a stage on its way: from the tracker (`Tracked`: the clock
of a stage runs while it is open, its number is its own, and what is done was begun), through
the snapshot of a daemon (`Snapped`: a snapshot is of the past, and an occurrence in it was open
since then or has ended, `Since`), into the candidate that a round keeps for the next
(`CandidateInv`, `Suspected`). A rank is named only if two rounds saw it in one occurrence; by then
it has really spent the threshold there, however late either daemon was. With one round only
the second half of this is missing, which is why the theorem asks for two.

### CheckpointTransfer

`TransferInv` describes the pair of server and fetcher by where they have met (`Met`): while both
talk they are at the same message, with the same manifest and the same chunk, and a side that
gave up and called again is met at the manifest only. A fetcher's buffers therefore hold
chunks of the version that its manifest described, and of no other. `DescribedInv` adds where the
described content comes from: `FetchedIsUndamaged` needs it, `ReceivedIsWhole` does not.

### TrainingSession

Four invariants, each on top of the ones before. `TypeInv` and `RestInv` hold of every job. `TrustInv`
holds of jobs that load only what was certified: only a Trainer loads through the framework's own
call, and what is loaded was validated. `CountInv` is the one that `CaptureIsOfItsStep` needs: live state, count and the
stores agree up to the one update that the scheduler has not followed yet (`Late`), through
every recovery, fallback and restart. What a verdict of SCOUT may do to the stores is put into two
operators, so that each framework's step is proved from them.

### ReplayHarness

* `HarnessInv`. `LockStep` is not inductive: that all ranks decide alike follows from a comparison of
  their contracts, and a contract speaks of the optimizer only if there is evidence of
  its step. `EvidenceInv` says that there is exactly where the boundary was armed, so that contracts
  cannot differ in what they leave out.
* `CoverInv`: what a check has done and has still to do is always the list it began with (`TodoInv`), and
  that list names every due recipe in order (`DenseInv`), or every shape (`SweepInv`, by position).
* `TaintInv`: a taint is on record as SDC, in a round or in a finished item of the check, and the name
  under which the comparison of the all-to-all replay joins is still free (`WithoutAllToAll`), so that
  joining it overwrites nothing.

A strict majority that is wrong outvotes the others, who are then recorded as deviating; so a
taint leaves a trace unless the ranks are split in halves. `NobodyTies` is therefore needed,
and the configuration with a tie shows what happens without it. An attempt to prove
`CertifiedMeansClean` for every result, not only that of a finished check, failed for a good
reason: with an optimizer interval of 0 an emergency check begins beside an earlier
certified result. The property says now what the code promises, of a check that has ended.

### Localization

`WindowInv` says that what the collector holds was observed under the present fault; then a group
that looks slow and has no straggler has the fault on it, and none that looks healthy has
(`SlowIsTouched`, `HealthyIsNotTouched`). So a faulty endpoint is always among the candidates, and as the
only one it is the suspect, in any layout. A faulty switch makes all groups over it slow, and what these
share beside it depends on the layout: if two of them share a rank whose leaf is another switch, that rank is
blamed. `LeavesApart` excludes this, and `CrossOnce` what missing flags can do to the vote of
`CrossPGCoordinator`. `StreakInv` and `SwitchInv` carry the rounds of a streak to its confirmation.

`SwitchLocalizer` needs no layout, but `_partition` (`switch_localizer.py:190`) takes the fastest
sibling for the healthy norm. In a window whose only latencies are from groups over the faulty switch, these are
not slow, and what failed is compared with them: with three groups over one spine, of which two fail,
TLC finds a leaf confirmed that two of them have in common. `FailuresStandOut` is the condition under
which that cannot happen: where a collective failed, some group was as fast as ever. Without failed
collectives nothing is asked.

### StateFault

`TargetIsFree` says that no incident is due while the tensor is taken. The step is simple: `SlotInv`
says that the effect began at a candidate of its incident, whose window is still open. That an
accepted schedule has no second candidate in that window (`NobodyIsInTheWay`) is arithmetic.
`WindowHits` finds a window that meets another, from either side (`WindowsAreFound`). Two ranges too
long to enumerate are compared by `ProgressionsIntersect`, for each offset at which two windows can
meet, and `ProgressionsIntersectIsExact` says that this finds a common iteration if and only if there
is one. The least positive combination of the two steps is their greatest common divisor (`Bezout`),
its coefficient modulo the other reduced step is the inverse (`HasInverse`), with which the congruence
has the one solution that the code computes (`Congruence`), and every other common value lies a
multiple of the period away. Induction is replaced by least elements, which the library's theorem on
well-founded relations provides.

### What is only model-checked

* Liveness and whatever needs ENABLED (`AssignedNodeSettles`, `ClosedRunDrains`, `OldWorkersStop`, `EveryRankReturns`, `RestartEnds`,
  `StoppedIsReported`, `FirstLeaseIsRetried`): TLAPS does not reason about fairness.
* What a definition by recursion over data computes: the folds of `ReplayAnalysis` for every input
  (`SlowIsNeverLearned`).
* Two parts of `TensorAsScheduled`, `NoTraceOfFault` and `StaleIsOneBehind`, are about the values of a
  tensor, among which NaN stands beside the numbers.
* `PickIsSound` and `PickNeverRecedes` for a dense catalog or a second stop, and `TrustIsKept`, which the
  code does not keep (section 4).
* `MemoryIsNotForgotten` of `RecoverySelect`, which the code does not keep (section 4).

## 6. What is not modelled

* Wire and file formats, checksums, JSON validation, command lines, logging.
* The numerical replay itself, MoE regime clustering, tensor flattening, RNG capture.
* Machine health sampling (I/O on sysfs and tools), parsers of topology tools, report types.
* Discovery of fault targets in each framework, gradient replay, and the scoring of
  localization results.
* The tensors each framework hands over, and its own entry points and checkpoint formats.
* Torn reads of the hang detector's shared memory, and transfer threads and in-flight
  messages that outlive a timeout.
