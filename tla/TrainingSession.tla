-------------------------- MODULE TrainingSession --------------------------
(***************************************************************************)
(* The framework integrations: how a resiliency session is attached to a   *)
(* training job, where it hears of a completed step, what it captures      *)
(* there, how a restarted job resumes and how the session is taken away.   *)
(*                                                                         *)
(*   dispatch.py, _feature_wiring.py, handle.py, lifecycle.py, cadence.py  *)
(*   integrations/_common.py, deepspeed/, megatron/, pytorch/, torchtitan/ *)
(*                                                                         *)
(* The module follows one rank.  Its subject is the boundary: each         *)
(* framework applies the update, advances its scheduler and calls the      *)
(* session's hook in an order of its own, and a checkpoint taken at the    *)
(* wrong one of these points mixes two steps.  What SCOUT decides about a  *)
(* boundary is a nondeterministic verdict (CheckpointTrust has the         *)
(* certification, RecoverySelect the choice among ranks); GEMINI is the    *)
(* newest record that recovery would find.                                 *)
(***************************************************************************)
EXTENDS Naturals, FiniteSets

CONSTANTS
    Jobs,        \* the jobs considered, see Job
    Interval,    \* the one interval of GEMINI and SCOUT
    MaxUpdates,  \* bound: updates applied to the parameters
    MaxStarts    \* bound: times the job is started

(***************************************************************************)
(* A job: the object given to enable_resiliency, whether its parameters    *)
(* are DTensors, whether it has a scheduler, a durable checkpoint, a       *)
(* load_fallback; how many engine.step() calls make one update; whether an *)
(* update may be skipped (loss-scale overflow) and whether another tool    *)
(* wraps scheduler.step after the session did.                             *)
(***************************************************************************)
Job == [target : {"engine", "pipeline", "chunks", "trainer", "module"},
        sharded : BOOLEAN, scheduler : BOOLEAN, durable : BOOLEAN,
        fallback : BOOLEAN, accumulation : 1 .. 2, skips : BOOLEAN,
        covered : BOOLEAN]

SessionAssumption ==
    /\ Jobs \subseteq Job
    /\ Interval \in Nat \ {0}
    /\ MaxUpdates \in Nat
    /\ MaxStarts \in Nat

VARIABLES
    job,        \* the job of this behaviour
    phase,      \* "down", "load" (Trainer loads), "loop" or "sched"
    live,       \* what the process trains
    session,    \* the handle returned by enable_resiliency
    gemini,     \* the checkpoint GEMINI would recover, as a set of at most one
    own,        \* the newest checkpoint in the framework's own store
    validated,  \* the one the SCOUT manifest calls validated
    loaded,     \* where the live state came from at this start
    starts      \* starts so far

sessionVars == <<job, phase, live, session, gemini, own, validated, loaded, starts>>
stores == <<gemini, own, validated>>

Fresh == [params |-> 0, sched |-> 0, moments |-> FALSE, micro |-> 0]

NoSession == [open |-> FALSE, step |-> 0, recovered |-> FALSE,
              pending |-> FALSE, refs |-> "none"]

Checkpoint == [step : 0 .. 2 * MaxUpdates, params : 0 .. MaxUpdates,
               sched : 0 .. MaxUpdates, moments : BOOLEAN]

SessionTypeOK ==
    /\ job \in Jobs
    /\ phase \in {"down", "load", "loop", "sched"}
    /\ live \in [params : 0 .. MaxUpdates, sched : 0 .. MaxUpdates,
                 moments : BOOLEAN, micro : 0 .. 1]
    /\ session \in [open : BOOLEAN, step : 0 .. 2 * MaxUpdates,
                    recovered : BOOLEAN, pending : BOOLEAN,
                    refs : {"none", "params", "all"}]
    /\ \A store \in {gemini, own, validated} :
          store \subseteq Checkpoint /\ Cardinality(store) <= 1
    /\ loaded \in {"fresh", "gemini", "validated", "own"}
    /\ starts \in 0 .. MaxStarts

----------------------------------------------------------------------------
(* Selection of the integration.                                           *)

SelectFramework(target) ==
    CASE target \in {"engine", "pipeline"} -> "deepspeed"
      [] target = "trainer" -> "torchtitan"
      [] target = "chunks" -> "megatron"
      [] target = "module" -> "pytorch"

\* A PyTorch model, also one inside a TorchTitan Trainer, takes the FSDP
\* runtime when it has DTensor parameters.
Integration ==
    LET selected == SelectFramework(job.target)
    IN  IF selected \in {"deepspeed", "megatron"} THEN selected
        ELSE IF job.sharded THEN "fsdp" ELSE "wired"

\* A TorchTitan Trainer hands in a registrar that hooks its scheduler.
HooksScheduler == job.target = "trainer"

----------------------------------------------------------------------------
(* The step boundary.                                                      *)

Due(step) == step % Interval = 0

\* The adapter's tensors at this moment: the moments only once they exist.
CollectTensors(l) == IF l.moments THEN "all" ELSE "params"

\* DeepSpeed and Megatron collect the references once and keep them.
TensorList(s, l) == IF s.refs = "none" THEN CollectTensors(l) ELSE s.refs

\* What a capture at this point holds, labelled with the session's step.
Captured(step, l, refs) ==
    [step |-> step, params |-> l.params, sched |-> l.sched,
     moments |-> refs = "all"]

Keeps == Integration \in {"deepspeed", "megatron"}

\* The coordinator's verdict on the boundary: a clean one captures and, with
\* a durable checkpoint, saves a candidate that is committed now or later;
\* SDC quarantines what is not committed; without a result nothing happens.
ApplyResult(step, l, s) ==
    LET refs == IF Keeps THEN TensorList(s, l) ELSE CollectTensors(l)
        record == Captured(step, l, refs)
    IN  \/ /\ gemini' = {record}
           /\ IF job.durable
              THEN /\ own' = {record}
                   /\ validated' \in {validated, {record}}
              ELSE UNCHANGED <<own, validated>>
           /\ session' = [s EXCEPT !.refs = IF Keeps THEN refs ELSE @]
        \/ /\ own' = IF job.durable THEN validated ELSE own
           /\ session' = s
           /\ UNCHANGED <<gemini, validated>>
        \/ /\ session' = s
           /\ UNCHANGED stores

\* The post-step hook of every integration.
PostStep(l, s) ==
    LET step == s.step + 1
        counted == [s EXCEPT !.step = step]
    IN  IF Due(step) THEN ApplyResult(step, l, counted)
        ELSE session' = counted /\ UNCHANGED stores

\* No hook runs.
Unheard(s) == session' = s /\ UNCHANGED stores

\* The framework applies an update, or skips it on overflow.
Update(l, ok) ==
    IF ok THEN [l EXCEPT !.params = @ + 1, !.moments = TRUE] ELSE l

Outcomes == IF job.skips THEN BOOLEAN ELSE {TRUE}

\* engine.step(): only the call that ends the accumulation window updates,
\* and it advances the engine's scheduler as well.
EngineStep(l, ok) ==
    IF l.micro + 1 < job.accumulation THEN [l EXCEPT !.micro = @ + 1]
    ELSE [Update(l, ok) EXCEPT !.micro = 0,
                               !.sched = IF ok THEN @ + 1 ELSE @]

----------------------------------------------------------------------------
(* The wrapped calls.                                                      *)

\* DeepSpeedResiliency._wrapped_step, on engine.step or on the pipeline
\* engine's optimizer instruction: the hook follows every call.
DeepSpeedStep ==
    /\ phase = "loop" /\ Integration = "deepspeed"
    /\ live.params < MaxUpdates /\ session.step < 2 * MaxUpdates
    /\ \E ok \in Outcomes :
          /\ live' = EngineStep(live, ok)
          /\ IF session.open THEN PostStep(live', session)
             ELSE Unheard(session)
    /\ UNCHANGED <<job, phase, loaded, starts>>

\* Whether the optimizer wrapper leaves the rest to the scheduler wrapper.
DefersToScheduler == job.scheduler

\* MegatronResiliency._wrapped_step: evidence still pending is that of a
\* step whose scheduler never advanced, and is dropped; this step then waits
\* for its scheduler, or is complete when there is none.
MegatronStep ==
    /\ phase = "loop" /\ Integration = "megatron"
    /\ live.params < MaxUpdates /\ session.step < 2 * MaxUpdates
    /\ \E ok \in Outcomes :
          /\ live' = Update(live, ok)
          /\ phase' = IF ok /\ job.scheduler THEN "sched" ELSE "loop"
          /\ IF ~session.open THEN Unheard(session)
             ELSE IF DefersToScheduler
                  THEN Unheard([session EXCEPT !.pending = TRUE])
                  ELSE PostStep(live', session)
    /\ UNCHANGED <<job, loaded, starts>>

\* The optimizer of a PyTorch loop returns: its post-step hook follows, unless
\* the session registered on the Trainer's scheduler.
OptimizerReturns ==
    /\ phase = "loop" /\ live.params < MaxUpdates
    /\ live' = Update(live, TRUE)
    /\ phase' = IF job.scheduler THEN "sched" ELSE "loop"
    /\ IF session.open /\ ~HooksScheduler THEN PostStep(live', session)
       ELSE Unheard(session)
    /\ UNCHANGED <<job, loaded, starts>>

\* PyTorchFSDPResiliency._post_step and the hook of _wire_features.
FSDPStep == Integration = "fsdp" /\ OptimizerReturns
WiredStep == Integration = "wired" /\ OptimizerReturns

\* Whether the session's wrapper is still in the scheduler's step: close()
\* takes it out only if no later wrapper covers it.
SchedulerWrapped == session.open \/ job.covered

\* MegatronResiliency._wrapped_scheduler_step completes a pending step.
MegatronScheduler ==
    /\ phase = "sched" /\ Integration = "megatron"
    /\ live' = [live EXCEPT !.sched = @ + 1]
    /\ phase' = "loop"
    /\ IF SchedulerWrapped /\ session.pending
       THEN PostStep(live', [session EXCEPT !.pending = FALSE])
       ELSE Unheard(session)
    /\ UNCHANGED <<job, loaded, starts>>

\* The scheduler of a PyTorch loop: with a Trainer, the wrapper of
\* _SchedulerStepHook calls the hook after it.
NativeScheduler ==
    /\ phase = "sched" /\ Integration \in {"fsdp", "wired"}
    /\ live' = [live EXCEPT !.sched = @ + 1]
    /\ phase' = "loop"
    /\ IF HooksScheduler /\ SchedulerWrapped THEN PostStep(live', session)
       ELSE Unheard(session)
    /\ UNCHANGED <<job, loaded, starts>>

\* save_now(): a full check, and a capture at the current step if clean.
SaveNow ==
    /\ phase = "loop" /\ session.open /\ session.step > 0
    /\ Integration \in {"deepspeed", "megatron"}
    /\ ApplyResult(session.step, live, session)
    /\ UNCHANGED <<job, phase, live, loaded, starts>>

\* The framework writes a checkpoint of its own.
FrameworkSave ==
    /\ phase = "loop" /\ ~job.durable /\ live.micro = 0
    /\ own' = {Captured(live.params, live, CollectTensors(live))}
    /\ UNCHANGED <<job, phase, live, session, gemini, validated, loaded, starts>>

----------------------------------------------------------------------------
(* Recovery.                                                               *)

\* A mutant: the extra state is not applied.
RestoredTensorsOnly(c) ==
    [params |-> c.params, sched |-> 0, moments |-> c.moments, micro |-> 0]

\* A checkpoint copied into the live tensors and the extra state applied.
Restored(c) ==
    [params |-> c.params, sched |-> c.sched, moments |-> c.moments,
     micro |-> 0]

\* A mutant: the step count is left alone.
ResumeUncounted(s, step) == [s EXCEPT !.recovered = TRUE]

\* restore_step of the handle; DeepSpeed sets engine.global_steps with it.
ResumeAt(s, step) == [s EXCEPT !.step = step, !.recovered = TRUE]

\* recover_with_fallback: GEMINI, then the validated durable checkpoint and
\* nothing else when the manifest protocol is active, then the fallback.
RecoverWithFallback(s) ==
    CASE gemini # {} ->
           \E c \in gemini : /\ live' = Restored(c)
                             /\ session' = ResumeAt(s, c.step)
                             /\ loaded' = "gemini"
      [] gemini = {} /\ job.durable /\ validated # {} ->
           \E c \in validated : /\ live' = Restored(c)
                                /\ session' = ResumeAt(s, c.step)
                                /\ loaded' = "validated"
      [] gemini = {} /\ ~job.durable /\ job.fallback /\ own # {} ->
           \E c \in own : /\ live' = Restored(c)
                          /\ session' = IF c.step > 0 THEN ResumeAt(s, c.step)
                                        ELSE s
                          /\ loaded' = "own"
      [] OTHER -> live' = Fresh /\ session' = s /\ loaded' = "fresh"

\* _wire_features has the same order, but what its fallback returns is not
\* looked at: the session counts from zero.
RecoverWired(s) ==
    IF gemini = {} /\ ~job.durable /\ job.fallback /\ own # {}
    THEN \E c \in own : /\ live' = Restored(c)
                        /\ session' = s
                        /\ loaded' = "own"
    ELSE RecoverWithFallback(s)

Opened == [NoSession EXCEPT !.open = TRUE]

\* What enable_resiliency does whatever the framework: the session that is
\* Opened is registered for the exit, and the state is recovered.
Attached ==
    /\ phase = "down" /\ starts < MaxStarts
    /\ starts' = starts + 1
    /\ phase' = IF job.target = "trainer" THEN "load" ELSE "loop"
    /\ UNCHANGED <<job, stores>>

\* engine.step, or the optimizer instruction of a pipeline engine, is wrapped.
EnableDeepSpeed ==
    Integration = "deepspeed" /\ Attached /\ RecoverWithFallback(Opened)

\* optimizer.step and, if there is one, scheduler.step are wrapped.
EnableMegatron ==
    Integration = "megatron" /\ Attached /\ RecoverWithFallback(Opened)

\* The post-step hook is registered, and the shards are loaded afterwards.
EnableFSDP ==
    Integration = "fsdp" /\ Attached /\ RecoverWithFallback(Opened)

\* The state is loaded, and the hook is registered last.
EnableWired ==
    Integration = "wired" /\ Attached /\ RecoverWired(Opened)

\* A mutant: the Trainer's loader runs in any case.
AlwaysLoads == FALSE

\* The wrapped checkpointer.load of a Trainer loads nothing after a recovery.
KeepsRecovery == session.recovered

\* Trainer.train() loads its own checkpoint first.
TrainerLoad ==
    /\ phase = "load"
    /\ phase' = "loop"
    /\ IF KeepsRecovery \/ own = {}
       THEN UNCHANGED <<live, session, loaded>>
       ELSE \E c \in own : /\ live' = Restored(c)
                           /\ session' = ResumeAt(session, c.params)
                           /\ loaded' = IF own = validated THEN "validated"
                                        ELSE "own"
    /\ UNCHANGED <<job, stores, starts>>

\* try_recover() called in the middle of a run.
TryRecover ==
    /\ phase = "loop" /\ session.open /\ Integration # "wired"
    /\ gemini # {}
    /\ \E c \in gemini : /\ live' = Restored(c)
                         /\ session' = ResumeAt(session, c.step)
    /\ UNCHANGED <<job, phase, stores, loaded, starts>>

----------------------------------------------------------------------------
(* The end of a session and of a process.                                  *)

\* A mutant: the pending step survives.
ClosedPending(s) == [s EXCEPT !.open = FALSE]

\* close(): the wrappers are taken off and a pending step is forgotten.
Closed(s) == [s EXCEPT !.open = FALSE, !.pending = FALSE]

Close ==
    /\ phase \in {"loop", "sched"} /\ session.open
    /\ session' = Closed(session)
    /\ UNCHANGED <<job, phase, live, stores, loaded, starts>>

\* A normal exit closes the registered handle, a crash does not; either may
\* leave GEMINI's copies behind or lose them with the machine.
StopJob ==
    /\ phase # "down"
    /\ phase' = "down"
    /\ live' = Fresh
    /\ session' = NoSession
    /\ gemini' \in {gemini, {}}
    /\ loaded' = "fresh"
    /\ UNCHANGED <<job, own, validated, starts>>

----------------------------------------------------------------------------
SessionInit ==
    /\ job \in Jobs
    /\ phase = "down"
    /\ live = Fresh
    /\ session = NoSession
    /\ gemini = {} /\ own = {} /\ validated = {}
    /\ loaded = "fresh"
    /\ starts = 0

SessionNext ==
    \/ EnableDeepSpeed \/ EnableMegatron \/ EnableFSDP \/ EnableWired
    \/ TrainerLoad \/ TryRecover
    \/ DeepSpeedStep \/ MegatronStep \/ MegatronScheduler
    \/ FSDPStep \/ WiredStep \/ NativeScheduler
    \/ SaveNow \/ FrameworkSave
    \/ Close \/ StopJob

SessionSpec == SessionInit /\ [][SessionNext]_sessionVars

----------------------------------------------------------------------------
(***************************************************************************)
(* A checkpoint is of one step: its label counts the updates in it, and    *)
(* its scheduler is where that many updates leave it, and it holds the     *)
(* optimizer's moments, whatever was skipped, closed, saved or recovered   *)
(* before (DeepSpeed and Megatron keep the tensor list of their first      *)
(* capture; Megatron waits for the scheduler).                             *)
(***************************************************************************)
CoherentCapture ==
    \A c \in gemini \cup validated :
        /\ c.step = c.params
        /\ job.scheduler => c.sched = c.params
        /\ c.moments

(***************************************************************************)
(* Between iterations an open session's step_count is the number of        *)
(* updates in the model it watches, also after every kind of recovery.     *)
(***************************************************************************)
CountsUpdates ==
    phase = "loop" /\ session.open => session.step = live.params

(***************************************************************************)
(* A run is never behind the checkpoint that GEMINI could give it: a       *)
(* framework that loads its own checkpoint after enable_resiliency does    *)
(* not take the recovery back.                                             *)
(***************************************************************************)
NeverBehindGemini ==
    phase \in {"loop", "sched"} => \A c \in gemini : c.params <= live.params

(***************************************************************************)
(* After close() the session hears and captures nothing, even if it was    *)
(* closed between the optimizer and the scheduler and a later wrapper      *)
(* keeps its scheduler wrapper installed.                                  *)
(***************************************************************************)
ClosedIsSilent ==
    [][phase # "down" /\ ~session.open
         => gemini' \in {gemini, {}} /\ session'.step \in {session.step, 0}]_sessionVars

(***************************************************************************)
(* With a durable checkpoint configured a job resumes from GEMINI or from  *)
(* a validated checkpoint, never from one that SCOUT has not validated.    *)
(***************************************************************************)
OnlyValidatedIsLoaded == job.durable => loaded # "own"

(***************************************************************************)
(* What is restored is one step and the step it says: the checkpoints that *)
(* recovery chooses from are coherent and step_count stays the number of   *)
(* updates, in every order of captures, recoveries and closes.             *)
(***************************************************************************)
CaptureIsOfItsStep == CoherentCapture /\ CountsUpdates

(***************************************************************************)
(* A restart does not undo the recovery of enable_resiliency by the        *)
(* framework's own loading, and takes no candidate for validated.          *)
(***************************************************************************)
ResumesWhereTrusted == NeverBehindGemini /\ OnlyValidatedIsLoaded

(***************************************************************************)
(* The jobs in which a call of the hook is one update.  The others are not *)
(* wrong in the model only: DeepSpeed counts every engine.step(), a hook   *)
(* on the optimizer captures before the caller's scheduler, and what a     *)
(* fallback of the native wiring loaded is not looked at.                  *)
(***************************************************************************)
CountsEveryUpdate(j) ==
    CASE j.target \in {"engine", "pipeline"} -> j.accumulation = 1 /\ ~j.skips
      [] j.target = "chunks" -> j.skips => j.scheduler
      [] j.target = "trainer" ->
           j.scheduler /\ ~j.durable /\ (j.fallback => j.sharded)
      [] j.target = "module" ->
           ~j.scheduler /\ (j.fallback => j.sharded \/ j.durable)

\* No second store that a Trainer loads from and SCOUT does not certify.
LoadsOnlyCertified(j) == j.target = "trainer" => ~j.durable

\* close() gets the hook out of the Trainer's scheduler.
HookComesOff(j) == j.target = "trainer" => ~j.covered
=============================================================================
