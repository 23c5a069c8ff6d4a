--------------------------- MODULE HangDetection ---------------------------
(***************************************************************************)
(* Out-of-band hang detection: detection/op_tracker.py (the shared-memory  *)
(* publisher), hang_instrumentation.py and stage_instrumentation.py (who   *)
(* writes to it), hang_detector.py (the daemon beside every rank) and      *)
(* oob_service.py (its supervisor and its reports).                        *)
(*                                                                         *)
(* Training writes its progress without a lock; the daemon of a rank reads *)
(* it, and when nothing moved for the trigger threshold it enters a        *)
(* detection round, a collective of all daemons.  The snapshot is read     *)
(* before the collective, and a daemon waits in it until every peer comes: *)
(* training goes on meanwhile.                                             *)
(*                                                                         *)
(* The training loop is the environment: per step a sampled stage (data    *)
(* loading or checkpoint I/O), a layer, a collective, the step boundary.   *)
(* Any rank may stop for good, and the last one may enter the collective   *)
(* with a fingerprint that differs from its peers'.  One key stands for    *)
(* each kind of stage.  Time is counted in ticks; a daemon may be late to  *)
(* notice that its wait is over, and reads the clock again after it.       *)
(***************************************************************************)
EXTENDS Integers, FiniteSets, Consensus

CONSTANTS
  Ranks,          \* peer group of the daemons, numbered
  Stall,          \* stall_threshold_s in ticks
  StageThreshold, \* dataloader_ / checkpoint_io_latency_threshold_s by kind
  Ratio,          \* ..._min_slowdown_ratio
  Confirmations,  \* ..._confirmation_rounds
  StageKind,      \* StageKind[s]: the kind of the sampled stage of step s
  MaxElapsed,     \* bound: measured durations are cut off here
  MaxStage,       \* bound: ticks a stage of each rank may take
  MaxStep,        \* bound: last training step
  MaxOp           \* bound: operations of a step after which ranks have stopped,
                  \* by whether stages are sampled

Kinds == {"data_loading", "checkpoint_read", "checkpoint_write"}
NoStage == "none"
NoFingerprint == 0
GoodFingerprint == 1
OddFingerprint == 2
Sigma == 3        \* threshold_sigma of C3

(* The rows of a round are indexed by rank.                                *)
HangAssumption ==
  /\ 0 \in Ranks /\ Max(Ranks) \in Nat /\ Ranks = 0 .. Max(Ranks)
  /\ Stall \in Nat /\ Confirmations \in Nat /\ MaxElapsed \in Nat /\ MaxStep \in Nat
  /\ StageThreshold \in [Kinds -> Nat]
  /\ \A s \in 0 .. MaxStep : StageKind[s] \in Kinds

(* min(stall_threshold_s, dataloader_..., checkpoint_io_...).              *)
Trigger == Min({Stall} \cup {StageThreshold[k] : k \in Kinds})
IdleCap == Stall + 1
Reporter == Min(Ranks)    \* local_rank 0: only its daemon reports

VARIABLES
  tracker,   \* shared memory of each rank
  at,        \* where the training process of a rank is
  daemon,    \* daemon process of each rank, with its OOBHangService
  memory,    \* what the reporter's daemon carries from round to round
  report,    \* report given to on_hang in the last step, with its ground
  sampled,   \* whether the steps are on the detection cadence
  spent      \* history: ticks each rank spent in the stage of each step

vars == <<tracker, at, daemon, memory, report, sampled, spent>>

-----------------------------------------------------------------------------
(* OpTracker: what a call publishes.                                       *)

NewTracker ==
  [step |-> 0, op |-> 0, meta |-> NoFingerprint,
   stage |-> NoStage, seq |-> 0, elapsed |-> 0,
   doneStage |-> NoStage, doneSeq |-> 0, duration |-> 0,
   counts |-> [k \in Kinds |-> 0]]

Advance(t, fingerprint) == [t EXCEPT !.op = @ + 1, !.meta = fingerprint]

StepBoundary(t) ==
  [t EXCEPT !.step = @ + 1, !.op = 0, !.meta = NoFingerprint]

StageStarted(t, kind) ==
  [t EXCEPT !.stage = kind, !.seq = t.counts[kind] + 1, !.elapsed = 0,
            !.counts[kind] = @ + 1, !.meta = NoFingerprint, !.op = @ + 1]

StageFinished(t) ==
  [t EXCEPT !.doneStage = t.stage, !.doneSeq = t.seq, !.duration = t.elapsed,
            !.stage = NoStage, !.seq = 0, !.elapsed = 0, !.op = @ + 1]

Progress(t) == <<t.step, t.op>>

-----------------------------------------------------------------------------
(* The daemon.  "wait": on the progress event; "round": inside the         *)
(* collectives of check_once; "dead": the process is gone; "failed": and   *)
(* the supervisor reported it; "closed": terminated by close().            *)

NoProgress == <<-1, -1>>
NoStageEvent == [kind |-> NoStage, seq |-> 0, culprits |-> {}]

NewDaemon == [pc |-> "wait", last |-> <<0, 0>>, idle |-> 0, snap |-> NewTracker]
GoneDaemon(pc) == [NewDaemon EXCEPT !.pc = pc]

(* Only the reporter's stall decides a report, and every daemon derives    *)
(* the same candidate and confirmations from the same rows, so this state  *)
(* is kept once.                                                           *)
NewMemory ==
  [stalled |-> 0, reported |-> NoProgress, candidate |-> NoStageEvent,
   confirmations |-> 0, reportedStage |-> NoStageEvent]

NoReport == [kind |-> "none", failed |-> {}, progress |-> NoProgress,
             stage |-> NoStageEvent]

Init ==
  /\ tracker = [r \in Ranks |-> NewTracker]
  /\ at = [r \in Ranks |-> "run"]
  /\ daemon = [r \in Ranks |-> NewDaemon]
  /\ memory = NewMemory
  /\ report = NoReport
  /\ sampled \in BOOLEAN
  /\ spent = [r \in Ranks |-> [s \in 0..MaxStep |-> 0]]

(* _observe_stall, and the first observation of start().                   *)
Changed(d, t) == daemon[d].last # Progress(t)
(* A slip: every observation restarts the stall clock.                     *)
Restart(d, t) == [daemon[d] EXCEPT !.last = Progress(t), !.idle = 0]
Observe(d, t) ==
  IF Changed(d, t) THEN [daemon[d] EXCEPT !.last = Progress(t), !.idle = 0]
  ELSE daemon[d]
Forget(d, t) ==
  IF d = Reporter /\ Changed(d, t) THEN [memory EXCEPT !.reported = NoProgress]
  ELSE memory

Gone == {d \in Ranks : daemon[d].pc \in {"dead", "failed", "closed"}}

(* What is left of the reporter's memory when the daemons ds are gone.     *)
MemoryWithout(ds) == IF Reporter \in ds THEN NewMemory ELSE memory

(* check_once up to the first collective, on the snapshot t.  With a peer  *)
(* gone the collective fails at once and the process dies of it.           *)
EnterRound(d, t) ==
  IF Gone # {}
  THEN /\ daemon' = [daemon EXCEPT ![d] = GoneDaemon("dead")]
       /\ memory' = MemoryWithout({d})
  ELSE /\ daemon' = [daemon EXCEPT ![d].pc = "round", ![d].snap = t]
       /\ memory' = IF d # Reporter THEN memory
                    ELSE [memory EXCEPT !.stalled = IF Changed(d, t) THEN 0
                                                    ELSE daemon[d].idle]

-----------------------------------------------------------------------------
(* The training process of rank r and its hooks.                           *)

(* _write sets the progress event: a waiting daemon wakes and observes the *)
(* change at once; one that is in a round reads it when it is back; and a  *)
(* write may fall between the two reads of a daemon that is entering one   *)
(* (_observe_stall saw no change, the snapshot of check_once has it).      *)
Publish(r, t) ==
  /\ tracker' = [tracker EXCEPT ![r] = t]
  /\ \/ /\ daemon[r].pc = "wait"
        /\ daemon' = [daemon EXCEPT ![r] = Observe(r, t)]
        /\ memory' = Forget(r, t)
     \/ /\ daemon[r].pc = "wait" /\ daemon[r].idle >= Trigger
        /\ EnterRound(r, t)
     \/ /\ daemon[r].pc # "wait"
        /\ UNCHANGED <<daemon, memory>>
  /\ report' = NoReport
  /\ UNCHANGED <<sampled, spent>>

BeginStage(r) ==
  /\ at[r] = "run" /\ tracker[r].step <= MaxStep
  /\ sampled
  /\ at' = [at EXCEPT ![r] = "stage"]
  /\ Publish(r, StageStarted(tracker[r], StageKind[tracker[r].step]))

EndStage(r) ==
  /\ at[r] = "stage"
  /\ at' = [at EXCEPT ![r] = "layer"]
  /\ Publish(r, StageFinished(tracker[r]))

LayerBoundary(r) ==
  /\ tracker[r].op < MaxOp[sampled]
  /\ \/ at[r] = "layer"
     \/ /\ at[r] = "run" /\ tracker[r].step <= MaxStep
        /\ ~sampled
  /\ at' = [at EXCEPT ![r] = "enter"]
  /\ Publish(r, Advance(tracker[r], NoFingerprint))

EnterCollective(r) ==
  /\ at[r] = "enter"
  /\ at' = [at EXCEPT ![r] = "collective"]
  /\ \E fingerprint \in {GoodFingerprint, OddFingerprint} :
       /\ fingerprint = OddFingerprint => r = Max(Ranks) /\ tracker[r].step = MaxStep
       /\ Publish(r, Advance(tracker[r], fingerprint))

(* The collective returns once every rank entered it with the same call.   *)
ExitCollective(r) ==
  /\ at[r] = "collective"
  /\ \A q \in Ranks :
       \/ tracker[q].step > tracker[r].step
       \/ tracker[q].step = tracker[r].step /\ at[q] = "boundary"
       \/ /\ tracker[q].step = tracker[r].step /\ at[q] = "collective"
          /\ tracker[q].meta = tracker[r].meta
  /\ at' = [at EXCEPT ![r] = "boundary"]
  /\ Publish(r, Advance(tracker[r], NoFingerprint))

(* ensure_healthy: the supervisor noticed, or the process is gone.         *)
Unhealthy(r) == daemon[r].pc \in {"dead", "failed"}

StepDone(r) ==
  /\ at[r] = "boundary" /\ ~Unhealthy(r)
  /\ at' = [at EXCEPT ![r] = "run"]
  /\ Publish(r, StepBoundary(tracker[r]))

StepFails(r) ==
  /\ at[r] = "boundary" /\ Unhealthy(r)
  /\ at' = [at EXCEPT ![r] = "failed"]
  /\ report' = NoReport
  /\ UNCHANGED <<tracker, daemon, memory, sampled, spent>>

(* OOBHangService.close at the end of training: the child is terminated.   *)
Close(r) ==
  /\ at[r] = "run" /\ tracker[r].step > MaxStep
  /\ at' = [at EXCEPT ![r] = "closed"]
  /\ daemon' = [daemon EXCEPT ![r] = GoneDaemon("closed")]
  /\ memory' = MemoryWithout({r})
  /\ report' = NoReport
  /\ UNCHANGED <<tracker, sampled, spent>>

-----------------------------------------------------------------------------
(* The daemon loop.                                                        *)

(* The wait times out and nothing moved for the trigger threshold.         *)
TimedOut(d) ==
  /\ daemon[d].pc = "wait" /\ daemon[d].idle >= Trigger
  /\ EnterRound(d, tracker[d])
  /\ report' = NoReport
  /\ UNCHANGED <<tracker, at, sampled, spent>>

(* The gathered rows of a round.                                           *)
Row(r) == daemon[r].snap
ProgressRows == [r \in Ranks |-> Progress(Row(r))]
MetaRows == [r \in Ranks |-> Row(r).meta]

(* Ranks outside the majority in progress or, when progress is equal, in   *)
(* the metadata of the pending collective.                                 *)
Culprits ==
  IF Cardinality(Values(ProgressRows)) > 1 THEN ClassifyExact(ProgressRows).bitmap
  ELSE ClassifyExact(MetaRows).bitmap

(* _compare_stage_latency: the longest active stage of any row, and how    *)
(* long every rank was (or is) in that same occurrence of it.              *)
StageCandidates == {r \in Ranks : Row(r).stage # NoStage /\ Row(r).elapsed > 0}

LongestStage ==
  CHOOSE r \in StageCandidates :
    \A q \in StageCandidates :
      \/ Row(q).elapsed < Row(r).elapsed
      \/ Row(q).elapsed = Row(r).elapsed /\ q <= r

MatchingDuration(r, kind, seq) ==
  IF Row(r).stage = kind /\ Row(r).seq = seq THEN Row(r).elapsed
  ELSE IF Row(r).doneStage = kind /\ Row(r).doneSeq = seq THEN Row(r).duration
  ELSE 0

StageVerdict ==
  IF StageCandidates = {} THEN NoStageEvent
  ELSE LET longest == Row(LongestStage)
           value == [r \in Ranks |-> MatchingDuration(r, longest.stage, longest.seq)]
           flagged == ClassifyStatistical(value, Sigma).bitmap
       IN  [kind |-> longest.stage, seq |-> longest.seq,
            culprits |-> {r \in flagged : /\ value[r] > StageThreshold[longest.stage]
                                          /\ 2 * value[r] > Ratio * TwoMedian(value)}]

(* _active_stage_for_culprits, _common_active_stage.                       *)
SoleStage(rs) ==
  LET stages == {Row(r).stage : r \in rs}
  IN  IF Cardinality(stages) = 1 THEN CHOOSE s \in stages : TRUE ELSE NoStage

AssociatedStage(verdict) ==
  IF Culprits # {} THEN SoleStage(Culprits)
  ELSE IF verdict.culprits # {} THEN verdict.kind
  ELSE SoleStage(Ranks)

(* The rest of one iteration of run: confirm, decide what to report.       *)
Confirmed(verdict) ==
  IF verdict.culprits = {} THEN 0
  ELSE IF verdict = memory.candidate THEN Min({memory.confirmations + 1, Confirmations})
  ELSE 1

IsHang == memory.stalled > Stall
ReportsHang == IsHang /\ Progress(Row(Reporter)) # memory.reported
(* A slip: a stage is reported without waiting for the confirmations.      *)
ReportsAtOnce(verdict) ==
  verdict.culprits # {} /\ verdict # memory.reportedStage /\ ~IsHang
ReportsStage(verdict) ==
  /\ verdict.culprits # {}
  /\ Confirmed(verdict) >= Confirmations
  /\ verdict # memory.reportedStage
  /\ ~IsHang

(* on_hang of the reporter, the payload built in _daemon_main.             *)
ReportKind(verdict) ==
  LET stage == AssociatedStage(verdict)
  IN  IF stage # NoStage /\ verdict.kind \in {"checkpoint_read", "checkpoint_write"}
      THEN "checkpoint_stall"
      ELSE IF stage = "data_loading" THEN "data_stall" ELSE "hang"

FailedRanks(verdict) ==
  IF IsHang /\ Culprits # {} THEN Culprits
  ELSE IF verdict.culprits # {} THEN verdict.culprits
  ELSE IF Culprits # {} THEN Culprits ELSE Ranks

NewReport(verdict) ==
  IF ReportsHang \/ ReportsStage(verdict)
  THEN [kind |-> ReportKind(verdict), failed |-> FailedRanks(verdict),
        progress |-> IF ReportsHang THEN Progress(Row(Reporter)) ELSE NoProgress,
        stage |-> IF ReportsStage(verdict) THEN verdict ELSE NoStageEvent]
  ELSE NoReport

AfterRound(verdict) ==
  [stalled |-> 0,
   reported |-> IF Changed(Reporter, tracker[Reporter]) THEN NoProgress
                ELSE IF ReportsHang THEN Progress(Row(Reporter)) ELSE memory.reported,
   candidate |-> IF verdict.culprits = {} THEN NoStageEvent ELSE verdict,
   confirmations |-> Confirmed(verdict),
   reportedStage |-> IF ReportsStage(verdict) THEN verdict ELSE memory.reportedStage]

(* All daemons meet: the collectives of check_once, then every daemon ends *)
(* its iteration and observes what happened meanwhile.  The clock is read  *)
(* again inside the round, so the elapsed time of a stage is counted from  *)
(* the start the snapshot shows to now (AgeStage in Tick).                 *)
Met == \A d \in Ranks : daemon[d].pc = "round"

Round ==
  /\ Met
  /\ \E verdict \in {StageVerdict} :
       report' = NewReport(verdict) /\ memory' = AfterRound(verdict)
  /\ daemon' = [d \in Ranks |-> [Observe(d, tracker[d]) EXCEPT !.pc = "wait",
                                                            !.snap = NewTracker]]
  /\ UNCHANGED <<tracker, at, sampled, spent>>

(* The Gloo group gives a collective rendezvous_timeout_s, and fails it    *)
(* when a peer is gone: every daemon that waits in the round dies.         *)
RoundFails ==
  LET inside == {d \in Ranks : daemon[d].pc = "round"}
  IN  /\ inside # {} /\ inside # Ranks
      /\ daemon' = [d \in Ranks |-> IF d \in inside THEN GoneDaemon("dead") ELSE daemon[d]]
      /\ memory' = MemoryWithout(inside)
      /\ report' = NoReport
      /\ UNCHANGED <<tracker, at, sampled, spent>>

(* _supervise_child: unless the service is closing, the death is a report. *)
Supervise(r) ==
  /\ daemon[r].pc = "dead"
  /\ daemon' = [daemon EXCEPT ![r].pc = "failed"]
  /\ report' = [NoReport EXCEPT !.kind = "oob_daemon_failure", !.failed = {r}]
  /\ UNCHANGED <<tracker, at, memory, sampled, spent>>

Older(n, cap) == IF n < cap THEN n + 1 ELSE n

AgeStage(t) ==
  IF t.stage = NoStage THEN t ELSE [t EXCEPT !.elapsed = Older(@, MaxElapsed)]

Tick ==
  /\ \A r \in Ranks : at[r] = "stage" => \/ tracker[r].elapsed < MaxStage[r]
                                        \/ MaxStage[r] = MaxElapsed
  /\ tracker' = [r \in Ranks |-> AgeStage(tracker[r])]
  /\ daemon' = [d \in Ranks |->
       IF d \in Gone THEN daemon[d]
       ELSE [daemon[d] EXCEPT !.idle = Older(@, IdleCap), !.snap = AgeStage(@)]]
  /\ spent' = [r \in Ranks |-> [s \in 0..MaxStep |->
                 IF at[r] = "stage" /\ s = tracker[r].step
                 THEN AgeStage(tracker[r]).elapsed ELSE spent[r][s]]]
  /\ report' = NoReport
  /\ UNCHANGED <<at, memory, sampled>>

TrainStep(r) ==
  \/ BeginStage(r) \/ EndStage(r) \/ LayerBoundary(r) \/ EnterCollective(r)
  \/ ExitCollective(r) \/ StepDone(r) \/ StepFails(r) \/ Close(r)

DaemonStep(d) == TimedOut(d) \/ Supervise(d)

Next ==
  \/ \E r \in Ranks : TrainStep(r) \/ DaemonStep(r)
  \/ Round \/ RoundFails
  \/ Tick

(* Daemons, supervisors and the clock run on, and a collective fails when  *)
(* its timeout is over; training may stop anywhere, except that a stage    *)
(* bounded by MaxStage ends.                                               *)
Spec ==
  /\ Init /\ [][Next]_vars
  /\ \A r \in {q \in Ranks : MaxStage[q] < MaxElapsed} : WF_vars(EndStage(r))
  /\ \A r \in Ranks : WF_vars(DaemonStep(r))
  /\ WF_vars(RoundFails) /\ WF_vars(Tick)
  /\ []<>~Met      \* weak fairness of Round: only Round leaves Met

-----------------------------------------------------------------------------
(* A rank named in a data-loading or checkpoint I/O report really spent    *)
(* more than the threshold in that occurrence of the stage, although the   *)
(* elapsed time of a round is measured on a snapshot that may be old: this *)
(* is what the confirmation rounds are for (run, stage_confirmations).     *)
StageCulpritIsSlow ==
  \A r \in report.stage.culprits :
    \E s \in 0..MaxStep :
      /\ StageKind[s] = report.stage.kind
      /\ spent[r][s] > StageThreshold[report.stage.kind]

(* When training stops for good, wherever every rank is, the reporter      *)
(* reports a hang at the progress it is stuck at, unless its daemon was    *)
(* lost (a report of its own) or closed.                                   *)
Reported ==
  \/ daemon[Reporter].pc \in {"failed", "closed"}
  \/ memory.reported = Progress(tracker[Reporter])
=============================================================================
