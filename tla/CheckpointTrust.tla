-------------------------- MODULE CheckpointTrust ---------------------------
(***************************************************************************)
(* How a checkpoint comes to be trusted: the certification of GEMINI and   *)
(* durable checkpoints by rotating SCOUT replays                           *)
(* (integrations/_checkpoint_certification.py), the trust roles in the     *)
(* GEMINI status (InMemoryCheckpointManager._persist_boundary and its      *)
(* neighbours, checkpointing/manager.py), the manifests of the durable     *)
(* checkpoints (checkpointing/durable.py) and the replay schedule          *)
(* (detection/replay_shapes.py).                                           *)
(*                                                                         *)
(* The ranks take every decision here together, after a reduction of what  *)
(* each of them saw, so the job is modelled as one; RecoverySelect has the *)
(* ranks apart.  Steps count detection intervals.                          *)
(*                                                                         *)
(* Corruption.  docs/gemini.md states the assumption under which trust is  *)
(* meant to hold: unsafe state stays observable at the validation          *)
(* boundary.  Here the live state may become tainted in any training step, *)
(* the taint stays in everything computed or saved from it, and exactly    *)
(* the replay of one shape of the catalog reveals it.                      *)
(*                                                                         *)
(* Files.  A handler decides once, in memory, and then changes files one   *)
(* by one; each change is atomic (temporary file and rename).  The changes *)
(* still to be made are the sequence todo, and the job may be killed, or   *)
(* terminated with a flush of its memory, between any two of them.         *)
(***************************************************************************)
EXTENDS Integers, Sequences, FiniteSetsExt

CONSTANTS
    Catalogs,       \* the set-ups: [size, dense, durable]
    MaxStep,        \* bound on training steps
    MaxEpoch,       \* bound on durable candidates
    MaxStops        \* bound on how often the job stops

(* A plan has a shape, and the plan of a dense catalog just the one that   *)
(* was captured (ReplayShapePlan).                                         *)
ASSUME TrustAssumption ==
    /\ MaxStep \in Nat /\ MaxEpoch \in Nat
    /\ \A c \in Catalogs :
          /\ c.size \in Nat \ {0}
          /\ c.dense \in BOOLEAN /\ c.durable \in BOOLEAN
          /\ c.dense => c.size = 1

VARIABLES
    catalog,        \* the set-up of this job
    up,             \* whether the job runs
    step, pos,      \* training step, position of ReplayShapeScheduler
    taint,          \* the shape whose replay reveals corruption, or Clean
    mem,            \* the captures in GEMINI's own slots
    dur,            \* DurableCheckpointCoordinator._pending, or NoCandidate
    epoch,          \* DurableCheckpointCoordinator._next_epoch
    todo,           \* file changes the current handler still has to make
    files,          \* files[s]: the persisted shards of step s, or NoFile
    status,         \* the persisted CheckpointStatus
    records,        \* records[i]: status in the record of durable candidate i
    artifact,       \* artifact[i]: what the framework saved for it
    pendingFile,    \* the candidate the pending manifest names, or 0
    latestFile,     \* the candidate LATEST_SCOUT_VALIDATED names, or 0
    stops           \* how often the job has stopped

volatile == <<up, step, pos, taint, mem, dur, epoch, todo>>
gemini == <<files, status>>
durable == <<records, artifact, pendingFile, latestFile>>
vars == <<catalog, volatile, gemini, durable, stops>>

Steps == 1 .. MaxStep
Epochs == 1 .. MaxEpoch
NoStep == -1
Clean == -1
NoFile == [taint |-> Clean, pos |-> -1]
NoCandidate == [id |-> 0, first |-> 0, checked |-> 0]
NoArtifact == [step |-> 0, taint |-> Clean]

Size == catalog.size
Shapes == 0 .. Size - 1

(***************************************************************************)
(* File changes, and the sequences of them that make up an operation.      *)
(***************************************************************************)
Record(id, st)    == [do |-> "record", id |-> id, status |-> st]
Pending(id)       == [do |-> "pending", id |-> id]
Latest(id)        == [do |-> "latest", id |-> id]
Unlink            == [do |-> "unlink"]
SaveCandidate(id) == [do |-> "candidate", id |-> id]
SaveShards        == [do |-> "shards"]
Promote           == [do |-> "promote"]
RejectStatus      == [do |-> "reject"]
ClearStatus       == [do |-> "clear"]
SetMode(m)        == [do |-> "mode", mode |-> m]
Load(m)           == [do |-> "load", mode |-> m]
Raise             == [do |-> "raise"]

\* _DurableManifestStore.write_pending, commit and reject
WritePending(id, st) == <<Record(id, st), Pending(id)>>

Commit(id) == <<Record(id, "recovery_verified"), Latest(id), Unlink>>

RejectRecord(id) == <<Record(id, "rejected"), Unlink>>

\* DurableCheckpointCoordinator.reject: nothing to do without a candidate.
RejectDurable(d) == IF d = NoCandidate THEN <<>> ELSE RejectRecord(d.id)

\* Mutant: the GEMINI candidate survives the rejection of the durable one.
RejectDurableAlone(d) == IF d = NoCandidate THEN <<RejectStatus>> ELSE RejectDurable(d)

\* CheckpointCertificationCoordinator._reject_candidate
Reject(d) == RejectDurable(d) \o <<RejectStatus>>

\* begin_candidate, with the framework's save failing on some rank or not.
BeginCandidate(id, saved) ==
    WritePending(id, "writing") \o
        IF saved THEN <<SaveCandidate(id)>> \o WritePending(id, "candidate")
        ELSE RejectRecord(id) \o <<ClearStatus, Raise>>

(***************************************************************************)
(* A replay, as the ranks see it once they have pooled their results:      *)
(* how many shapes were checked, from which position, whether any rank     *)
(* found SDC, and whether that completes a scheduled cycle.  Inconclusive  *)
(* evidence counts as SDC (replay_result_has_sdc) and leaves the schedule  *)
(* where it is.                                                            *)
(***************************************************************************)
Inconclusive == [checked |-> 0, sdc |-> TRUE, cycle |-> FALSE]

\* _check_current_shape: the schedule advances whatever the verdict.
OneShape(t) == [checked |-> 1, sdc |-> t = pos, cycle |-> pos = Size - 1]

\* check_shape_cycle: every shape from the current one on, up to the first
\* that reveals corruption.  save_now counts a full sweep as a cycle.
Distance(t) == (t - pos + Size) % Size
Sweep(t) == IF t = Clean THEN [checked |-> Size, sdc |-> FALSE, cycle |-> TRUE]
            ELSE [checked |-> Distance(t) + 1, sdc |-> TRUE, cycle |-> FALSE]

\* ReplayShapeScheduler.advance, once per checked shape.
Advanced(n) == (pos + n) % Size

(***************************************************************************)
(* apply_result.                                                           *)
(***************************************************************************)
\* observe: does the evidence continue the candidate's validation plan?
Continues(d, result) ==
    /\ d.checked + result.checked <= Size
    /\ (d.first + d.checked) % Size = pos

\* What the result makes of the pending durable candidate.
Event(result) ==
    IF dur = NoCandidate THEN "none"
    ELSE IF ~Continues(dur, result) THEN "rejected"
    ELSE IF dur.checked + result.checked = Size THEN "committed"
    ELSE "progress"

Observe(result) ==
    CASE Event(result) = "none"      -> <<>>
      [] Event(result) = "rejected"  -> Reject(dur)
      [] Event(result) = "committed" -> Commit(dur.id)
      [] Event(result) = "progress"  -> WritePending(dur.id, "candidate")

\* The boundary of a cycle: the shards go to disk and the roles advance; then
\* the next durable candidate is started, and in a dense catalog committed
\* on the same evidence.  Replication or the framework's save may fail.
Boundary(replicated, saved) ==
    IF ~replicated THEN <<Raise>>
    ELSE <<SaveShards, Promote>> \o
         IF ~catalog.durable THEN <<>>
         ELSE BeginCandidate(epoch, saved) \o
              IF saved /\ catalog.dense THEN Commit(epoch) ELSE <<>>

\* A durable candidate that outlives the cycle is rejected at its end.
Unfinished(result) == result.cycle /\ Event(result) = "progress"

ReachesBoundary(result) ==
    ~result.sdc /\ result.cycle /\ Event(result) \in {"none", "committed"}

ApplyResult(result, replicated, saved) ==
    IF result.sdc THEN Reject(dur)
    ELSE Observe(result) \o
         IF Unfinished(result) THEN Reject(dur)
         ELSE IF ReachesBoundary(result) THEN Boundary(replicated, saved)
         ELSE <<>>

\* DurableCheckpointCoordinator._pending after it.  A dense candidate commits
\* at once; one that could not be saved is not kept.
PendingAfter(result, replicated, saved) ==
    IF ReachesBoundary(result)
    THEN IF replicated /\ saved /\ catalog.durable /\ ~catalog.dense
         THEN [id |-> epoch, first |-> Advanced(result.checked), checked |-> 0]
         ELSE NoCandidate
    ELSE IF ~result.sdc /\ Event(result) = "progress" /\ ~result.cycle
         THEN [dur EXCEPT !.checked = @ + result.checked]
    ELSE NoCandidate

\* The capture comes before anything is written, and only without SDC.
\* GEMINI keeps the newest capture and the one before it.
Captured(result, s, t) ==
    IF result.sdc THEN mem
    ELSE {[step |-> s, taint |-> t, pos |-> Advanced(result.checked)]}
            \cup {c \in mem : c.step = Max({d.step : d \in mem})}

Apply(result, s, t) ==
    /\ ReachesBoundary(result) /\ catalog.durable => epoch \in Epochs
    /\ \E replicated, saved \in BOOLEAN :
          /\ ReachesBoundary(result) \/ (replicated /\ saved)
          /\ catalog.durable \/ saved
          /\ todo' = ApplyResult(result, replicated, saved)
          /\ dur' = PendingAfter(result, replicated, saved)
          /\ epoch' = IF ReachesBoundary(result) /\ replicated /\ saved /\ catalog.durable
                      THEN epoch + 1 ELSE epoch
    /\ mem' = Captured(result, s, t)
    /\ pos' = Advanced(result.checked)

(***************************************************************************)
(* What the running job does.                                              *)
(***************************************************************************)
Idle == up /\ todo = <<>>

\* A training step may corrupt the state; nothing in it heals.
Trained == IF taint = Clean THEN {Clean} \cup Shapes ELSE {taint}

\* post_step, with a replay that ran, that was inconclusive, or (in a dense
\* catalog) that had no current evidence and returned nothing on some rank.
PostStep ==
    /\ Idle
    /\ step < MaxStep
    /\ step' = step + 1
    /\ taint' \in Trained
    /\ \E result \in {OneShape(taint'), Inconclusive} : Apply(result, step', taint')
    /\ UNCHANGED <<catalog, up, gemini, durable, stops>>

PostStepWithoutResult ==
    /\ Idle
    /\ catalog.dense
    /\ step < MaxStep
    /\ step' = step + 1
    /\ taint' \in Trained
    /\ UNCHANGED <<catalog, up, pos, mem, dur, epoch, todo, gemini, durable, stops>>

\* save_now: a full sweep at the current step, captured by force.
SaveNow ==
    /\ Idle
    /\ step \in Steps
    /\ Apply(Sweep(taint), step, taint)
    /\ UNCHANGED <<catalog, up, step, taint, gemini, durable, stops>>

\* prepare_recovery: a straggler keeps the latest state, anything unsafe asks
\* for the verified one, and other failures are decided by an emergency sweep
\* that leaves the schedule as it was.
ModeFor(failure) ==
    IF failure = "straggler" \/ (failure = "other" /\ taint = Clean)
    THEN "latest" ELSE "recovery_verified"

PrepareRecovery(failure) ==
    /\ Idle
    /\ IF ModeFor(failure) = "recovery_verified"
       THEN todo' = Reject(dur) /\ dur' = NoCandidate
       ELSE todo' = <<SetMode("latest")>> /\ UNCHANGED dur
    /\ UNCHANGED <<catalog, up, step, pos, taint, mem, epoch, gemini, durable, stops>>

(***************************************************************************)
(* One file change.                                                        *)
(***************************************************************************)
Head1 == Head(todo)
Does(what) == up /\ todo # <<>> /\ Head1.do = what /\ todo' = Tail(todo)
LiveUnchanged == UNCHANGED <<up, step, pos, taint, mem, dur, epoch>>

\* The framework quarantines the bytes of a candidate whose record it learns
\* is rejected.
WriteManifest ==
    /\ \/ /\ Does("record")
          /\ records' = [records EXCEPT ![Head1.id] = Head1.status]
          /\ artifact' = IF Head1.status = "rejected"
                         THEN [artifact EXCEPT ![Head1.id] = NoArtifact] ELSE artifact
          /\ UNCHANGED <<pendingFile, latestFile>>
       \/ /\ Does("pending")
          /\ pendingFile' = Head1.id
          /\ UNCHANGED <<records, artifact, latestFile>>
       \/ /\ Does("latest")
          /\ latestFile' = Head1.id
          /\ UNCHANGED <<records, artifact, pendingFile>>
       \/ /\ Does("unlink")
          /\ pendingFile' = 0
          /\ UNCHANGED <<records, artifact, latestFile>>
       \/ /\ Does("candidate")
          /\ artifact' = [artifact EXCEPT ![Head1.id] = [step |-> step, taint |-> taint]]
          /\ UNCHANGED <<records, pendingFile, latestFile>>
    /\ LiveUnchanged
    /\ UNCHANGED <<catalog, gemini, stops>>

\* _persist_boundary first writes the shards of the boundary step.
WriteShards ==
    /\ Does("shards")
    /\ files' = [files EXCEPT ![step] = [taint |-> taint, pos |-> pos]]
    /\ LiveUnchanged
    /\ UNCHANGED <<catalog, status, durable, stops>>

WithVerified(st, v) ==
    [st EXCEPT !.verified = v,
               !.history = IF v = NoStep THEN @ ELSE @ \cup {v}]

\* Mutant: the boundary itself is trusted, without a further cycle.
PromotedAtOnce ==
    [WithVerified(status, step) EXCEPT
        !.candidate = IF catalog.dense THEN NoStep ELSE step, !.mode = "latest"]

\* _persist_boundary then advances the roles: the previous candidate becomes
\* verified and the boundary the candidate, or in a dense catalog verified.
Promoted ==
    [WithVerified(status, IF catalog.dense THEN step
                          ELSE IF status.candidate # NoStep THEN status.candidate
                          ELSE status.verified)
        EXCEPT !.candidate = IF catalog.dense THEN NoStep ELSE step,
               !.mode = "latest"]

\* set_recovery_mode
WithMode(m) ==
    [status EXCEPT !.mode = m,
                   !.candidate = IF m = "recovery_verified" THEN NoStep ELSE @]

Cleared == [status EXCEPT !.candidate = NoStep]

WriteStatus ==
    /\ \/ Does("promote") /\ status' = Promoted
       \/ Does("reject") /\ status' = WithMode("recovery_verified")
       \/ Does("clear") /\ status' = Cleared
       \/ Does("mode") /\ status' = WithMode(Head1.mode)
    /\ LiveUnchanged
    /\ UNCHANGED <<catalog, files, durable, stops>>

(***************************************************************************)
(* Stopping and starting again.                                            *)
(***************************************************************************)
\* With the process goes everything it kept in memory.
Stop ==
    /\ up
    /\ stops < MaxStops
    /\ stops' = stops + 1
    /\ up' = FALSE
    /\ step' = 0 /\ pos' = 0 /\ taint' = Clean
    /\ mem' = {} /\ dur' = NoCandidate /\ epoch' = 1 /\ todo' = <<>>
    /\ UNCHANGED <<catalog, status, durable>>

\* Killed, or gone without a flush.
Crash == Stop /\ UNCHANGED files

\* SIGTERM or an orderly exit: flush_for_restart writes every capture.
Terminate ==
    /\ Stop
    /\ files' = [s \in Steps |->
                    IF \E c \in mem : c.step = s
                    THEN LET c == CHOOSE d \in mem : d.step = s
                         IN  [taint |-> c.taint, pos |-> c.pos]
                    ELSE files[s]]

\* Mutant: a candidate that was pending is always rejected.
StaleAlwaysRejected ==
    IF pendingFile = 0 THEN <<>> ELSE RejectRecord(pendingFile)

\* DurableCheckpointCoordinator.__init__: a stale candidate is rejected,
\* unless the crash came after it was committed.
Stale ==
    IF pendingFile = 0 THEN <<>>
    ELSE IF pendingFile = latestFile /\ records[latestFile] = "recovery_verified"
         THEN <<Unlink>>
    ELSE RejectRecord(pendingFile)

\* The job comes up again: the durable coordinator first, then the load, then
\* the certification coordinator, which drops a GEMINI candidate that has no
\* durable counterpart.
Restart(mode) ==
    /\ ~up
    /\ up' = TRUE
    /\ todo' = (IF catalog.durable THEN Stale ELSE <<>>) \o <<Load(mode)>>
                  \o (IF catalog.durable THEN <<ClearStatus>> ELSE <<>>)
    /\ UNCHANGED <<catalog, step, pos, taint, mem, dur, epoch, gemini, durable, stops>>

\* next_validation_epoch
NextEpoch == Max({0} \cup {i \in Epochs : records[i] # "none"}) + 1

OnDisk == {s \in Steps : files[s] # NoFile}

\* The step load() finds for a mode; the memory of the old process is gone.
Found(mode) ==
    IF mode = "latest" THEN Max({NoStep} \cup OnDisk)
    ELSE Max({NoStep} \cup (OnDisk \cap {status.verified}))

\* The load: from GEMINI's files; else the durable checkpoint, which does not
\* carry the replay position; else from the beginning.
LoadState ==
    /\ Does("load")
    /\ LET mode == IF Head1.mode = "status" THEN status.mode ELSE Head1.mode
           s == Found(mode)
       IN  /\ status' = WithMode(mode)
           /\ \/ /\ s # NoStep
                 /\ step' = s /\ taint' = files[s].taint /\ pos' = files[s].pos
              \/ /\ s = NoStep /\ latestFile # 0
                 /\ step' = artifact[latestFile].step
                 /\ taint' = artifact[latestFile].taint /\ pos' = 0
              \/ /\ s = NoStep /\ latestFile = 0
                 /\ step' = 0 /\ taint' = Clean /\ pos' = 0
    /\ epoch' = NextEpoch
    /\ UNCHANGED <<catalog, up, mem, dur, files, durable, stops>>

Init ==
    /\ catalog \in Catalogs
    /\ up = TRUE
    /\ step = 0 /\ pos = 0 /\ taint = Clean
    /\ mem = {} /\ dur = NoCandidate /\ epoch = 1 /\ todo = <<>>
    /\ files = [s \in Steps |-> NoFile]
    /\ status = [candidate |-> NoStep, verified |-> NoStep, history |-> {}, mode |-> "latest"]
    /\ records = [i \in Epochs |-> "none"]
    /\ artifact = [i \in Epochs |-> NoArtifact]
    /\ pendingFile = 0 /\ latestFile = 0
    /\ stops = 0

Next ==
    \/ PostStep
    \/ PostStepWithoutResult
    \/ SaveNow
    \/ \E failure \in {"unsafe", "straggler", "other"} : PrepareRecovery(failure)
    \/ WriteManifest
    \/ WriteShards
    \/ WriteStatus
    \/ LoadState
    \/ Crash
    \/ Terminate
    \/ \E mode \in {"status", "latest", "recovery_verified"} : Restart(mode)

Spec == Init /\ [][Next]_vars

(***************************************************************************)
(* Properties.                                                             *)
(***************************************************************************)
Operations == {"record", "pending", "latest", "unlink", "candidate", "shards",
               "promote", "reject", "clear", "mode", "load", "raise"}

TypeOK ==
    /\ catalog \in Catalogs
    /\ up \in BOOLEAN
    /\ step \in 0 .. MaxStep
    /\ pos \in Shapes
    /\ taint \in Shapes \cup {Clean}
    /\ \A c \in mem : c.step \in Steps /\ c.taint \in Shapes \cup {Clean} /\ c.pos \in Shapes
    /\ dur.id \in Epochs \cup {0} /\ dur.first \in Shapes /\ dur.checked \in Shapes
    /\ epoch \in 1 .. MaxEpoch + 1
    /\ \A i \in DOMAIN todo : todo[i].do \in Operations
    /\ \A s \in Steps : files[s] = NoFile \/ files[s].pos \in Shapes
    /\ status.candidate \in Steps \cup {NoStep}
    /\ status.verified \in Steps \cup {NoStep}
    /\ status.history \subseteq Steps
    /\ status.mode \in {"latest", "recovery_verified"}
    /\ records \in [Epochs -> {"none", "writing", "candidate", "recovery_verified", "rejected"}]
    /\ pendingFile \in Epochs \cup {0} /\ latestFile \in Epochs \cup {0}

\* Every generation that the GEMINI status calls verified, the current one and
\* those of its history, has its shards on disk, and they are free of the
\* corruption that the whole catalog could have revealed.
VerifiedIsClean ==
    \A s \in status.history \cup ({status.verified} \ {NoStep}) :
        files[s] # NoFile /\ files[s].taint = Clean

\* LATEST_SCOUT_VALIDATED only ever names a candidate whose record says it is
\* verified, whose bytes the framework has written and whose state is
\* clean, whatever crash interrupted its commit or the rejection of another.
LatestIsValidated ==
    latestFile # 0 =>
        /\ records[latestFile] = "recovery_verified"
        /\ artifact[latestFile] # NoArtifact
        /\ artifact[latestFile].taint = Clean

\* Between two handlers the two tiers validate the same generation: there is a
\* durable candidate exactly when there is a GEMINI candidate.
RolesMoveTogether ==
    Idle /\ catalog.durable =>
        /\ dur # NoCandidate <=> status.candidate # NoStep
        /\ dur # NoCandidate => artifact[dur.id].step = status.candidate
        /\ pendingFile = dur.id
=============================================================================
