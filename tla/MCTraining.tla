----------------------------- MODULE MCTraining -----------------------------
(***************************************************************************)
(* Five parts of a training job that share no state: the buffers of a pair *)
(* of GEMINI ranks and the transfer of a shard to a replacement            *)
(* (ShardCopies), the session of one rank (TrainingSession), the replay    *)
(* harness of a peer group and the localizers over the process groups      *)
(* (Scout).  A behaviour is one of one part; the others stay as they are.  *)
(***************************************************************************)
EXTENDS ShardCopies, TrainingSession, Scout, Sequences

VARIABLE part

Pair == [r \in Ranks |-> 3 - r]

(* The jobs whose step count and captures are right.  Not among them are a *)
(* fallback under the native PyTorch wiring, gradient accumulation and     *)
(* overflow under DeepSpeed, and a durable checkpoint under a Trainer.     *)
JobOf(target, sharded, scheduler, durable, fallback, skips) ==
  [target |-> target, sharded |-> sharded, scheduler |-> scheduler, durable |-> durable,
   fallback |-> fallback, accumulation |-> 1, skips |-> skips, covered |-> skips]

SoundJobs ==
  {JobOf("engine", FALSE, TRUE, durable, TRUE, FALSE) : durable \in BOOLEAN}
  \cup {JobOf("pipeline", FALSE, TRUE, FALSE, TRUE, FALSE)}
  \cup {JobOf("chunks", FALSE, TRUE, durable, TRUE, TRUE) : durable \in BOOLEAN}
  \cup {JobOf("chunks", FALSE, FALSE, FALSE, FALSE, FALSE)}
  \cup {JobOf("trainer", sharded, TRUE, FALSE, FALSE, FALSE) : sharded \in BOOLEAN}
  \cup {JobOf("module", TRUE, FALSE, durable, TRUE, FALSE) : durable \in BOOLEAN}
  \cup {JobOf("module", FALSE, FALSE, durable, FALSE, FALSE) : durable \in BOOLEAN}

(* Four ranks as rows and columns; a row shares a leaf switch.  Switches   *)
(* are numbered from 10.                                                   *)
Grid == [row0 |-> {0, 1}, row1 |-> {2, 3}, col0 |-> {0, 2}, col1 |-> {1, 3}]
LeafOf == [r \in 0 .. 3 |-> IF r < 2 THEN 10 ELSE 11]

(* Rank 0 alone never computes a wrong value: two of three ranks may be    *)
(* wrong, and outvote it, or be slow together.                             *)
OutvotedPair == {{}, {1, 2}}
OneSlowPair == {[r \in 0 .. 2 |-> 10], [r \in 0 .. 2 |-> IF r > 0 THEN 30 ELSE 10]}
StepsOf == [dense |-> 3, dynamic |-> 2]

ASSUME Transfer!TransferAssumption
ASSUME SessionAssumption
\* Each is one the theorems of TrainingProof are about.
ASSUME \A j \in SoundJobs :
  CountsEveryUpdate(j) /\ LoadsOnlyCertified(j) /\ HookComesOff(j)
ASSUME Local!LocalizationAssumption /\ Local!CrossOnce /\ Local!LeavesApart
\* No corruption of MCTraining ties: MCReplayTie is about those that do.
ASSUME Harness!HarnessAssumption /\ Harness!NobodyTies

-----------------------------------------------------------------------------
localVars == <<fault, straggler, samples, failed, endpoint, switch, verdict, truths>>
harnessVars == <<catalog, interval, replaying, count, captured, optimizer, layer, position,
                 baselines, plan, check, result, tainted>>
transferVars == <<backend, shard, server, fetcher, buffers, published, registered, accepted>>
trainingVars == <<part, vars, sessionVars, localVars, harnessVars, transferVars>>

TrainingInit ==
  /\ part \in {"gemini", "session", "local", "harness", "transfer"}
  /\ Init /\ SessionInit /\ Local!Init /\ Harness!Init /\ Transfer!Init
  /\ part # "session" => job = CHOOSE j \in SoundJobs : TRUE
  /\ part # "local" => fault = Local!NoFault /\ straggler = {}
  /\ part # "harness" => /\ catalog = "dense" /\ replaying = 0 .. 2
                         /\ \A r \in 0 .. 2 : interval[r] = 1
  /\ part # "transfer" => backend = "nixl"

GeminiStep ==
  /\ part = "gemini" /\ Next
  /\ UNCHANGED <<part, sessionVars, localVars, harnessVars, transferVars>>
SessionStep ==
  /\ part = "session" /\ SessionNext
  /\ UNCHANGED <<part, vars, localVars, harnessVars, transferVars>>
LocalStep ==
  /\ part = "local" /\ Local!Next
  /\ UNCHANGED <<part, vars, sessionVars, harnessVars, transferVars>>
HarnessStep ==
  /\ part = "harness" /\ Harness!Next
  /\ UNCHANGED <<part, vars, sessionVars, localVars, transferVars>>
TransferStep ==
  /\ part = "transfer" /\ Transfer!Next
  /\ UNCHANGED <<part, vars, sessionVars, localVars, harnessVars>>

TrainingNext == GeminiStep \/ SessionStep \/ LocalStep \/ HarnessStep \/ TransferStep

TrainingSpec == TrainingInit /\ [][TrainingNext]_trainingVars

-----------------------------------------------------------------------------
(* A slowdown does not become the baseline it is measured against.         *)
SlowIsNeverLearned == Harness!SlowIsNeverLearned
=============================================================================
