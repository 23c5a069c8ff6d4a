------------------------------ MODULE StageWatch ------------------------------
(***************************************************************************)
(* What a reader of a hang report relies on: HangDetection as one of the   *)
(* two watchers of a run, next to the lease of PlanLease.                  *)
(***************************************************************************)
CONSTANTS
  Ranks, Stall, StageThreshold, Ratio, Confirmations,  \* peer group and settings
  StageKind,                                           \* the stage of each step
  MaxElapsed, MaxStage, MaxStep, MaxOp                 \* bounds

VARIABLES tracker, at, daemon, memory, report, sampled, spent

Hang == INSTANCE HangDetection

(* A rank named in a data-loading or checkpoint I/O report really was slow *)
(* (run and stage_confirmations of the daemon).                            *)
StageCulprits == Hang!StageCulpritIsSlow
=============================================================================
