------------------------------ MODULE Attachment ------------------------------
(***************************************************************************)
(* What a worker relies on when it attaches a resiliency handle:           *)
(* WorkerAttach as one of the two things a restarted worker does, next to  *)
(* the choice of a checkpoint (RecoverySelect).                            *)
(***************************************************************************)
CONSTANTS
  Workers,                   \* ranks of the process group
  LoaderRanks, LoaderRoots,  \* ranks with an import thread, and what it imports
  Specialized,               \* frameworks with an integration of their own
  SelectedSteps, LastStep    \* steps a plan may have selected; bound on steps

VARIABLES auto, entry, known, thread, lock, group, handle, engine

Attach == INSTANCE WorkerAttach WITH Ranks <- Workers, MaxStep <- LastStep

(* Ranks of one process group attach the same framework integration        *)
(* (_agree_framework_cohort).                                              *)
SameFramework == Attach!SameFramework

(* The step counter of a handle is the step of the framework's state       *)
(* (_validate_recovery, wrapped_load_checkpoint).                          *)
CountsTheStateItHas == Attach!CountsTheStateItHas
=============================================================================
