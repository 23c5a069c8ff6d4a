---------------------------- MODULE SidecarTrust -----------------------------
(***************************************************************************)
(* TrustSidecars under names of its own, so that it can be checked and     *)
(* proved about beside CheckpointTrust: what the ranks of a pair keep in   *)
(* their sidecars, next to the status and the manifests of a job as one.   *)
(***************************************************************************)
EXTENDS Integers

CONSTANTS
  Pair,           \* the two ranks
  Setups,         \* the set-ups of their job: [dense, durable, mirror, modes]
  MaxCycle,       \* bound on detection cycles
  MaxLeaves       \* bound on how often the job stops

VARIABLES
  setup, cycle, bad, slots, writes, on, loading, home, shard, side, leaves

TS == INSTANCE TrustSidecars WITH
  Ranks <- Pair, MaxStep <- MaxCycle, MaxStops <- MaxLeaves,
  step <- cycle, todo <- writes, stops <- leaves

(* The ranks are a pair, with folders apart from the mirror's. *)
ASSUME SidecarAssumption == TS!PairAssumption /\ MaxCycle \in Nat

SidecarSpec == TS!Spec

-----------------------------------------------------------------------------
(* Set-ups with a rotating catalog: without durable checkpoints, where a   *)
(* candidate lives through a restart, with a restart mirror; with durable  *)
(* ones, without.                                                          *)
Rotating ==
  {[dense |-> FALSE, durable |-> ~mirror, mirror |-> mirror,
    modes |-> {"latest", "recovery_verified"}] : mirror \in BOOLEAN}

(* GEMINI alone and no mirror, with what a restart may load.               *)
Alone(dense, mode) ==
  {[dense |-> dense, durable |-> FALSE, mirror |-> FALSE, modes |-> {mode}]}

AloneVerified == Alone(FALSE, "recovery_verified")
AloneLatest == Alone(FALSE, "latest")
AloneDense == Alone(TRUE, "recovery_verified")

-----------------------------------------------------------------------------
(* Whenever the job dies, what a verified recovery of the ranks settles on *)
(* is free of corruption, and its shards are of one run of the job         *)
(* (_verified_disk_step, _persist_boundary, reject_candidate, copy_to).    *)
PickIsSound == TS!PickIsClean /\ TS!PickIsOneRun

(* The first half of it by itself.                                         *)
PickIsClean == TS!PickIsClean

(* Promotions, rejections, loads and flushes do not make a verified        *)
(* recovery settle for an older generation than before, or for none:       *)
(* before the first stop, and with a durable coordinator after it          *)
(* (_persist_boundary, reject_candidate, clear_candidate).                 *)
PickNeverRecedes == TS!PickNeverRecedes

(* The same without a durable coordinator too.                             *)
TrustIsKept == TS!TrustIsKept
=============================================================================
