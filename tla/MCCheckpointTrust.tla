-------------------------- MODULE MCCheckpointTrust --------------------------
(***************************************************************************)
(* Trust in checkpoints, seen in two ways that share no state: the status  *)
(* and the manifests of a job as one (CheckpointTrust), and the sidecars   *)
(* of a pair of ranks (SidecarTrust).  A behaviour is one of one part; the *)
(* other stays as it began.                                                *)
(***************************************************************************)
EXTENDS CheckpointTrust, SidecarTrust

VARIABLE part

(* Dynamic catalogs of two shapes and of one, and a dense catalog.         *)
Dynamic(n) == [size |-> n, dense |-> FALSE, durable |-> TRUE]
Dense(durably) == [size |-> 1, dense |-> TRUE, durable |-> durably]
WithDurable == {Dynamic(2), Dynamic(1), Dense(TRUE), Dense(FALSE)}

(* A dynamic catalog of two shapes, without durable checkpoints.           *)
GeminiAlone == {[size |-> 2, dense |-> FALSE, durable |-> FALSE]}

sidecarVars == <<setup, cycle, bad, slots, writes, on, loading, home, shard, side, leaves>>
trustVars == <<part, vars, sidecarVars>>

-----------------------------------------------------------------------------
(* The sidecars in a behaviour of the job: no rank has written one, and    *)
(* nothing else of their state is looked at.                               *)
Off == "off"
SidecarsOff ==
  /\ home = [r \in Pair |-> TS!Mirror]
  /\ side = [f \in {TS!Mirror} |-> [r \in Pair |-> TS!NoStatus]]
  /\ setup = Off /\ cycle = Off /\ bad = Off /\ slots = Off /\ writes = Off
  /\ on = Off /\ loading = Off /\ shard = Off /\ leaves = Off

TrustInit ==
  /\ Init
  /\ \/ part = "job" /\ SidecarsOff
     \/ part = "sidecars" /\ TS!Init /\ catalog = CHOOSE c \in Catalogs : TRUE

TrustNext ==
  \/ part = "job" /\ Next /\ UNCHANGED <<part, sidecarVars>>
  \/ part = "sidecars" /\ TS!Next /\ UNCHANGED <<part, vars>>

TrustSpec == TrustInit /\ [][TrustNext]_trustVars
=============================================================================
