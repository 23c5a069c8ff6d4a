---------------------------- MODULE GenerationLog ----------------------------
(***************************************************************************)
(* What the torchrun recovery store promises, with every c10d key, process *)
(* and crash left out: one placement is committed for generation 0, and    *)
(* each later generation is committed exactly once, as a same-node restart *)
(* or as the replacement of the node of one logical slot.  PlanStore       *)
(* implements this specification; Rendezvous is built on top of it.        *)
(***************************************************************************)
EXTENDS Naturals

CONSTANTS
  Nodes,      \* machine identities
  NumSlots,   \* logical node slots (torchrun min_nodes)
  MaxGen,     \* bound on the generation counter
  Shapes,     \* (local_world_size, topology_digest) pairs a request can name
  None        \* an absent key

Gens  == 0 .. MaxGen
Slots == 0 .. NumSlots - 1

(***************************************************************************)
(* A placement: the node of every slot, the quarantine history, and the    *)
(* worker shape, which generation 0 does not record.  The code keeps the   *)
(* quarantine history as a tuple; only its members matter here.            *)
(***************************************************************************)
Placement ==
  [active      : [Slots -> Nodes],
   quarantined : SUBSET Nodes,
   shape       : Shapes \cup {None}]

(* What the theorems about the log ask of the constants. *)
ConstantsOK ==
  /\ NumSlots \in Nat \ {0}
  /\ MaxGen \in Nat
  /\ None \notin Placement
  /\ None \notin Shapes

VARIABLES
  generation,   \* the committed generation
  history       \* history[g]: the placement committed for generation g

vars == <<generation, history>>

ActiveNodes(p) == {p.active[s] : s \in Slots}

DistinctSlots(p) ==
  \A s, t \in Slots : p.active[s] = p.active[t] => s = t

(* The same nodes again: publish_successor without a replacement. *)
SameNodes(old, new) ==
  /\ new.active = old.active
  /\ new.quarantined = old.quarantined

(* Node r takes slot s and the node it replaces is quarantined. *)
Replaces(old, new, s, r) ==
  /\ r \notin ActiveNodes(old)
  /\ r \notin old.quarantined
  /\ new.active = [old.active EXCEPT ![s] = r]
  /\ new.quarantined = old.quarantined \cup {old.active[s]}

(* The worker shape is free in the first plan and fixed afterwards. *)
KeepsShape(old, new) ==
  /\ new.shape \in Shapes
  /\ old.shape # None => new.shape = old.shape

Successor(old, new) ==
  /\ KeepsShape(old, new)
  /\ \/ SameNodes(old, new)
     \/ \E s \in Slots, r \in Nodes : Replaces(old, new, s, r)

-----------------------------------------------------------------------------
Init ==
  /\ generation = 0
  /\ history = [g \in Gens |-> None]

(* The initial node assignment is decided once. *)
CommitInitial ==
  /\ UNCHANGED generation
  /\ history[0] = None
  /\ \E p \in Placement :
       /\ DistinctSlots(p)
       /\ p.quarantined = {}
       /\ p.shape = None
       /\ history' = [history EXCEPT ![0] = p]

(* The next generation is decided once, from the current one. *)
CommitSuccessor ==
  /\ generation < MaxGen
  /\ generation' = generation + 1
  /\ history[generation] # None
  /\ \E p \in Placement :
       /\ Successor(history[generation], p)
       /\ history' = [history EXCEPT ![generation + 1] = p]

Next == CommitInitial \/ CommitSuccessor

Spec == Init /\ [][Next]_vars

-----------------------------------------------------------------------------
TypeOK ==
  /\ generation \in Gens
  /\ history \in [Gens -> Placement \cup {None}]

(***************************************************************************)
(* A node that some committed generation quarantined is never assigned by  *)
(* that generation or by a later one, and no generation assigns one node   *)
(* to two slots.                                                           *)
(***************************************************************************)
QuarantineIsForever ==
  \A g, h \in Gens :
    g <= h /\ history[g] # None /\ history[h] # None =>
      /\ DistinctSlots(history[h])
      /\ history[g].quarantined \cap ActiveNodes(history[h]) = {}
=============================================================================
