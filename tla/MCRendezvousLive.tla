--------------------------- MODULE MCRendezvousLive ---------------------------
(***************************************************************************)
(* Liveness of two deployments of two machines: Group fills two slots with *)
(* them, Spare fills one slot and keeps a standby.  A behaviour is one of  *)
(* either deployment; the variables of the other one stay as they are.     *)
(***************************************************************************)
EXTENDS Integers, Sequences, TLC

CONSTANTS Nodes, Shapes, None

VARIABLES
  deployed,
  generation, history, registrations, closed, published, ended, ready, address,
  pc, gen, last, lease, policy, running, context,
  generation1, history1, registrations1, closed1, published1, ended1, ready1,
  address1, pc1, gen1, last1, lease1, policy1, running1, context1

OnePolicy == {[n \in Nodes |-> "policy"]}

Group == INSTANCE Rendezvous WITH
  NumSlots <- 2, MaxGen <- 1, MaxNodes <- 2, MaxRegistrations <- 2, Policies <- OnePolicy

Spare == INSTANCE Rendezvous WITH
  NumSlots <- 1, MaxGen <- 1, MaxNodes <- 2, MaxRegistrations <- 2, Policies <- OnePolicy,
  generation <- generation1, history <- history1, registrations <- registrations1,
  closed <- closed1, published <- published1, ended <- ended1, ready <- ready1,
  address <- address1, pc <- pc1, gen <- gen1, last <- last1, lease <- lease1,
  policy <- policy1, running <- running1, context <- context1

groupVars == <<generation, history, registrations, closed, published, ended, ready,
               address, pc, gen, last, lease, policy, running, context>>
spareVars == <<generation1, history1, registrations1, closed1, published1, ended1, ready1,
               address1, pc1, gen1, last1, lease1, policy1, running1, context1>>
vars == <<deployed, groupVars, spareVars>>

(* Only the deployment that runs finds files of an earlier run. *)
Init ==
  /\ deployed \in {"group", "spare"}
  /\ Group!Init /\ Spare!Init
  /\ deployed = "group" => \A n \in Nodes : context1[n] = -1
  /\ deployed = "spare" => \A n \in Nodes : context[n] = -1

GroupStep(A) == deployed = "group" /\ A /\ UNCHANGED <<deployed, policy, spareVars>>
SpareStep(A) == deployed = "spare" /\ A /\ UNCHANGED <<deployed, policy1, groupVars>>

Next == GroupStep(Group!Next) \/ SpareStep(Spare!Next)

(* The fairness of Rendezvous, for the deployment that runs. *)
FairSpec ==
  /\ Init /\ [][Next]_vars
  /\ \A n \in Nodes :
       /\ WF_vars(GroupStep(Group!Progress(n)) \/ SpareStep(Spare!Progress(n)))
       /\ WF_vars(GroupStep(Group!Timeout(n)) \/ SpareStep(Spare!Timeout(n)))

(***************************************************************************)
(* An assigned agent does not stay in next_rendezvous, whatever becomes of *)
(* the peer it waits for.                                                  *)
(***************************************************************************)
AssignedNodeSettles == Group!AssignedNodeSettles

(* A closed run drains: a standby, which waits without deadline, leaves too. *)
ClosedRunDrains == Spare!ClosedRunDrains

(***************************************************************************)
(* Old workers stop, after a restart of the group as after the replacement *)
(* of the one machine.                                                     *)
(***************************************************************************)
OldWorkersStop == Group!OldWorkersStop /\ Spare!OldWorkersStop
=============================================================================
