------------------------------ MODULE PlanStore ------------------------------
(***************************************************************************)
(* SimpleRecoveryPlanStore and the coordinators that publish through it.   *)
(*                                                                         *)
(* The c10d store gives atomic get, compare_set and append on single keys  *)
(* and nothing across keys, so publish_successor is a sequence of steps    *)
(* that other coordinators, and a crash of this one, can interleave with.  *)
(* Agents register concurrently and any of them may commit the initial     *)
(* assignment.                                                             *)
(*                                                                         *)
(* A plan is what tells two RestartPlans apart here: its identity, its     *)
(* generations, its placement and its worker shape.  A call with a stale   *)
(* or wrong view of the placement raises before it changes anything, so    *)
(* only calls whose arguments match the committed placement are actions.   *)
(***************************************************************************)
EXTENDS Naturals, Sequences, FiniteSets

CONSTANTS
  Nodes, NumSlots, MaxGen, Shapes, None,
  MaxRegistrations,  \* bound on the handlers that are ever constructed
  Managers,    \* coordinator objects
  PlanIds,     \* plan identities a manager can request
  Limits       \* values torchrun agents can pass as max_nodes

VARIABLES
  registrations,  \* initial/registrations: the node of each appended record
  maxNodes,       \* initial/max_nodes
  initialNodes,   \* initial/nodes: the node of every slot
  generation,     \* generation
  plans,          \* plans/<g>
  call            \* the publish call each coordinator has in progress

vars == <<registrations, maxNodes, initialNodes, generation, plans, call>>
storeVars == <<registrations, maxNodes, initialNodes, generation, plans>>

Gens   == 0 .. MaxGen
Slots  == 0 .. NumSlots - 1

Plan ==
  [id          : PlanIds,
   from        : 0 .. MaxGen - 1,
   active      : [Slots -> Nodes],
   quarantined : SUBSET Nodes,
   shape       : Shapes]

To(plan) == plan.from + 1

PlacementOf(plan) ==
  [active |-> plan.active, quarantined |-> plan.quarantined, shape |-> plan.shape]

ASSUME StoreAssumption ==
  /\ NumSlots \in Nat \ {0}
  /\ MaxGen \in Nat
  /\ MaxRegistrations \in Nat
  /\ Limits \subseteq Nat
  /\ None \notin Shapes
  /\ None \notin Plan
  /\ None \notin Limits
  /\ None \notin [Slots -> Nodes]
  /\ None \notin [active : [Slots -> Nodes], quarantined : SUBSET Nodes,
                  shape : Shapes \cup {None}]

-----------------------------------------------------------------------------
(***************************************************************************)
(* _decode_registrations: a node held by two agents, or more nodes than    *)
(* max_nodes, makes every read raise RecoveryPlanCorrupt.  A record also   *)
(* names its agent, but every handler draws a fresh agent_id and registers *)
(* once, so a repeated node always comes with a different agent and no     *)
(* agent ever registers a second node.                                     *)
(***************************************************************************)
Decodable(log, limit) ==
  /\ \A i, j \in 1 .. Len(log) : log[i] = log[j] => i = j
  /\ Len(log) <= limit

RegisteredNodes(log) == {log[i] : i \in 1 .. Len(log)}

(* The placement a coordinator reads as committed for generation g. *)
CommittedPlacement(g) ==
  IF g = 0
  THEN IF initialNodes = None
       THEN None
       ELSE [active |-> initialNodes, quarantined |-> {}, shape |-> None]
  ELSE IF plans[g] = None THEN None ELSE PlacementOf(plans[g])

Idle        == [pc |-> "idle", plan |-> None]
At(pc, plan) == [pc |-> pc, plan |-> plan]

CallPoints == {"read_generation", "plan_cas", "generation_cas", "returned"}

SetCall(m, c) == call' = [call EXCEPT ![m] = c]

-----------------------------------------------------------------------------
Init ==
  /\ registrations = <<>>
  /\ maxNodes = None
  /\ initialNodes = None
  /\ generation = 0
  /\ plans = [g \in Gens |-> None]
  /\ call = [m \in Managers |-> Idle]

(***************************************************************************)
(* register_node, from the constructor of a handler: the first agent fixes *)
(* max_nodes, an agent that disagrees raises before it appends, and the    *)
(* record is appended even if the log it leaves does not decode.           *)
(***************************************************************************)
RegisterNode(n, limit) ==
  /\ Len(registrations) < MaxRegistrations
  /\ maxNodes \in {None, limit}
  /\ maxNodes' = limit
  /\ registrations' = Append(registrations, n)
  /\ UNCHANGED <<initialNodes, generation, plans, call>>

(***************************************************************************)
(* ensure_initial_nodes: the first NumSlots registered nodes, in order, by *)
(* compare_set.  It changes nothing once the key is set.                   *)
(***************************************************************************)
EnsureInitialNodes ==
  /\ maxNodes # None
  /\ NumSlots <= maxNodes
  /\ Decodable(registrations, maxNodes)
  /\ Len(registrations) >= NumSlots
  /\ initialNodes = None
  /\ initialNodes' = [s \in Slots |-> registrations[s + 1]]
  /\ UNCHANGED <<registrations, maxNodes, generation, plans, call>>

-----------------------------------------------------------------------------
(* The plan a same-node restart of placement p builds. *)
RestartPlanOf(id, sh, p) ==
  [id |-> id, from |-> generation, active |-> p.active,
   quarantined |-> p.quarantined, shape |-> sh]

(* The plan that puts node r into slot s of placement p. *)
ReplacementPlanOf(id, sh, p, s, r) ==
  [id |-> id, from |-> generation, active |-> [p.active EXCEPT ![s] = r],
   quarantined |-> p.quarantined \cup {p.active[s]}, shape |-> sh]

(* The checks of publish_successor on the committed placement. *)
ViewIsCurrent(sh) ==
  /\ generation < MaxGen
  /\ CommittedPlacement(generation) # None
  /\ generation > 0 => sh = plans[generation].shape

(* publish_successor(replacement=None), up to the call of publish. *)
BeginRestart(m, id, sh) ==
  /\ call[m].pc \in {"idle", "returned"}
  /\ ViewIsCurrent(sh)
  /\ SetCall(m, At("read_generation",
                   RestartPlanOf(id, sh, CommittedPlacement(generation))))
  /\ UNCHANGED storeVars

(* Mutant: the quarantine history is not consulted. *)
MayReplaceQuarantined(p, r) ==
  /\ \A s \in Slots : p.active[s] # r
  /\ maxNodes # None
  /\ Decodable(registrations, maxNodes)
  /\ r \in RegisteredNodes(registrations)

(* The replacement must be a registered node, neither active nor quarantined. *)
MayReplace(p, r) ==
  /\ \A s \in Slots : p.active[s] # r
  /\ r \notin p.quarantined
  /\ maxNodes # None
  /\ Decodable(registrations, maxNodes)
  /\ r \in RegisteredNodes(registrations)

(* publish_successor(replacement=(s, r)), up to the call of publish. *)
BeginReplacement(m, id, sh, s, r) ==
  /\ call[m].pc \in {"idle", "returned"}
  /\ ViewIsCurrent(sh)
  /\ MayReplace(CommittedPlacement(generation), r)
  /\ SetCall(m, At("read_generation",
                   ReplacementPlanOf(id, sh, CommittedPlacement(generation), s, r)))
  /\ UNCHANGED storeVars

(***************************************************************************)
(* publish, first step: read the generation again.  If the successor is    *)
(* already current the call returns or raises on whether this very plan is *)
(* the committed one; if neither generation is current it raises.          *)
(***************************************************************************)
PublishReadGeneration(m) ==
  LET plan == call[m].plan IN
  /\ call[m].pc = "read_generation"
  /\ \/ /\ generation = To(plan)
        /\ SetCall(m, IF plans[To(plan)] = plan THEN At("returned", plan) ELSE Idle)
     \/ /\ generation = plan.from
        /\ SetCall(m, At("plan_cas", plan))
     \/ /\ generation \notin {plan.from, To(plan)}
        /\ SetCall(m, Idle)
  /\ UNCHANGED storeVars

(* Mutant: the plan key is written whatever it holds. *)
PublishPlanSet(m) ==
  LET plan == call[m].plan IN
  /\ call[m].pc = "plan_cas"
  /\ plans' = [plans EXCEPT ![To(plan)] = plan]
  /\ SetCall(m, At("generation_cas", plan))
  /\ UNCHANGED <<registrations, maxNodes, initialNodes, generation>>

(* Mutant: a conflicting plan under the key is taken for this one. *)
PublishPlanIgnoresConflict(m) ==
  LET plan == call[m].plan IN
  /\ call[m].pc = "plan_cas"
  /\ plans' = IF plans[To(plan)] = None THEN [plans EXCEPT ![To(plan)] = plan] ELSE plans
  /\ SetCall(m, At("generation_cas", plan))
  /\ UNCHANGED <<registrations, maxNodes, initialNodes, generation>>

(* Mutant: the generation is to be advanced before the plan is stored. *)
PublishPlanLater(m) ==
  /\ call[m].pc = "plan_cas"
  /\ SetCall(m, At("generation_cas", call[m].plan))
  /\ UNCHANGED storeVars

(* publish, second step: compare_set of the plan key from absent. *)
PublishPlanCas(m) ==
  LET plan == call[m].plan IN
  /\ call[m].pc = "plan_cas"
  /\ \/ /\ plans[To(plan)] = None
        /\ plans' = [plans EXCEPT ![To(plan)] = plan]
        /\ SetCall(m, At("generation_cas", plan))
     \/ /\ plans[To(plan)] = plan
        /\ SetCall(m, At("generation_cas", plan))
        /\ UNCHANGED plans
     \/ /\ plans[To(plan)] \notin {None, plan}
        /\ SetCall(m, Idle)
        /\ UNCHANGED plans
  /\ UNCHANGED <<registrations, maxNodes, initialNodes, generation>>

(* publish, last step: compare_set of the generation key. *)
PublishGenerationCas(m) ==
  LET plan == call[m].plan IN
  /\ call[m].pc = "generation_cas"
  /\ generation' = IF generation = plan.from THEN To(plan) ELSE generation
  /\ SetCall(m, IF generation' = To(plan) THEN At("returned", plan) ELSE Idle)
  /\ UNCHANGED <<registrations, maxNodes, initialNodes, plans>>

(* The coordinator's process dies between two store operations. *)
Crash(m) ==
  /\ call[m].pc # "idle"
  /\ SetCall(m, Idle)
  /\ UNCHANGED storeVars

Next ==
  \/ \E n \in Nodes, limit \in Limits : RegisterNode(n, limit)
  \/ EnsureInitialNodes
  \/ \E m \in Managers, id \in PlanIds, sh \in Shapes : BeginRestart(m, id, sh)
  \/ \E m \in Managers, id \in PlanIds, sh \in Shapes, s \in Slots, r \in Nodes :
       BeginReplacement(m, id, sh, s, r)
  \/ \E m \in Managers :
       \/ PublishReadGeneration(m)
       \/ PublishPlanCas(m)
       \/ PublishGenerationCas(m)
       \/ Crash(m)

Spec == Init /\ [][Next]_vars

-----------------------------------------------------------------------------
TypeOK ==
  /\ registrations \in Seq(Nodes)
  /\ maxNodes \in Limits \cup {None}
  /\ initialNodes \in [Slots -> Nodes] \cup {None}
  /\ generation \in Gens
  /\ plans \in [Gens -> Plan \cup {None}]
  /\ call \in [Managers -> {Idle} \cup [pc : CallPoints, plan : Plan]]

(***************************************************************************)
(* _assignment raises "current generation has no recovery plan" for an     *)
(* agent that reads a generation whose plan key is absent: every           *)
(* generation up to the current one has its plan, and generation 0 its     *)
(* node assignment before any plan exists.                                 *)
(***************************************************************************)
CommittedGenerationsHavePlans ==
  /\ \A g \in 1 .. generation : plans[g] # None
  /\ generation > 0 => initialNodes # None

(***************************************************************************)
(* A publish call returns only for a plan that is committed: the plan key  *)
(* of its generation holds exactly this plan and the generation key has    *)
(* reached it.  Two coordinators can therefore never both be told that     *)
(* their different plans are the successor of one generation.              *)
(***************************************************************************)
ReturnedIsCommitted ==
  \A m \in Managers :
    call[m].pc = "returned" =>
      /\ plans[To(call[m].plan)] = call[m].plan
      /\ To(call[m].plan) <= generation

(***************************************************************************)
(* What readers of the store can see: the placements of the generations    *)
(* that the generation key has reached.  A plan key one generation ahead   *)
(* is not part of it.                                                      *)
(***************************************************************************)
History ==
  [g \in Gens |-> IF g <= generation THEN CommittedPlacement(g) ELSE None]

Log == INSTANCE GenerationLog WITH history <- History

(***************************************************************************)
(* The store implements the generation log: with coordinators that race,   *)
(* retry and crash between the two compare_sets of publish, generation     *)
(* after generation is still decided once, from the one before it, and     *)
(* never changed.                                                          *)
(***************************************************************************)
ImplementsLog == Log!Spec

(***************************************************************************)
(* The log's promise, read off the store: a node quarantined by a          *)
(* committed generation is assigned by no later one.                       *)
(***************************************************************************)
QuarantineIsForever == Log!QuarantineIsForever
=============================================================================
