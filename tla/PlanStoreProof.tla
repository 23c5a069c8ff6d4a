---------------------------- MODULE PlanStoreProof ----------------------------
(***************************************************************************)
(* PlanStore implements GenerationLog for every set of nodes, coordinators *)
(* and plans.  The inductive invariant says that a plan key is at most one *)
(* generation ahead, that every stored plan, and every plan a call still   *)
(* carries, extends the placement committed for its generation, and what   *)
(* each step of publish already knows.  At the end is the promise of the   *)
(* log, proved from the log's steps and so of every store that takes no    *)
(* others.                                                                 *)
(***************************************************************************)
EXTENDS PlanStore, TLAPS

(* A plan extends the placement committed for the generation it leaves. *)
Extends(plan) ==
  /\ plan.from <= generation
  /\ CommittedPlacement(plan.from) # None
  /\ Log!Successor(CommittedPlacement(plan.from), PlacementOf(plan))

InitialIsDistinct ==
  initialNodes # None =>
    \A s, t \in Slots : initialNodes[s] = initialNodes[t] => s = t

StoredPlans ==
  \A g \in 1 .. MaxGen :
    plans[g] # None => To(plans[g]) = g /\ Extends(plans[g])

CarriedPlans ==
  \A m \in Managers :
    call[m].pc # "idle" =>
      /\ Extends(call[m].plan)
      /\ call[m].pc \in {"generation_cas", "returned"} =>
           plans[To(call[m].plan)] = call[m].plan

StoreInv ==
  /\ TypeOK
  /\ plans[0] = None
  /\ InitialIsDistinct
  /\ CommittedGenerationsHavePlans
  /\ StoredPlans
  /\ CarriedPlans
  /\ ReturnedIsCommitted

-----------------------------------------------------------------------------
(* The empty store satisfies the invariant. *)
LEMMA StoreInit == Init => StoreInv
  BY StoreAssumption
     DEF Init, StoreInv, TypeOK, InitialIsDistinct, CommittedGenerationsHavePlans,
         StoredPlans, CarriedPlans, ReturnedIsCommitted, Idle, Gens

(* A record of a call that is under way. *)
LEMMA CallType ==
  ASSUME TypeOK, NEW m \in Managers, call[m].pc # "idle"
  PROVE  /\ call[m].pc \in CallPoints
         /\ call[m].plan \in Plan
         /\ To(call[m].plan) \in Gens \ {0}
         /\ call[m].plan.from \in Gens
         /\ call[m].plan.from = To(call[m].plan) - 1
  BY StoreAssumption DEF TypeOK, Idle, CallPoints, Plan, Gens, To

(* A plan's placement is a placement of the log. *)
LEMMA PlacementType ==
  ASSUME NEW plan \in Plan
  PROVE  /\ PlacementOf(plan) \in Log!Placement
         /\ PlacementOf(plan) # None
         /\ PlacementOf(plan).active = plan.active
         /\ PlacementOf(plan).quarantined = plan.quarantined
         /\ PlacementOf(plan).shape = plan.shape
  BY StoreAssumption DEF Plan, PlacementOf, Log!Placement, Slots, Log!Slots

(* A committed placement is a placement of the log. *)
LEMMA CommittedType ==
  ASSUME TypeOK, NEW g \in Gens, CommittedPlacement(g) # None
  PROVE  CommittedPlacement(g) \in Log!Placement
<1>1. CASE g = 0
  BY <1>1 DEF CommittedPlacement, TypeOK, Log!Placement, Slots, Log!Slots
<1>2. CASE g # 0
  BY <1>2, PlacementType DEF CommittedPlacement, TypeOK
<1> QED BY <1>1, <1>2

-----------------------------------------------------------------------------
(***************************************************************************)
(* A step that keeps every key that is already set, and does not move the  *)
(* generation back, keeps what is known about every plan.                  *)
(***************************************************************************)
KeysKept ==
  /\ generation' >= generation
  /\ initialNodes # None => initialNodes' = initialNodes
  /\ \A g \in Gens : plans[g] # None => plans'[g] = plans[g]

(* What readers see as committed for a generation stays committed. *)
LEMMA CommittedKept ==
  ASSUME TypeOK, KeysKept, NEW g \in Gens, CommittedPlacement(g) # None
  PROVE  CommittedPlacement(g)' = CommittedPlacement(g)
  BY DEF KeysKept, CommittedPlacement

(* A plan that extends the committed placement of its generation still does. *)
LEMMA ExtendsKept ==
  ASSUME TypeOK, TypeOK', KeysKept, NEW plan \in Plan, Extends(plan)
  PROVE  Extends(plan)'
<1>1. plan.from \in Gens
  BY StoreAssumption DEF Plan, Gens
<1>2. CommittedPlacement(plan.from)' = CommittedPlacement(plan.from)
  BY <1>1, CommittedKept DEF Extends
<1>3. plan.from <= generation'
  BY <1>1, StoreAssumption DEF Extends, KeysKept, TypeOK, Gens
<1> QED BY <1>2, <1>3 DEF Extends

-----------------------------------------------------------------------------
(* Registering a node touches no key the invariant reads. *)
LEMMA RegisterStep ==
  ASSUME StoreInv, NEW n \in Nodes, NEW limit \in Limits, RegisterNode(n, limit)
  PROVE  StoreInv'
<1>1. UNCHANGED <<initialNodes, generation, plans, call>>
  BY DEF RegisterNode
<1>2. TypeOK'
  BY DEF StoreInv, TypeOK, RegisterNode
<1> QED
  BY <1>1, <1>2
     DEF StoreInv, InitialIsDistinct, CommittedGenerationsHavePlans, StoredPlans,
         CarriedPlans, ReturnedIsCommitted, Extends, CommittedPlacement

(* The initial assignment gives every slot its own node. *)
LEMMA InitialStep ==
  ASSUME StoreInv, EnsureInitialNodes
  PROVE  StoreInv'
<1> USE StoreAssumption
<1>1. initialNodes = None /\ UNCHANGED <<registrations, generation, plans, call>>
  BY DEF EnsureInitialNodes
<1>2. /\ Len(registrations) >= NumSlots
      /\ \A i, j \in 1 .. Len(registrations) :
           registrations[i] = registrations[j] => i = j
      /\ initialNodes' = [s \in Slots |-> registrations[s + 1]]
  BY DEF EnsureInitialNodes, Decodable
<1>3. \A s \in Slots : s + 1 \in 1 .. Len(registrations)
  BY <1>2 DEF Slots, StoreInv, TypeOK
<1>4. initialNodes' \in [Slots -> Nodes] /\ initialNodes' # None
  BY <1>2, <1>3 DEF StoreInv, TypeOK
<1>5. TypeOK'
  BY <1>1, <1>4 DEF StoreInv, TypeOK, EnsureInitialNodes
<1>6. InitialIsDistinct'
  BY <1>2, <1>3 DEF InitialIsDistinct, Slots
<1>7. KeysKept
  BY <1>1 DEF KeysKept, StoreInv, TypeOK, Gens
<1>8. CommittedGenerationsHavePlans' /\ ReturnedIsCommitted' /\ plans'[0] = None
  BY <1>1, <1>4 DEF StoreInv, CommittedGenerationsHavePlans, ReturnedIsCommitted
<1>9. StoredPlans'
  <2> SUFFICES ASSUME NEW g \in 1 .. MaxGen, plans[g] # None
               PROVE  To(plans[g]) = g /\ Extends(plans[g])'
    BY <1>1 DEF StoredPlans, Extends, CommittedPlacement
  <2>1. plans[g] \in Plan /\ To(plans[g]) = g /\ Extends(plans[g])
    BY DEF StoreInv, StoredPlans, TypeOK, Gens
  <2>2. \A plan \in Plan : Extends(plan) => Extends(plan)'
    BY <1>5, <1>7, ExtendsKept DEF StoreInv
  <2> QED BY <1>1, <2>1, <2>2 DEF Extends, CommittedPlacement
<1>10. CarriedPlans'
  <2> SUFFICES ASSUME NEW m \in Managers, call[m].pc # "idle"
               PROVE  /\ Extends(call[m].plan)'
                      /\ call[m].pc \in {"generation_cas", "returned"} =>
                           plans[To(call[m].plan)] = call[m].plan
    BY <1>1 DEF CarriedPlans
  <2>1. call[m].plan \in Plan /\ Extends(call[m].plan)
    BY CallType DEF StoreInv, CarriedPlans
  <2>2. \A plan \in Plan : Extends(plan) => Extends(plan)'
    BY <1>5, <1>7, ExtendsKept DEF StoreInv
  <2> QED BY <1>1, <2>1, <2>2 DEF StoreInv, CarriedPlans, Extends, CommittedPlacement
<1> QED BY <1>5, <1>6, <1>8, <1>9, <1>10 DEF StoreInv

-----------------------------------------------------------------------------
(* What a call's record must satisfy when no key changes. *)
CallIsSound(c) ==
  \/ c = Idle
  \/ /\ c \in [pc : CallPoints, plan : Plan]
     /\ Extends(c.plan)
     /\ c.pc \in {"generation_cas", "returned"} => plans[To(c.plan)] = c.plan
     /\ c.pc = "returned" => To(c.plan) <= generation

(* A step of one coordinator that changes no key preserves the invariant. *)
LEMMA CallStep ==
  ASSUME StoreInv, UNCHANGED storeVars, NEW m \in Managers, NEW c,
         CallIsSound(c), call' = [call EXCEPT ![m] = c]
  PROVE  StoreInv'
<1>1. UNCHANGED <<registrations, maxNodes, initialNodes, generation, plans>>
  BY DEF storeVars
<1>2. \A k \in Managers : call'[k] = IF k = m THEN c ELSE call[k]
  BY DEF StoreInv, TypeOK
<1>3. TypeOK'
  BY <1>1 DEF StoreInv, TypeOK, CallIsSound
<1>4. /\ plans'[0] = None
      /\ InitialIsDistinct'
      /\ CommittedGenerationsHavePlans'
      /\ StoredPlans'
  BY <1>1 DEF StoreInv, InitialIsDistinct, CommittedGenerationsHavePlans, StoredPlans,
              Extends, CommittedPlacement
<1>5. \A plan : Extends(plan)' <=> Extends(plan)
  BY <1>1 DEF Extends, CommittedPlacement
<1>6. CarriedPlans'
  <2> SUFFICES ASSUME NEW k \in Managers, call'[k].pc # "idle"
               PROVE  /\ Extends(call'[k].plan)
                      /\ call'[k].pc \in {"generation_cas", "returned"} =>
                           plans[To(call'[k].plan)] = call'[k].plan
    BY <1>1 DEF CarriedPlans, Extends, CommittedPlacement
  <2>1. CASE k = m
    BY <1>2, <2>1 DEF CallIsSound, Idle
  <2>2. CASE k # m
    BY <1>2, <2>2 DEF StoreInv, CarriedPlans
  <2> QED BY <2>1, <2>2
<1>7. ReturnedIsCommitted'
  BY <1>1, <1>2 DEF StoreInv, ReturnedIsCommitted, CallIsSound, Idle
<1> QED BY <1>3, <1>4, <1>6, <1>7 DEF StoreInv

(* A same-node restart plan extends the committed placement. *)
LEMMA BeginRestartStep ==
  ASSUME StoreInv, NEW m \in Managers, NEW id \in PlanIds, NEW sh \in Shapes,
         BeginRestart(m, id, sh)
  PROVE  StoreInv'
<1> USE StoreAssumption
<1> DEFINE p == CommittedPlacement(generation)
           plan == RestartPlanOf(id, sh, p)
<1>1. p \in Log!Placement /\ p # None /\ generation \in 0 .. MaxGen - 1
  BY CommittedType DEF BeginRestart, ViewIsCurrent, StoreInv, TypeOK, Gens
<1>2. plan \in Plan /\ plan.from = generation
  BY <1>1 DEF RestartPlanOf, Plan, Log!Placement, Log!Slots, Slots
<1>3. p.shape = IF generation = 0 THEN None ELSE plans[generation].shape
  BY <1>1 DEF CommittedPlacement, PlacementOf
<1>4. Log!Successor(p, PlacementOf(plan))
  <2>1. Log!KeepsShape(p, PlacementOf(plan))
    BY <1>1, <1>3 DEF Log!KeepsShape, PlacementOf, RestartPlanOf, BeginRestart, ViewIsCurrent
  <2>2. Log!SameNodes(p, PlacementOf(plan))
    BY DEF Log!SameNodes, PlacementOf, RestartPlanOf
  <2> QED BY <2>1, <2>2 DEF Log!Successor
<1>5. Extends(plan)
  BY <1>1, <1>2, <1>4 DEF Extends
<1>6. CallIsSound(At("read_generation", plan))
  BY <1>2, <1>5 DEF CallIsSound, At, CallPoints
<1> QED BY <1>6, CallStep DEF BeginRestart, SetCall

(* A replacement plan extends the committed placement. *)
LEMMA BeginReplacementStep ==
  ASSUME StoreInv, NEW m \in Managers, NEW id \in PlanIds, NEW sh \in Shapes,
         NEW s \in Slots, NEW r \in Nodes,
         BeginReplacement(m, id, sh, s, r)
  PROVE  StoreInv'
<1> USE StoreAssumption
<1> DEFINE p == CommittedPlacement(generation)
           plan == ReplacementPlanOf(id, sh, p, s, r)
<1>1. p \in Log!Placement /\ p # None /\ generation \in 0 .. MaxGen - 1
  BY CommittedType DEF BeginReplacement, ViewIsCurrent, StoreInv, TypeOK, Gens
<1>2. plan \in Plan /\ plan.from = generation
  BY <1>1 DEF ReplacementPlanOf, Plan, Log!Placement, Log!Slots, Slots
<1>3. p.shape = IF generation = 0 THEN None ELSE plans[generation].shape
  BY <1>1 DEF CommittedPlacement, PlacementOf
<1>4. Log!Successor(p, PlacementOf(plan))
  <2>1. Log!KeepsShape(p, PlacementOf(plan))
    BY <1>1, <1>3
       DEF Log!KeepsShape, PlacementOf, ReplacementPlanOf, BeginReplacement, ViewIsCurrent
  <2>2. r \notin Log!ActiveNodes(p) /\ r \notin p.quarantined
    BY DEF BeginReplacement, MayReplace, Log!ActiveNodes, Log!Slots, Slots
  <2>3. Log!Replaces(p, PlacementOf(plan), s, r)
    BY <2>2 DEF Log!Replaces, PlacementOf, ReplacementPlanOf
  <2> QED BY <2>1, <2>3 DEF Log!Successor, Log!Slots, Slots
<1>5. Extends(plan)
  BY <1>1, <1>2, <1>4 DEF Extends
<1>6. CallIsSound(At("read_generation", plan))
  BY <1>2, <1>5 DEF CallIsSound, At, CallPoints
<1> QED BY <1>6, CallStep DEF BeginReplacement, SetCall

-----------------------------------------------------------------------------
(* Reading the generation again, and dying, change no key. *)
LEMMA ReadGenerationStep ==
  ASSUME StoreInv, NEW m \in Managers, PublishReadGeneration(m)
  PROVE  StoreInv'
<1> DEFINE plan == call[m].plan
<1>1. /\ call[m].pc # "idle"
      /\ UNCHANGED storeVars
  BY DEF PublishReadGeneration
<1>2. plan \in Plan /\ Extends(plan) /\ To(plan) \in Gens
  BY <1>1, CallType DEF StoreInv, CarriedPlans
<1>3. CASE generation = To(plan) /\ plans[To(plan)] = plan
  <2>1. CallIsSound(At("returned", plan))
    BY <1>2, <1>3 DEF CallIsSound, At, CallPoints, StoreInv, TypeOK, Gens
  <2>2. call' = [call EXCEPT ![m] = At("returned", plan)]
    BY <1>2, <1>3, StoreAssumption DEF PublishReadGeneration, SetCall, To, Plan
  <2> QED BY <1>1, <2>1, <2>2, CallStep
<1>4. CASE generation = plan.from
  <2>1. CallIsSound(At("plan_cas", plan))
    BY <1>2 DEF CallIsSound, At, CallPoints
  <2>2. call' = [call EXCEPT ![m] = At("plan_cas", plan)]
    BY <1>2, <1>4, StoreAssumption DEF PublishReadGeneration, SetCall, To, Plan
  <2> QED BY <1>1, <2>1, <2>2, CallStep
<1>5. CASE ~(generation = To(plan) /\ plans[To(plan)] = plan) /\ generation # plan.from
  <2>1. CallIsSound(Idle)
    BY DEF CallIsSound
  <2>2. call' = [call EXCEPT ![m] = Idle]
    BY <1>5 DEF PublishReadGeneration, SetCall
  <2> QED BY <1>1, <2>1, <2>2, CallStep
<1> QED BY <1>3, <1>4, <1>5

(* The death of a coordinator preserves the invariant. *)
LEMMA CrashStep ==
  ASSUME StoreInv, NEW m \in Managers, Crash(m)
  PROVE  StoreInv'
<1>1. CallIsSound(Idle)
  BY DEF CallIsSound
<1> QED BY <1>1, CallStep DEF Crash, SetCall

(* Writing an absent plan key, which can only be generation + 1. *)
LEMMA PlanWriteStep ==
  ASSUME StoreInv, NEW m \in Managers, PublishPlanCas(m),
         plans[To(call[m].plan)] = None
  PROVE  StoreInv'
<1> USE StoreAssumption
<1> DEFINE plan == call[m].plan
           g0 == To(plan)
<1>1. call[m].pc = "plan_cas"
  BY DEF PublishPlanCas
<1>2. plan \in Plan /\ Extends(plan) /\ g0 \in Gens \ {0} /\ plan.from = g0 - 1
  BY <1>1, CallType DEF StoreInv, CarriedPlans
<1>3. plan # None
  BY <1>2
<1>4. /\ plans' = [plans EXCEPT ![g0] = plan]
      /\ call' = [call EXCEPT ![m] = At("generation_cas", plan)]
      /\ UNCHANGED <<registrations, maxNodes, initialNodes, generation>>
  BY <1>3 DEF PublishPlanCas, SetCall
<1>5. /\ \A g \in Gens : plans'[g] = IF g = g0 THEN plan ELSE plans[g]
      /\ \A k \in Managers :
           call'[k] = IF k = m THEN At("generation_cas", plan) ELSE call[k]
  BY <1>2, <1>4 DEF StoreInv, TypeOK
<1>6. TypeOK'
  BY <1>2, <1>4 DEF StoreInv, TypeOK, At, CallPoints
<1>7. KeysKept
  BY <1>4, <1>5 DEF KeysKept, StoreInv, TypeOK, Gens
<1>8. \A q \in Plan : Extends(q) => Extends(q)'
  BY <1>6, <1>7, ExtendsKept DEF StoreInv
<1>9. plans'[0] = None /\ InitialIsDistinct'
  BY <1>2, <1>4, <1>5 DEF StoreInv, InitialIsDistinct, Gens
<1>10. CommittedGenerationsHavePlans'
  BY <1>3, <1>4, <1>5 DEF StoreInv, CommittedGenerationsHavePlans, TypeOK, Gens
<1>11. StoredPlans'
  <2> SUFFICES ASSUME NEW g \in 1 .. MaxGen, plans'[g] # None
               PROVE  To(plans'[g]) = g /\ Extends(plans[g])'
    BY DEF StoredPlans
  <2>1. CASE g = g0
    <3>1. plans'[g] = plan /\ plan \in Plan /\ To(plan) = g /\ Extends(plan)
      BY <1>2, <1>5, <2>1
    <3>2. PICK q \in Plan : plans'[g] = q /\ To(q) = g /\ Extends(q)'
      BY <1>8, <3>1
    <3> QED BY <3>2 DEF Extends, CommittedPlacement
  <2>2. CASE g # g0
    <3>1. plans'[g] = plans[g] /\ plans[g] \in Plan /\ To(plans[g]) = g /\ Extends(plans[g])
      BY <1>5, <2>2 DEF StoreInv, StoredPlans, TypeOK, Gens
    <3>2. PICK q \in Plan : plans'[g] = q /\ To(q) = g /\ Extends(q)'
      BY <1>8, <3>1
    <3> QED BY <3>2 DEF Extends, CommittedPlacement
  <2> QED BY <2>1, <2>2
<1>12. CarriedPlans'
  <2> SUFFICES ASSUME NEW k \in Managers, call'[k].pc # "idle"
               PROVE  /\ Extends(call[k].plan)'
                      /\ call'[k].pc \in {"generation_cas", "returned"} =>
                           plans'[To(call'[k].plan)] = call'[k].plan
    BY DEF CarriedPlans
  <2>1. \E q \in Plan :
          /\ call'[k].plan = q
          /\ Extends(q)
          /\ call'[k].pc \in {"generation_cas", "returned"} => plans'[To(q)] = q
    <3>1. CASE k = m
      BY <1>2, <1>5, <3>1 DEF At
    <3>2. CASE k # m
      <4>1. call'[k] = call[k] /\ call[k].pc # "idle"
        BY <1>5, <3>2
      <4>2. call[k].plan \in Plan /\ To(call[k].plan) \in Gens /\ Extends(call[k].plan)
        BY <4>1, CallType DEF StoreInv, CarriedPlans
      <4>3. call[k].pc \in {"generation_cas", "returned"} =>
              plans'[To(call[k].plan)] = call[k].plan
        BY <1>5, <4>1, <4>2, <1>1 DEF StoreInv, CarriedPlans
      <4> QED BY <4>1, <4>2, <4>3
    <3> QED BY <3>1, <3>2
  <2>2. PICK q \in Plan :
          /\ call'[k].plan = q
          /\ Extends(q)'
          /\ call'[k].pc \in {"generation_cas", "returned"} => plans'[To(q)] = q
    BY <1>8, <2>1
  <2> QED BY <2>2 DEF Extends, CommittedPlacement
<1>13. ReturnedIsCommitted'
  <2> SUFFICES ASSUME NEW k \in Managers, call'[k].pc = "returned"
               PROVE  /\ plans'[To(call'[k].plan)] = call'[k].plan
                      /\ To(call'[k].plan) <= generation'
    BY DEF ReturnedIsCommitted
  <2>1. k # m /\ call'[k] = call[k]
    BY <1>5 DEF At
  <2> QED BY <1>4, <1>12, <2>1 DEF CarriedPlans, StoreInv, ReturnedIsCommitted
<1> QED BY <1>6, <1>9, <1>10, <1>11, <1>12, <1>13 DEF StoreInv

(* publish's compare_set of the plan key, every outcome. *)
LEMMA PlanCasStep ==
  ASSUME StoreInv, NEW m \in Managers, PublishPlanCas(m)
  PROVE  StoreInv'
<1> DEFINE plan == call[m].plan
<1>1. call[m].pc # "idle" /\ call[m].pc = "plan_cas"
  BY DEF PublishPlanCas
<1>2. plan \in Plan /\ Extends(plan)
  BY <1>1, CallType DEF StoreInv, CarriedPlans
<1>3. CASE plans[To(plan)] = None
  BY <1>3, PlanWriteStep
<1>4. CASE plans[To(plan)] = plan /\ plans[To(plan)] # None
  <2>1. CallIsSound(At("generation_cas", plan))
    BY <1>2, <1>4 DEF CallIsSound, At, CallPoints
  <2>2. call' = [call EXCEPT ![m] = At("generation_cas", plan)] /\ UNCHANGED storeVars
    BY <1>4 DEF PublishPlanCas, SetCall, storeVars
  <2> QED BY <2>1, <2>2, CallStep
<1>5. CASE plans[To(plan)] \notin {None, plan}
  <2>1. CallIsSound(Idle)
    BY DEF CallIsSound
  <2>2. call' = [call EXCEPT ![m] = Idle] /\ UNCHANGED storeVars
    BY <1>5 DEF PublishPlanCas, SetCall, storeVars
  <2> QED BY <2>1, <2>2, CallStep
<1> QED BY <1>3, <1>4, <1>5

(* publish's compare_set of the generation key, every outcome. *)
LEMMA GenerationCasStep ==
  ASSUME StoreInv, NEW m \in Managers, PublishGenerationCas(m)
  PROVE  StoreInv'
<1> USE StoreAssumption
<1> DEFINE plan == call[m].plan
           g0 == To(plan)
<1>1. call[m].pc = "generation_cas" /\ UNCHANGED <<registrations, maxNodes, initialNodes, plans>>
  BY DEF PublishGenerationCas
<1>2. plan \in Plan /\ Extends(plan) /\ g0 \in Gens \ {0} /\ plan.from = g0 - 1
  BY <1>1, CallType DEF StoreInv, CarriedPlans
<1>3. plans[g0] = plan /\ plan # None
  BY <1>1, <1>2 DEF StoreInv, CarriedPlans
<1>4. generation' = IF generation = plan.from THEN g0 ELSE generation
  BY DEF PublishGenerationCas
<1>5. /\ generation \in Gens /\ generation' \in Gens
      /\ generation' >= generation /\ generation' <= generation + 1
  BY <1>2, <1>4 DEF StoreInv, TypeOK, Gens
<1> DEFINE c == IF generation' = g0 THEN At("returned", plan) ELSE Idle
<1>6. call' = [call EXCEPT ![m] = c]
  BY DEF PublishGenerationCas, SetCall
<1>7. \A k \in Managers : call'[k] = IF k = m THEN c ELSE call[k]
  BY <1>6 DEF StoreInv, TypeOK
<1>8. TypeOK'
  BY <1>1, <1>2, <1>5, <1>6 DEF StoreInv, TypeOK, At, CallPoints
<1>9. KeysKept
  BY <1>1, <1>5 DEF KeysKept
<1>10. \A q \in Plan : Extends(q) => Extends(q)'
  BY <1>8, <1>9, ExtendsKept DEF StoreInv
<1>11. plans'[0] = None /\ InitialIsDistinct'
  BY <1>1 DEF StoreInv, InitialIsDistinct
<1>12. CommittedGenerationsHavePlans'
  <2>1. CASE generation # plan.from
    BY <1>1, <1>4, <2>1 DEF StoreInv, CommittedGenerationsHavePlans
  <2>2. CASE generation = plan.from
    <3>1. initialNodes # None
      BY <1>2, <1>5, <2>2
         DEF StoreInv, CommittedGenerationsHavePlans, Extends, CommittedPlacement, Gens
    <3> QED BY <1>1, <1>2, <1>3, <1>4, <1>5, <2>2, <3>1
            DEF StoreInv, CommittedGenerationsHavePlans, Gens
  <2> QED BY <2>1, <2>2
<1>13. StoredPlans'
  <2> SUFFICES ASSUME NEW g \in 1 .. MaxGen, plans'[g] # None
               PROVE  To(plans'[g]) = g /\ Extends(plans[g])'
    BY DEF StoredPlans
  <2>1. plans'[g] = plans[g] /\ plans[g] \in Plan /\ To(plans[g]) = g /\ Extends(plans[g])
    BY <1>1 DEF StoreInv, StoredPlans, TypeOK, Gens
  <2>2. PICK q \in Plan : plans'[g] = q /\ To(q) = g /\ Extends(q)'
    BY <1>10, <2>1
  <2> QED BY <2>2 DEF Extends, CommittedPlacement
<1>14. CarriedPlans'
  <2> SUFFICES ASSUME NEW k \in Managers, call'[k].pc # "idle"
               PROVE  /\ Extends(call[k].plan)'
                      /\ call'[k].pc \in {"generation_cas", "returned"} =>
                           plans'[To(call'[k].plan)] = call'[k].plan
    BY DEF CarriedPlans
  <2>1. \E q \in Plan :
          /\ call'[k].plan = q
          /\ Extends(q)
          /\ call'[k].pc \in {"generation_cas", "returned"} => plans'[To(q)] = q
    <3>1. CASE k = m
      BY <1>1, <1>2, <1>3, <1>7, <3>1 DEF At, Idle
    <3>2. CASE k # m
      BY <1>1, <1>7, <3>2, CallType DEF StoreInv, CarriedPlans
    <3> QED BY <3>1, <3>2
  <2>2. PICK q \in Plan :
          /\ call'[k].plan = q
          /\ Extends(q)'
          /\ call'[k].pc \in {"generation_cas", "returned"} => plans'[To(q)] = q
    BY <1>10, <2>1
  <2> QED BY <2>2 DEF Extends, CommittedPlacement
<1>15. ReturnedIsCommitted'
  <2> SUFFICES ASSUME NEW k \in Managers, call'[k].pc = "returned"
               PROVE  /\ plans'[To(call'[k].plan)] = call'[k].plan
                      /\ To(call'[k].plan) <= generation'
    BY DEF ReturnedIsCommitted
  <2>1. CASE k = m
    BY <1>1, <1>3, <1>5, <1>7, <2>1 DEF At, Idle, Gens
  <2>2. CASE k # m
    <3>1. call'[k] = call[k] /\ call[k].pc # "idle"
      BY <1>7, <2>2
    <3>2. To(call[k].plan) \in Gens
      BY <3>1, CallType DEF StoreInv
    <3> QED BY <1>1, <1>5, <3>1, <3>2 DEF StoreInv, ReturnedIsCommitted, Gens
  <2> QED BY <2>1, <2>2
<1> QED BY <1>8, <1>11, <1>12, <1>13, <1>14, <1>15 DEF StoreInv

(* Every step of the store preserves the invariant. *)
LEMMA StoreStep == StoreInv /\ [Next]_vars => StoreInv'
<1>1. StoreInv /\ UNCHANGED vars => StoreInv'
  BY DEF StoreInv, vars, TypeOK, InitialIsDistinct, CommittedGenerationsHavePlans,
         StoredPlans, CarriedPlans, ReturnedIsCommitted, Extends, CommittedPlacement
<1> QED
  BY <1>1, RegisterStep, InitialStep, BeginRestartStep, BeginReplacementStep,
     ReadGenerationStep, PlanCasStep, GenerationCasStep, CrashStep
     DEF Next

(* The inductive invariant holds in every reachable state of the store. *)
THEOREM StoreInvariant == Spec => []StoreInv
  BY StoreInit, StoreStep, PTL DEF Spec

(* The store only ever holds well-formed keys and calls. *)
THEOREM StoreTypes == Spec => []TypeOK
<1>1. StoreInv => TypeOK
  BY DEF StoreInv
<1> QED BY <1>1, StoreInvariant, PTL

(***************************************************************************)
(* No agent can read a generation without a plan, for every number of      *)
(* coordinators that race and crash.                                       *)
(***************************************************************************)
THEOREM StoreHasPlans == Spec => []CommittedGenerationsHavePlans
<1>1. StoreInv => CommittedGenerationsHavePlans
  BY DEF StoreInv
<1> QED BY <1>1, StoreInvariant, PTL

(* A publish call returns only for a plan that is committed. *)
THEOREM StoreReturns == Spec => []ReturnedIsCommitted
<1>1. StoreInv => ReturnedIsCommitted
  BY DEF StoreInv
<1> QED BY <1>1, StoreInvariant, PTL

-----------------------------------------------------------------------------
(* A step that keeps the generation and every committed placement. *)
LEMMA HistoryUnchanged ==
  ASSUME generation' = generation,
         \A g \in Gens : g <= generation => CommittedPlacement(g)' = CommittedPlacement(g)
  PROVE  UNCHANGED Log!vars
<1>1. History' = History
  BY DEF History
<1> QED BY <1>1 DEF Log!vars

(* Committing the initial nodes is the log's CommitInitial. *)
LEMMA InitialRefines ==
  ASSUME StoreInv, EnsureInitialNodes
  PROVE  Log!CommitInitial
<1> USE StoreAssumption
<1> DEFINE p == [active |-> initialNodes', quarantined |-> {}, shape |-> None]
<1>1. StoreInv'
  BY InitialStep
<1>2. initialNodes = None /\ UNCHANGED <<generation, plans>>
  BY DEF EnsureInitialNodes
<1>3. generation = 0
  BY <1>2 DEF StoreInv, CommittedGenerationsHavePlans, TypeOK, Gens
<1>4. initialNodes' \in [Slots -> Nodes] /\ initialNodes' # None
  <2>1. \A s \in Slots : s + 1 \in 1 .. Len(registrations)
    BY DEF EnsureInitialNodes, Slots, StoreInv, TypeOK
  <2> QED BY <2>1 DEF EnsureInitialNodes, StoreInv, TypeOK
<1>5. p \in Log!Placement /\ Log!DistinctSlots(p)
  BY <1>1, <1>4
     DEF Log!Placement, Log!DistinctSlots, Log!Slots, Slots, StoreInv, InitialIsDistinct
<1>6. /\ History = [g \in Gens |-> None]
      /\ History' = [g \in Gens |-> IF g = 0 THEN p ELSE None]
  BY <1>2, <1>3, <1>4 DEF History, CommittedPlacement, Gens
<1>7. History[0] = None /\ History' = [History EXCEPT ![0] = p]
  <2> HIDE DEF p
  <2>1. 0 \in Gens
    BY DEF Gens
  <2>2. [History EXCEPT ![0] = p] = [g \in Gens |-> IF g = 0 THEN p ELSE None]
    BY <1>6, <2>1
  <2> QED BY <1>6, <2>1, <2>2
<1> QED BY <1>2, <1>5, <1>7 DEF Log!CommitInitial

(* Advancing the generation key is the log's CommitSuccessor. *)
LEMMA AdvanceRefines ==
  ASSUME StoreInv, NEW m \in Managers, PublishGenerationCas(m),
         generation = call[m].plan.from
  PROVE  Log!CommitSuccessor
<1> USE StoreAssumption
<1> DEFINE plan == call[m].plan
           p == PlacementOf(plan)
<1>1. call[m].pc = "generation_cas" /\ UNCHANGED <<initialNodes, plans>>
  BY DEF PublishGenerationCas
<1>2. plan \in Plan /\ Extends(plan) /\ To(plan) \in Gens \ {0} /\ plan.from = To(plan) - 1
  BY <1>1, CallType DEF StoreInv, CarriedPlans
<1>3. plans[To(plan)] = plan /\ plan # None
  BY <1>1, <1>2 DEF StoreInv, CarriedPlans
<1>4. generation' = generation + 1 /\ To(plan) = generation + 1 /\ generation \in Gens
  BY <1>2 DEF PublishGenerationCas, StoreInv, TypeOK, Gens
<1>5. generation < MaxGen
  BY <1>2, <1>4 DEF Gens
<1>6. p \in Log!Placement
  BY <1>2, PlacementType
<1>7. \A g \in Gens : CommittedPlacement(g)' = CommittedPlacement(g)
  BY <1>1 DEF CommittedPlacement
<1>8. CommittedPlacement(generation + 1) = p
  BY <1>3, <1>4 DEF CommittedPlacement, Gens
<1>9. History[generation] = CommittedPlacement(generation)
  BY <1>4 DEF History, Gens
<1>10. History[generation] # None /\ Log!Successor(History[generation], p)
  BY <1>2, <1>9 DEF Extends
<1>11. History' = [History EXCEPT ![generation + 1] = p]
  <2> HIDE DEF p
  <2>1. History' = [g \in Gens |-> IF g <= generation + 1 THEN CommittedPlacement(g) ELSE None]
    BY <1>4, <1>7 DEF History
  <2>2. History = [g \in Gens |-> IF g <= generation THEN CommittedPlacement(g) ELSE None]
    BY DEF History
  <2>3. \A g \in Gens : History'[g] = IF g = generation + 1 THEN p ELSE History[g]
    BY <1>4, <1>8, <2>1, <2>2 DEF Gens
  <2>4. [History EXCEPT ![generation + 1] = p]
          = [g \in Gens |-> IF g = generation + 1 THEN p ELSE History[g]]
    BY <2>2
  <2>5. History' = [g \in Gens |-> History'[g]]
    BY <2>1
  <2> QED BY <2>3, <2>4, <2>5
<1> QED BY <1>4, <1>5, <1>6, <1>10, <1>11 DEF Log!CommitSuccessor

(* Writing a plan key shows readers nothing yet. *)
LEMMA PlanCasRefines ==
  ASSUME StoreInv, NEW m \in Managers, PublishPlanCas(m)
  PROVE  UNCHANGED Log!vars
<1> USE StoreAssumption
<1> DEFINE plan == call[m].plan
<1>1. UNCHANGED <<generation, initialNodes>>
  BY DEF PublishPlanCas
<1>2. To(plan) \in Gens \ {0}
  BY CallType DEF StoreInv, PublishPlanCas
<1>3. \/ UNCHANGED plans
      \/ plans[To(plan)] = None /\ plans' = [plans EXCEPT ![To(plan)] = plan]
  BY DEF PublishPlanCas
<1>4. ASSUME NEW g \in Gens, g <= generation
      PROVE  CommittedPlacement(g)' = CommittedPlacement(g)
  <2>1. g # 0 => plans'[g] = plans[g]
    <3>1. g # 0 => plans[g] # None
      BY <1>4 DEF StoreInv, CommittedGenerationsHavePlans, Gens
    <3> QED BY <1>2, <1>3, <3>1 DEF StoreInv, TypeOK, Gens
  <2> QED BY <1>1, <2>1 DEF CommittedPlacement
<1> QED BY <1>1, <1>4, HistoryUnchanged

(* Every step of the store is a step of the log or a stutter. *)
LEMMA StoreStepRefines == StoreInv /\ [Next]_vars => [Log!Next]_(Log!vars)
<1> SUFFICES ASSUME StoreInv, [Next]_vars PROVE [Log!Next]_(Log!vars)
  OBVIOUS
<1>1. ASSUME UNCHANGED <<initialNodes, generation, plans>> PROVE UNCHANGED Log!vars
  BY <1>1, HistoryUnchanged DEF CommittedPlacement
<1>2. CASE EnsureInitialNodes
  BY <1>2, InitialRefines DEF Log!Next
<1>3. ASSUME NEW m \in Managers, PublishGenerationCas(m)
      PROVE  [Log!Next]_(Log!vars)
  <2>1. CASE generation = call[m].plan.from
    BY <1>3, <2>1, AdvanceRefines DEF Log!Next
  <2>2. CASE generation # call[m].plan.from
    BY <1>1, <1>3, <2>2 DEF PublishGenerationCas
  <2> QED BY <2>1, <2>2
<1>4. ASSUME NEW m \in Managers, PublishPlanCas(m) PROVE UNCHANGED Log!vars
  BY <1>4, PlanCasRefines
<1>5. CASE /\ ~EnsureInitialNodes
           /\ \A m \in Managers : ~PublishGenerationCas(m) /\ ~PublishPlanCas(m)
  <2>1. UNCHANGED <<initialNodes, generation, plans>>
    BY <1>5 DEF Next, vars, storeVars, RegisterNode, BeginRestart, BeginReplacement,
                PublishReadGeneration, Crash
  <2> QED BY <1>1, <2>1
<1> QED BY <1>2, <1>3, <1>4, <1>5

(***************************************************************************)
(* The store implements the generation log: coordinators that race, retry  *)
(* and crash between any two store operations still decide generation      *)
(* after generation, each once and from the one before it.                 *)
(***************************************************************************)
THEOREM StoreImplementsLog == Spec => ImplementsLog
<1>1. Init => Log!Init
  BY StoreAssumption
     DEF Init, Log!Init, Log!Gens, Gens, History, CommittedPlacement
<1> QED BY <1>1, StoreInvariant, StoreStepRefines, PTL DEF Spec, ImplementsLog, Log!Spec

-----------------------------------------------------------------------------
(* What the log promises, from the log's own steps alone.                  *)

(* Nothing is committed beyond the current generation. *)
NothingAhead == \A g \in Log!Gens : g > generation => History[g] = None

(* No gap: generation g - 1 is committed before generation g. *)
NoGap == \A g \in 1 .. generation : History[0] # None /\ History[g] # None

(* The quarantine history only grows. *)
QuarantineHistoryGrows ==
  \A g, h \in Log!Gens :
    g <= h /\ History[g] # None /\ History[h] # None =>
      History[g].quarantined \subseteq History[h].quarantined

LogInv ==
  /\ Log!TypeOK
  /\ NothingAhead
  /\ NoGap
  /\ QuarantineHistoryGrows
  /\ Log!QuarantineIsForever

(* The initial state, in which nothing is committed, satisfies LogInv. *)
LEMMA LogInit == Log!ConstantsOK /\ Log!Init => LogInv
  BY DEF Log!ConstantsOK, Log!Init, LogInv, Log!TypeOK, NothingAhead, NoGap, QuarantineHistoryGrows,
         Log!QuarantineIsForever, Log!Gens

(***************************************************************************)
(* What a successor placement does to an old one it extends: it keeps one  *)
(* node per slot, quarantines at least as much, and assigns no node that   *)
(* either placement quarantines.                                           *)
(***************************************************************************)
LEMMA SuccessorSafe ==
  ASSUME NEW old \in Log!Placement, NEW new \in Log!Placement,
         Log!Successor(old, new),
         Log!DistinctSlots(old),
         old.quarantined \cap Log!ActiveNodes(old) = {}
  PROVE  /\ Log!DistinctSlots(new)
         /\ old.quarantined \subseteq new.quarantined
         /\ new.quarantined \cap Log!ActiveNodes(new) = {}
<1>1. CASE Log!SameNodes(old, new)
  BY <1>1 DEF Log!SameNodes, Log!DistinctSlots, Log!ActiveNodes
<1>2. CASE \E s \in Log!Slots, r \in Nodes : Log!Replaces(old, new, s, r)
  <2>1. PICK s \in Log!Slots, r \in Nodes : Log!Replaces(old, new, s, r)
    BY <1>2
  <2>2. \A t \in Log!Slots : new.active[t] = IF t = s THEN r ELSE old.active[t]
    BY <2>1 DEF Log!Replaces, Log!Placement
  <2>3. \A t \in Log!Slots : old.active[t] # r
    BY <2>1 DEF Log!Replaces, Log!ActiveNodes
  <2>4. Log!DistinctSlots(new)
    BY <2>2, <2>3 DEF Log!DistinctSlots
  <2>5. ASSUME NEW t \in Log!Slots PROVE new.active[t] \notin new.quarantined
    <3>1. CASE t = s
      BY <2>1, <2>2, <2>3, <3>1 DEF Log!Replaces
    <3>2. CASE t # s
      BY <2>1, <2>2, <3>2 DEF Log!Replaces, Log!DistinctSlots, Log!ActiveNodes
    <3> QED BY <3>1, <3>2
  <2> QED BY <2>1, <2>4, <2>5 DEF Log!Replaces, Log!ActiveNodes
<1> QED BY <1>1, <1>2 DEF Log!Successor

(* Committing the initial assignment preserves LogInv. *)
LEMMA LogInitialStep == Log!ConstantsOK /\ LogInv /\ Log!CommitInitial => LogInv'
<1> SUFFICES ASSUME Log!ConstantsOK, LogInv, Log!CommitInitial PROVE LogInv'
  OBVIOUS
<1> USE DEF Log!ConstantsOK, Log!Gens
<1>1. PICK p \in Log!Placement :
        /\ Log!DistinctSlots(p)
        /\ p.quarantined = {}
        /\ History' = [History EXCEPT ![0] = p]
  BY DEF Log!CommitInitial
<1>2. generation' = generation /\ History[0] = None
  BY DEF Log!CommitInitial
<1>3. generation = 0
  BY <1>2 DEF LogInv, NoGap, Log!TypeOK
<1>4. \A g \in Log!Gens : History'[g] = IF g = 0 THEN p ELSE None
  BY <1>1, <1>3 DEF LogInv, NothingAhead, Log!TypeOK
<1>5. Log!TypeOK'
  BY <1>1, <1>2 DEF LogInv, Log!TypeOK
<1>6. NothingAhead' /\ NoGap'
  BY <1>2, <1>3, <1>4 DEF NothingAhead, NoGap
<1>7. QuarantineHistoryGrows'
  BY <1>4 DEF QuarantineHistoryGrows
<1>8. Log!QuarantineIsForever'
  BY <1>1, <1>4 DEF Log!QuarantineIsForever
<1> QED BY <1>5, <1>6, <1>7, <1>8 DEF LogInv

(* Committing a successor preserves LogInv. *)
LEMMA LogSuccessorStep == Log!ConstantsOK /\ LogInv /\ Log!CommitSuccessor => LogInv'
<1> SUFFICES ASSUME Log!ConstantsOK, LogInv, Log!CommitSuccessor PROVE LogInv'
  OBVIOUS
<1> USE DEF Log!ConstantsOK, Log!Gens
<1> DEFINE old == History[generation]
           next == generation + 1
<1>1. PICK p \in Log!Placement :
        /\ Log!Successor(old, p)
        /\ History' = [History EXCEPT ![next] = p]
  BY DEF Log!CommitSuccessor
<1>2. generation' = next /\ next \in Log!Gens /\ generation \in Log!Gens /\ old # None
  BY DEF Log!CommitSuccessor, LogInv, Log!TypeOK
<1>3. old \in Log!Placement
  BY <1>2 DEF LogInv, Log!TypeOK
<1>4. Log!DistinctSlots(old) /\ old.quarantined \cap Log!ActiveNodes(old) = {}
  BY <1>2 DEF LogInv, Log!QuarantineIsForever
<1>5. /\ Log!DistinctSlots(p)
      /\ old.quarantined \subseteq p.quarantined
      /\ p.quarantined \cap Log!ActiveNodes(p) = {}
  BY <1>1, <1>3, <1>4, SuccessorSafe
<1>6. \A g \in Log!Gens : History'[g] = IF g = next THEN p ELSE History[g]
  BY <1>1, <1>2 DEF LogInv, Log!TypeOK
<1>7. \A g \in Log!Gens : History[g] # None => g <= generation
  BY DEF LogInv, NothingAhead, Log!TypeOK
<1>8. ASSUME NEW g \in Log!Gens, History[g] # None
      PROVE  History[g].quarantined \subseteq old.quarantined
  BY <1>2, <1>7, <1>8 DEF LogInv, QuarantineHistoryGrows
<1>9. Log!TypeOK'
  BY <1>1, <1>2 DEF LogInv, Log!TypeOK
<1>10. NothingAhead'
  BY <1>2, <1>6 DEF LogInv, NothingAhead, Log!TypeOK
<1>11. NoGap'
  <2>1. History[0] # None /\ History'[0] # None
    BY <1>2, <1>6 DEF LogInv, NoGap, Log!TypeOK
  <2> QED BY <2>1, <1>2, <1>6 DEF LogInv, NoGap, Log!TypeOK
<1>12. QuarantineHistoryGrows'
  <2> SUFFICES ASSUME NEW g \in Log!Gens, NEW h \in Log!Gens,
                      g <= h, History'[g] # None, History'[h] # None
               PROVE  History'[g].quarantined \subseteq History'[h].quarantined
    BY DEF QuarantineHistoryGrows
  <2>1. CASE g = next
    BY <2>1, <1>2, <1>6, <1>7
  <2>2. CASE g # next /\ h = next
    BY <2>2, <1>5, <1>6, <1>8
  <2>3. CASE g # next /\ h # next
    BY <2>3, <1>6 DEF LogInv, QuarantineHistoryGrows
  <2> QED BY <2>1, <2>2, <2>3
<1>13. Log!QuarantineIsForever'
  <2> SUFFICES ASSUME NEW g \in Log!Gens, NEW h \in Log!Gens,
                      g <= h, History'[g] # None, History'[h] # None
               PROVE  /\ Log!DistinctSlots(History'[h])
                      /\ History'[g].quarantined \cap Log!ActiveNodes(History'[h]) = {}
    BY DEF Log!QuarantineIsForever
  <2>1. CASE g = next
    BY <2>1, <1>2, <1>5, <1>6, <1>7
  <2>2. CASE g # next /\ h = next
    BY <2>2, <1>5, <1>6, <1>8
  <2>3. CASE g # next /\ h # next
    BY <2>3, <1>6 DEF LogInv, Log!QuarantineIsForever
  <2> QED BY <2>1, <2>2, <2>3
<1> QED BY <1>9, <1>10, <1>11, <1>12, <1>13 DEF LogInv

(***************************************************************************)
(* In every behaviour of the log a quarantined node is assigned by no      *)
(* later generation.                                                       *)
(***************************************************************************)
THEOREM LogQuarantine ==
  ASSUME Log!ConstantsOK
  PROVE  Log!Spec => []Log!QuarantineIsForever
<1>1. Log!Init => LogInv
  BY LogInit
<1>2. LogInv /\ [Log!Next]_(Log!vars) => LogInv'
  <2>1. LogInv /\ UNCHANGED Log!vars => LogInv'
    BY DEF LogInv, Log!TypeOK, NothingAhead, NoGap, QuarantineHistoryGrows,
           Log!QuarantineIsForever, Log!vars
  <2> QED BY <2>1, LogInitialStep, LogSuccessorStep DEF Log!Next
<1>3. LogInv => Log!QuarantineIsForever
  BY DEF LogInv
<1> QED BY <1>1, <1>2, <1>3, PTL DEF Log!Spec

(***************************************************************************)
(* The promise of the log holds of the store: no coordinator, however it   *)
(* races or retries, gets a quarantined node assigned again.               *)
(***************************************************************************)
THEOREM StoreQuarantine == Spec => []QuarantineIsForever
<1>1. Log!ConstantsOK
  BY StoreAssumption DEF Log!ConstantsOK, Log!Placement, Slots, Log!Slots
<1>2. Log!Spec => []Log!QuarantineIsForever
  BY <1>1, LogQuarantine
<1> QED BY <1>2, StoreImplementsLog, PTL DEF ImplementsLog, QuarantineIsForever
=============================================================================
