---------------------------- MODULE RendezvousProof ----------------------------
(***************************************************************************)
(* The rendezvous of the torchrun agents, for every set of nodes, number   *)
(* of slots, bound on generations and set of worker policies: the group    *)
(* barrier keeps generations apart, workers run where they are assigned    *)
(* and with their own restart context, and what happens to the store is a  *)
(* behaviour of the generation log.                                        *)
(*                                                                         *)
(* The inductive invariant says of every agent what it has seen on its way *)
(* through next_rendezvous, and of a ready record that its agent has not   *)
(* gone back to an older generation since it wrote it.                     *)
(*                                                                         *)
(* The last part is about the workers the agents start (WorkerAttach): the *)
(* ranks that train together use the same framework integration.           *)
(***************************************************************************)
EXTENDS Rendezvous, Attachment, TLAPS

(* The places of an agent that has a generation in hand, of one that the   *)
(* generation assigns a slot, and of one that has left the group barrier.  *)
Trying == {"assign", "lease", "ready", "group", "bootstrap", "context", "joined"}
Selected == Trying \ {"assign"}
Member == {"bootstrap", "context", "joined"}

(* Generations are committed one after the other.                          *)
LogIsDense ==
  /\ \A g \in Gens : g > generation => history[g] = None
  /\ \A g \in 1 .. generation : history[0] # None /\ history[g] # None

ReadyIsCommitted == \A g \in Gens : ready[g] # {} => g <= generation

(* The agent of node n does not know a generation that is not committed,   *)
(* has a slot where it believes to have one, and waits for a plan lease    *)
(* only where there is a plan.                                             *)
KnowsItsSlot(n) ==
  /\ gen[n] <= generation
  /\ pc[n] = "lease" => gen[n] > 0
  /\ pc[n] \in Selected => history[gen[n]] # None /\ n \in Active(gen[n])

(* The ready records of an agent are not of a later generation than the    *)
(* one it tries or has joined.                                             *)
IsNotBehindItsRecords(n) ==
  pc[n] \in Trying => \A g \in Gens : n \in ready[g] => g <= gen[n]

(* The barrier has opened for a member.                                    *)
HasMetItsGroup(n) == pc[n] \in Member => GroupIsReady(n) /\ SamePolicy(n)

RunsOnceJoined(n) == running[n] = IF pc[n] = "joined" THEN gen[n] ELSE -1

(* A stale restart context is gone before generation 0 is joined, and a    *)
(* later generation has put its own in place.                              *)
HasItsContext(n) ==
  /\ pc[n] \in Selected /\ gen[n] = 0 => context[n] = -1
  /\ pc[n] = "joined" /\ gen[n] > 0 => context[n] = gen[n]

AgentInv(n) ==
  /\ KnowsItsSlot(n)
  /\ IsNotBehindItsRecords(n)
  /\ HasMetItsGroup(n)
  /\ RunsOnceJoined(n)
  /\ HasItsContext(n)

RendezvousInv ==
  /\ TypeOK
  /\ LogIsDense
  /\ ReadyIsCommitted
  /\ \A n \in Nodes : AgentInv(n)

-----------------------------------------------------------------------------
(* The sets of GenerationLog are those of Rendezvous.                      *)
LEMMA SameSets == Log!Gens = Gens /\ Log!Slots = Slots
  BY DEF Log!Gens, Gens, Log!Slots, Slots

(* What an action leaves alone: the agents other than n.                   *)
OthersKept(n) ==
  \A m \in Nodes \ {n} :
    /\ pc'[m] = pc[m] /\ gen'[m] = gen[m]
    /\ running'[m] = running[m] /\ context'[m] = context[m]

(* The log only grows, and at its end.                                     *)
LogKept ==
  /\ generation <= generation'
  /\ \A g \in Gens : history[g] # None => history'[g] = history[g]

(***************************************************************************)
(* An agent that does not move keeps its part of the invariant, while      *)
(* generations are committed and other agents write ready records.         *)
(***************************************************************************)
LEMMA AgentAtRest ==
  ASSUME RendezvousInv, TypeOK', LogKept, policy' = policy,
         NEW m \in Nodes,
         pc'[m] = pc[m], gen'[m] = gen[m], running'[m] = running[m],
         context'[m] = context[m],
         \A g \in Gens : ready[g] \subseteq ready'[g] /\ (m \in ready'[g] => m \in ready[g])
  PROVE  AgentInv(m)'
<1>1. AgentInv(m) /\ gen[m] \in Gens
  BY DEF RendezvousInv, TypeOK
<1>2. generation \in Nat /\ generation' \in Nat /\ gen[m] \in Nat
  BY <1>1, RendezvousAssumption, SameSets
     DEF TypeOK, Log!TypeOK, Gens, RendezvousInv, Log!ConstantsOK
<1>3. KnowsItsSlot(m)'
  <2>1. gen'[m] <= generation'
    BY <1>1, <1>2 DEF AgentInv, KnowsItsSlot, LogKept
  <2>2. pc'[m] = "lease" => gen'[m] > 0
    BY <1>1 DEF AgentInv, KnowsItsSlot
  <2>3. pc'[m] \in Selected => history'[gen'[m]] # None /\ m \in Active(gen[m])'
    BY <1>1 DEF AgentInv, KnowsItsSlot, LogKept, Active
  <2> QED BY <2>1, <2>2, <2>3 DEF KnowsItsSlot, Active
<1>4. IsNotBehindItsRecords(m)'
  BY <1>1 DEF AgentInv, IsNotBehindItsRecords
<1>5. HasMetItsGroup(m)'
  <2> SUFFICES ASSUME pc[m] \in Member PROVE GroupIsReady(m)' /\ SamePolicy(m)'
    BY DEF HasMetItsGroup
  <2>1. history'[gen[m]] = history[gen[m]]
    BY <1>1 DEF AgentInv, KnowsItsSlot, LogKept, Member, Selected, Trying
  <2> QED BY <1>1, <2>1 DEF AgentInv, HasMetItsGroup, GroupIsReady, SamePolicy, Active
<1>6. RunsOnceJoined(m)' /\ HasItsContext(m)'
  BY <1>1 DEF AgentInv, RunsOnceJoined, HasItsContext
<1> QED BY <1>3, <1>4, <1>5, <1>6 DEF AgentInv

-----------------------------------------------------------------------------
(* What TypeOK says of the log.                                            *)
LEMMA LogTypes ==
  ASSUME TypeOK
  PROVE  /\ NumSlots \in Nat \ {0} /\ MaxGen \in Nat
         /\ generation \in Gens
         /\ history \in [Gens -> Log!Placement \cup {None}]
  BY RendezvousAssumption, SameSets DEF TypeOK, Log!TypeOK, Log!ConstantsOK

(* A look at a lease leaves a record of it.                                *)
LEMMA LookedType ==
  ASSUME TypeOK, NEW n \in Nodes, NEW g \in Gens
  PROVE  Looked(n, g) \in [gen : Gens \cup {-1}, live : BOOLEAN, newer : BOOLEAN]
  BY DEF TypeOK, Looked

(* The first registered nodes make a placement for generation 0.           *)
LEMMA InitialPlacementType ==
  ASSUME TypeOK, Decodable(registrations), Len(registrations) >= NumSlots
  PROVE  /\ InitialPlacement \in Log!Placement
         /\ Log!DistinctSlots(InitialPlacement)
         /\ InitialPlacement.quarantined = {} /\ InitialPlacement.shape = None
<1>1. \A s \in Slots : s + 1 \in 1 .. Len(registrations) /\ registrations[s + 1] \in Nodes
  BY LogTypes DEF TypeOK, Slots
<1>2. InitialPlacement \in Log!Placement
  BY <1>1, SameSets DEF InitialPlacement, Log!Placement
<1>3. Log!DistinctSlots(InitialPlacement)
  BY <1>1, LogTypes, SameSets DEF Log!DistinctSlots, InitialPlacement, Decodable, Slots
<1> QED BY <1>2, <1>3 DEF InitialPlacement

(* Keeping the store, an agent's action keeps the types of its variables.  *)
LEMMA StopsTypes ==
  ASSUME TypeOK, NEW n \in Nodes, Stops(n), UNCHANGED <<logVars, storeVars, policy>>
  PROVE  TypeOK'
<1>1. Gens \cup {-1} # {} /\ 0 \in Gens
  BY LogTypes DEF Gens
<1> QED
  BY <1>1 DEF TypeOK, Log!TypeOK, Stops, Goto, Unseen, Places, logVars, storeVars
(***************************************************************************)
(* What the manager commits is a successor, in the sense of the log, of    *)
(* the placement that was committed last.                                  *)
(***************************************************************************)
CommitsSuccessor ==
  /\ generation < MaxGen
  /\ history[generation] # None
  /\ \E p \in Log!Placement : Log!Successor(history[generation], p) /\ Commit(p)

LEMMA RestartCommits ==
  ASSUME TypeOK, NEW sh \in Shapes, CommitRestart(sh)
  PROVE  CommitsSuccessor
<1> DEFINE old == history[generation]
           new == [old EXCEPT !.shape = sh]
<1>1. old \in Log!Placement
  BY LogTypes DEF CommitRestart
<1>2. new \in Log!Placement
  BY <1>1 DEF Log!Placement
<1>3. Log!Successor(old, new)
  BY <1>1 DEF CommitRestart, Log!Placement, Log!Successor, Log!KeepsShape, Log!SameNodes
<1> QED BY <1>2, <1>3 DEF CommitRestart, CommitsSuccessor

LEMMA ReplacementCommits ==
  ASSUME TypeOK, NEW sh \in Shapes, NEW s \in Slots, NEW r \in Nodes,
         CommitReplacement(sh, s, r)
  PROVE  CommitsSuccessor
<1> DEFINE old == history[generation]
           new == [active |-> [old.active EXCEPT ![s] = r],
                   quarantined |-> old.quarantined \cup {old.active[s]},
                   shape |-> sh]
<1>1. old \in Log!Placement
  BY LogTypes DEF CommitReplacement
<1>2. old.active \in [Slots -> Nodes] /\ old.quarantined \subseteq Nodes
  BY <1>1, SameSets DEF Log!Placement
<1>3. new \in Log!Placement
  BY <1>2, SameSets DEF Log!Placement
<1>4. Log!KeepsShape(old, new)
  BY DEF CommitReplacement, Log!KeepsShape
<1>5. Log!Replaces(old, new, s, r)
  BY DEF CommitReplacement, Log!Replaces, Active
<1>6. Log!Successor(old, new)
  BY <1>4, <1>5, SameSets DEF Log!Successor
<1> QED BY <1>3, <1>6 DEF CommitReplacement, CommitsSuccessor

(* Neither does any other step change a type.                              *)
LEMMA TypeStep == TypeOK /\ [Next]_vars => TypeOK'
<1> SUFFICES ASSUME TypeOK, [Next]_vars PROVE TypeOK'
  OBVIOUS
<1> USE DEF logVars, storeVars, Goto, Again
<1>0. 0 \in Gens
  BY LogTypes DEF Gens
<1>1. policy' = policy
  BY DEF Next, vars
<1>2. ASSUME NEW n \in Nodes, Construct(n) PROVE TypeOK'
  <2>1. registrations' \in Seq(Nodes)
    BY <1>2 DEF Construct, TypeOK
  <2> QED BY <1>1, <1>2, <2>1 DEF Construct, TypeOK, Log!TypeOK, Places
<1>3. ASSUME NEW n \in Nodes,
             \/ AssignCorrupt(n) \/ GroupLeaseElapsed(n) \/ GroupPolicyConflict(n)
             \/ ContextLeaseElapsed(n) \/ ExitClosed(n) \/ Timeout(n) \/ AgentFailure(n)
      PROVE  TypeOK'
  BY <1>1, <1>3, StopsTypes
     DEF AssignCorrupt, GroupLeaseElapsed, GroupPolicyConflict, ContextLeaseElapsed,
         ExitClosed, Timeout, AgentFailure
<1>4. ASSUME NEW n \in Nodes,
             \/ ReadGeneration(n) \/ AssignTooFew(n) \/ AssignFromPlan(n)
             \/ GenerationMoved(n)
      PROVE  TypeOK'
  <2>1. CASE ReadGeneration(n)
    BY <1>1, <2>1, LogTypes DEF ReadGeneration, TypeOK, Log!TypeOK, Places
  <2>2. CASE AssignTooFew(n)
    BY <1>0, <1>1, <2>2 DEF AssignTooFew, TypeOK, Log!TypeOK, Places
  <2>3. CASE AssignFromPlan(n)
    BY <1>0, <1>1, <2>3 DEF AssignFromPlan, TypeOK, Log!TypeOK, Places
  <2>4. CASE GenerationMoved(n)
    BY <1>0, <1>1, <2>4 DEF GenerationMoved, TypeOK, Log!TypeOK, Places
  <2> QED BY <1>4, <2>1, <2>2, <2>3, <2>4
<1>5. ASSUME NEW n \in Nodes, AssignInitial(n) PROVE TypeOK'
  <2>1. InitialPlacement \in Log!Placement
    BY <1>5, InitialPlacementType DEF AssignInitial
  <2>2. history' \in [Gens -> Log!Placement \cup {None}] /\ generation' \in Gens
    BY <1>0, <1>5, <2>1, LogTypes DEF AssignInitial
  <2>3. Log!TypeOK'
    BY <2>2, SameSets DEF Log!TypeOK
  <2>4. pc' \in [Nodes -> Places]
    <3>1. Goto(n, "ready") \/ Goto(n, "loop")
      BY <1>5 DEF AssignInitial
    <3> QED BY <3>1 DEF TypeOK, Places
  <2>5. context' \in [Nodes -> Gens \cup {-1}]
    BY <1>5 DEF AssignInitial, TypeOK
  <2> QED BY <1>1, <1>5, <2>3, <2>4, <2>5 DEF AssignInitial, TypeOK
<1>6. ASSUME NEW n \in Nodes, WaitForPlanLease(n) PROVE TypeOK'
  <2>1. gen[n] \in Gens
    BY DEF TypeOK
  <2> QED BY <1>1, <1>6, <2>1, LookedType
          DEF WaitForPlanLease, Look, TypeOK, Log!TypeOK, Places
<1>7. ASSUME NEW n \in Nodes, SetReady(n) PROVE TypeOK'
  BY <1>1, <1>7 DEF SetReady, TypeOK, Log!TypeOK, Places
<1>8. ASSUME NEW n \in Nodes, GroupComplete(n) \/ Join(n) PROVE TypeOK'
  <2>1. gen[n] \in Gens
    BY DEF TypeOK
  <2>2. lease' \in [Nodes -> [gen : Gens \cup {-1}, live : BOOLEAN, newer : BOOLEAN]]
    BY <1>8, <2>1, LookedType DEF GroupComplete, Join, CheckLease, Look, TypeOK
  <2>3. CASE GroupComplete(n)
    BY <1>1, <2>1, <2>2, <2>3 DEF GroupComplete, TypeOK, Log!TypeOK, Places
  <2>4. CASE Join(n)
    BY <1>1, <2>1, <2>2, <2>4 DEF Join, TypeOK, Log!TypeOK, Places
  <2> QED BY <1>8, <2>3, <2>4
<1>9. ASSUME NEW n \in Nodes, BuildBootstrap(n) PROVE TypeOK'
  BY <1>1, <1>9 DEF BuildBootstrap, TypeOK, Log!TypeOK, Places
<1>10. ASSUME NEW n \in Nodes, MembershipChange(n) \/ MembershipPoll(n) PROVE TypeOK'
  <2>1. lease' \in [Nodes -> [gen : Gens \cup {-1}, live : BOOLEAN, newer : BOOLEAN]]
    BY <1>10, LookedType, LogTypes DEF MembershipChange, MembershipPoll, Look, TypeOK
  <2>2. CASE MembershipChange(n)
    BY <1>0, <1>1, <2>1, <2>2 DEF MembershipChange, TypeOK, Log!TypeOK, Places
  <2>3. CASE MembershipPoll(n)
    BY <1>1, <2>1, <2>3 DEF MembershipPoll, TypeOK, Log!TypeOK, Places
  <2> QED BY <1>10, <2>2, <2>3
<1>11. ASSUME NEW n \in Nodes, WorkerFailure(n) \/ Lapse(n) PROVE TypeOK'
  <2>1. CASE WorkerFailure(n)
    BY <1>0, <1>1, <2>1 DEF WorkerFailure, TypeOK, Log!TypeOK, Places
  <2>2. CASE Lapse(n)
    BY <1>1, <2>2 DEF Lapse, TypeOK, Log!TypeOK
  <2> QED BY <1>11, <2>1, <2>2
<1>12. ASSUME NEW p \in Log!Placement, generation < MaxGen, Commit(p) PROVE TypeOK'
  <2>1. generation' \in Gens /\ history' \in [Gens -> Log!Placement \cup {None}]
    BY <1>12, LogTypes DEF Commit, Gens
  <2>2. 1 .. generation \subseteq 1 .. generation'
    BY <1>12, LogTypes DEF Commit, Gens
  <2> QED BY <1>1, <1>12, <2>1, <2>2, SameSets
          DEF Commit, agentVars, TypeOK, Log!TypeOK
<1>13. ASSUME NEW g \in Gens, RenewLease(g) \/ EndLease(g) PROVE TypeOK'
  <2>1. lease' \in [Nodes -> [gen : Gens \cup {-1}, live : BOOLEAN, newer : BOOLEAN]]
    <3>1. lease' = [n \in Nodes |->
                     IF lease[n].gen = g THEN [lease[n] EXCEPT !.newer = TRUE] ELSE lease[n]]
      BY <1>13 DEF RenewLease, EndLease
    <3>2. ASSUME NEW n \in Nodes
          PROVE  lease'[n] \in [gen : Gens \cup {-1}, live : BOOLEAN, newer : BOOLEAN]
      <4>1. lease[n] \in [gen : Gens \cup {-1}, live : BOOLEAN, newer : BOOLEAN]
        BY DEF TypeOK
      <4> QED BY <3>1, <4>1
    <3> QED BY <3>1, <3>2
  <2>2. published' \subseteq 1 .. generation /\ ended' \subseteq published'
    BY <1>13 DEF RenewLease, EndLease, TypeOK
  <2> QED BY <1>1, <1>13, <2>1, <2>2 DEF RenewLease, EndLease, TypeOK, Log!TypeOK
<1>14. CASE CloseRun
  BY <1>1, <1>14 DEF CloseRun, agentVars, TypeOK, Log!TypeOK
<1>15. CASE UNCHANGED vars
  BY <1>15 DEF vars, moving, agentVars, TypeOK, Log!TypeOK
<1>16. ASSUME NEW sh \in Shapes, CommitRestart(sh) PROVE TypeOK'
  BY <1>12, <1>16, RestartCommits DEF CommitsSuccessor
<1>17. ASSUME NEW sh \in Shapes, NEW s \in Slots, NEW r \in Nodes, CommitReplacement(sh, s, r)
       PROVE  TypeOK'
  BY <1>12, <1>17, ReplacementCommits DEF CommitsSuccessor
<1> QED
  BY <1>2, <1>3, <1>4, <1>5, <1>6, <1>7, <1>8, <1>9, <1>10, <1>11, <1>13, <1>14, <1>15,
     <1>16, <1>17
  DEF Next, Agent
-----------------------------------------------------------------------------
(* An agent's move keeps the invariant if it keeps the agent's own part.   *)
LEMMA AgentMoves ==
  ASSUME RendezvousInv, TypeOK', UNCHANGED <<logVars, ready, policy>>,
         NEW n \in Nodes, OthersKept(n), AgentInv(n)'
  PROVE  RendezvousInv'
<1>1. LogKept
  BY LogTypes DEF LogKept, logVars, RendezvousInv, Gens
<1>2. ASSUME NEW m \in Nodes \ {n} PROVE AgentInv(m)'
  BY <1>1, <1>2, AgentAtRest DEF OthersKept
<1>3. LogIsDense' /\ ReadyIsCommitted'
  BY DEF RendezvousInv, LogIsDense, ReadyIsCommitted, logVars
<1> QED BY <1>2, <1>3 DEF RendezvousInv

(* An agent that stops forgets everything.                                 *)
LEMMA StopsStep ==
  ASSUME RendezvousInv, NEW n \in Nodes, Stops(n), UNCHANGED <<logVars, storeVars, policy>>
  PROVE  RendezvousInv'
<1> USE DEF RendezvousInv
<1>1. TypeOK'
  BY StopsTypes
<1>2. OthersKept(n)
  BY DEF OthersKept, Stops, Goto, TypeOK
<1>3. pc'[n] = "off" /\ gen'[n] = 0 /\ running'[n] = -1
  BY DEF Stops, Goto, TypeOK
<1>4. AgentInv(n)'
  BY <1>1, <1>3, LogTypes
     DEF AgentInv, KnowsItsSlot, IsNotBehindItsRecords, HasMetItsGroup, RunsOnceJoined,
         HasItsContext, Selected, Trying, Member, logVars, Gens
<1> QED BY <1>1, <1>2, <1>4, AgentMoves DEF storeVars

(* So does one that goes back to the top of the loop or is constructed.    *)
LEMMA AgainStep ==
  ASSUME RendezvousInv, TypeOK', NEW n \in Nodes, UNCHANGED <<logVars, ready, policy>>,
         OthersKept(n), pc'[n] \in {"loop", "off"}, gen'[n] <= generation, running'[n] = -1
  PROVE  RendezvousInv'
<1>1. AgentInv(n)'
  BY LogTypes
     DEF RendezvousInv, AgentInv, KnowsItsSlot, IsNotBehindItsRecords, HasMetItsGroup,
         RunsOnceJoined, HasItsContext, Selected, Trying, Member, logVars, Gens
<1> QED BY <1>1, AgentMoves
(***************************************************************************)
(* The moves of an agent through next_rendezvous that leave the log and    *)
(* the ready records alone.                                                *)
(***************************************************************************)
LEMMA AgentStep ==
  ASSUME RendezvousInv, TypeOK', UNCHANGED policy, NEW n \in Nodes,
         \/ Construct(n) \/ ReadGeneration(n) \/ AssignTooFew(n) \/ AssignFromPlan(n)
         \/ WaitForPlanLease(n) \/ GenerationMoved(n) \/ GroupComplete(n)
         \/ BuildBootstrap(n) \/ Join(n) \/ MembershipChange(n) \/ MembershipPoll(n)
         \/ WorkerFailure(n) \/ Lapse(n)
  PROVE  RendezvousInv'
<1> USE DEF RendezvousInv
<1>1. TypeOK /\ AgentInv(n)
  OBVIOUS
<1>2. gen[n] \in Gens /\ 0 \in Gens /\ generation \in Gens /\ Gens \subseteq Nat
  BY LogTypes DEF TypeOK, Gens
<1>3. running[n] = IF pc[n] = "joined" THEN gen[n] ELSE -1
  BY <1>1 DEF AgentInv, RunsOnceJoined
<1>4. CASE Construct(n)
  BY <1>1, <1>2, <1>3, <1>4, AgainStep, SMTT(30)
     DEF Construct, Goto, OthersKept, TypeOK, AgentInv, KnowsItsSlot, logVars
<1>5. CASE ReadGeneration(n)
  <2>1. pc'[n] = "assign" /\ gen'[n] = generation /\ running'[n] = -1
    BY <1>1, <1>3, <1>5 DEF ReadGeneration, Goto, TypeOK
  <2>2. AgentInv(n)'
    BY <1>2, <1>5, <2>1
       DEF ReadGeneration, AgentInv, KnowsItsSlot, IsNotBehindItsRecords, HasMetItsGroup,
           RunsOnceJoined, HasItsContext, Selected, Trying, Member, ReadyIsCommitted,
           logVars, storeVars
  <2> QED BY <1>1, <1>5, <2>2, AgentMoves
          DEF ReadGeneration, Goto, OthersKept, TypeOK, storeVars
<1>6. CASE AssignTooFew(n) \/ GenerationMoved(n) \/ MembershipChange(n) \/ WorkerFailure(n)
  <2>1. OthersKept(n) /\ pc'[n] = "loop" /\ gen'[n] = 0 /\ running'[n] = -1
    BY <1>1, <1>3, <1>6
       DEF AssignTooFew, GenerationMoved, MembershipChange, WorkerFailure, Again, Goto,
           OthersKept, TypeOK
  <2> QED BY <1>2, <1>6, <2>1, AgainStep
          DEF AssignTooFew, GenerationMoved, MembershipChange, WorkerFailure, storeVars
<1>7. CASE AssignFromPlan(n)
  <2>1. CASE n \in Active(gen[n])
    <3>1. pc'[n] = "lease" /\ gen' = gen /\ gen[n] > 0 /\ running' = running
      BY <1>1, <1>7, <2>1 DEF AssignFromPlan, Goto, TypeOK
    <3>2. history[gen[n]] # None
      BY <1>1, <1>2, <3>1 DEF AgentInv, KnowsItsSlot, LogIsDense
    <3>3. AgentInv(n)'
      BY <1>1, <1>3, <1>7, <2>1, <3>1, <3>2
         DEF AssignFromPlan, AgentInv, KnowsItsSlot, IsNotBehindItsRecords, HasMetItsGroup,
             RunsOnceJoined, HasItsContext, Selected, Trying, Member, Active,
             logVars, storeVars
    <3> QED BY <1>1, <1>7, <2>1, <3>1, <3>3, AgentMoves
            DEF AssignFromPlan, Goto, OthersKept, TypeOK, storeVars
  <2>2. CASE n \notin Active(gen[n])
    <3>1. OthersKept(n) /\ pc'[n] = "loop" /\ gen'[n] = 0 /\ running'[n] = -1
      BY <1>1, <1>3, <1>7, <2>2 DEF AssignFromPlan, Again, Goto, OthersKept, TypeOK
    <3> QED BY <1>2, <1>7, <3>1, AgainStep DEF AssignFromPlan, storeVars
  <2> QED BY <2>1, <2>2
<1>8. CASE WaitForPlanLease(n) \/ BuildBootstrap(n)
  <2>1. /\ OthersKept(n) /\ UNCHANGED <<logVars, ready, gen, running, context>>
        /\ \/ pc[n] = "lease" /\ pc'[n] \in {"lease", "ready"}
           \/ pc[n] = "bootstrap" /\ pc'[n] = "context"
    BY <1>1, <1>8 DEF WaitForPlanLease, BuildBootstrap, Goto, OthersKept, TypeOK, storeVars
  <2>2. AgentInv(n)'
    BY <1>1, <2>1
       DEF AgentInv, KnowsItsSlot, IsNotBehindItsRecords, HasMetItsGroup, GroupIsReady,
           SamePolicy, RunsOnceJoined, HasItsContext, Selected, Trying, Member, Active, logVars
  <2> QED BY <2>1, <2>2, AgentMoves
<1>9. CASE GroupComplete(n)
  <2>1. /\ OthersKept(n) /\ UNCHANGED <<logVars, ready, gen, running, context>>
        /\ pc[n] = "group" /\ pc'[n] = "bootstrap" /\ GroupIsReady(n) /\ SamePolicy(n)
    BY <1>1, <1>9 DEF GroupComplete, Goto, OthersKept, TypeOK, storeVars
  <2>2. AgentInv(n)'
    BY <1>1, <2>1
       DEF AgentInv, KnowsItsSlot, IsNotBehindItsRecords, HasMetItsGroup, GroupIsReady,
           SamePolicy, RunsOnceJoined, HasItsContext, Selected, Trying, Member, Active, logVars
  <2> QED BY <2>1, <2>2, AgentMoves
<1>10. CASE Join(n)
  <2>1. /\ OthersKept(n) /\ UNCHANGED <<logVars, ready, gen>>
        /\ pc[n] = "context" /\ pc'[n] = "joined" /\ running'[n] = gen[n]
        /\ context'[n] = IF gen[n] = 0 THEN context[n] ELSE gen[n]
    BY <1>1, <1>10 DEF Join, Goto, OthersKept, TypeOK, storeVars
  <2>2. AgentInv(n)'
    BY <1>1, <1>2, <2>1
       DEF AgentInv, KnowsItsSlot, IsNotBehindItsRecords, HasMetItsGroup, GroupIsReady,
           SamePolicy, RunsOnceJoined, HasItsContext, Selected, Trying, Member, Active, logVars
  <2> QED BY <2>1, <2>2, AgentMoves
<1>11. CASE MembershipPoll(n) \/ Lapse(n)
  <2>1. UNCHANGED <<logVars, ready, pc, gen, running, context>>
    BY <1>11 DEF MembershipPoll, Lapse, storeVars
  <2>2. OthersKept(n)
    BY <2>1 DEF OthersKept
  <2>3. AgentInv(n)'
    BY <1>1, <2>1
       DEF AgentInv, KnowsItsSlot, IsNotBehindItsRecords, HasMetItsGroup, GroupIsReady,
           SamePolicy, RunsOnceJoined, HasItsContext, Active, logVars
  <2> QED BY <2>1, <2>2, <2>3, AgentMoves
<1> QED BY <1>4, <1>5, <1>6, <1>7, <1>8, <1>9, <1>10, <1>11

(* A ready record is written for the generation its agent tries.           *)
LEMMA SetReadyStep ==
  ASSUME RendezvousInv, TypeOK', UNCHANGED policy, NEW n \in Nodes, SetReady(n)
  PROVE  RendezvousInv'
<1> USE DEF RendezvousInv
<1>1. AgentInv(n) /\ gen[n] \in Gens /\ gen[n] \in Nat /\ generation \in Nat
  BY LogTypes DEF TypeOK, Gens
<1>2. /\ OthersKept(n) /\ UNCHANGED <<logVars, gen, running, context>>
      /\ pc[n] = "ready" /\ pc'[n] = "group"
  BY DEF SetReady, Goto, OthersKept, TypeOK
<1>3. \A g \in Gens :
        ready'[g] = IF g = gen[n] THEN ready[g] \cup {n} ELSE ready[g]
  BY <1>1 DEF SetReady, TypeOK
<1>4. LogKept
  BY <1>1, <1>2 DEF LogKept, logVars
<1>5. ASSUME NEW m \in Nodes \ {n} PROVE AgentInv(m)'
  BY <1>2, <1>3, <1>4, <1>5, AgentAtRest DEF OthersKept
<1>6. AgentInv(n)'
  <2>1. KnowsItsSlot(n)'
    BY <1>1, <1>2 DEF AgentInv, KnowsItsSlot, Selected, Trying, Active, logVars
  <2>2. IsNotBehindItsRecords(n)'
    <3>1. \A g \in Gens : n \in ready[g] => g <= gen[n]
      BY <1>1, <1>2 DEF AgentInv, IsNotBehindItsRecords, Trying
    <3>2. gen[n] <= gen[n] /\ gen'[n] = gen[n]
      BY <1>1, <1>2
    <3>3. ASSUME NEW g \in Gens, n \in ready'[g] PROVE g <= gen'[n]
      BY <1>3, <3>1, <3>2, <3>3
    <3> QED BY <3>3 DEF IsNotBehindItsRecords
  <2>3. HasMetItsGroup(n)'
    BY <1>2 DEF HasMetItsGroup, Member
  <2>4. RunsOnceJoined(n)' /\ HasItsContext(n)'
    BY <1>1, <1>2 DEF AgentInv, RunsOnceJoined, HasItsContext, Selected, Trying
  <2> QED BY <2>1, <2>2, <2>3, <2>4 DEF AgentInv
<1>7. LogIsDense' /\ ReadyIsCommitted'
  BY <1>1, <1>2, <1>3 DEF AgentInv, KnowsItsSlot, LogIsDense, ReadyIsCommitted, logVars
<1> QED BY <1>5, <1>6, <1>7

(***************************************************************************)
(* An agent in generation 0 commits the initial assignment or finds it     *)
(* committed, and drops its stale restart context.                         *)
(***************************************************************************)
LEMMA AssignInitialStep ==
  ASSUME RendezvousInv, TypeOK', UNCHANGED policy, NEW n \in Nodes, AssignInitial(n)
  PROVE  RendezvousInv'
<1> USE DEF RendezvousInv
<1>1. /\ AgentInv(n) /\ gen[n] = 0 /\ 0 \in Gens /\ Gens \subseteq Nat
      /\ generation \in Gens /\ pc[n] = "assign"
  BY LogTypes DEF TypeOK, Gens, AssignInitial
<1>2. InitialPlacement # None
  BY InitialPlacementType, SameSets, RendezvousAssumption
     DEF AssignInitial, Log!ConstantsOK
<1>3. history' = IF history[0] = None
                 THEN [history EXCEPT ![0] = InitialPlacement] ELSE history
  BY DEF AssignInitial
<1>4. /\ history'[0] # None
      /\ \A g \in Gens : history[g] # None => history'[g] = history[g]
      /\ \A g \in Gens : g # 0 => history'[g] = history[g]
  BY <1>1, <1>2, <1>3, LogTypes
<1>5. UNCHANGED <<generation, gen, ready, running>> /\ OthersKept(n) /\ LogKept
  BY <1>1, <1>4 DEF AssignInitial, Goto, OthersKept, LogKept, TypeOK, storeVars
<1>6. ASSUME NEW m \in Nodes \ {n} PROVE AgentInv(m)'
  BY <1>5, <1>6, AgentAtRest DEF OthersKept, AssignInitial
<1>7. AgentInv(n)'
  <2>1. CASE n \in Log!ActiveNodes(history'[0])
    <3>1. pc'[n] = "ready" /\ context'[n] = -1
      BY <2>1 DEF AssignInitial, Goto, TypeOK
    <3> QED BY <1>1, <1>4, <1>5, <2>1, <3>1
            DEF AgentInv, KnowsItsSlot, IsNotBehindItsRecords, HasMetItsGroup,
                RunsOnceJoined, HasItsContext, Selected, Trying, Member, Active
  <2>2. CASE n \notin Log!ActiveNodes(history'[0])
    <3>1. pc'[n] = "loop"
      BY <2>2 DEF AssignInitial, Goto, TypeOK
    <3> QED BY <1>1, <1>5, <3>1
            DEF AgentInv, KnowsItsSlot, IsNotBehindItsRecords, HasMetItsGroup,
                RunsOnceJoined, HasItsContext, Selected, Trying, Member
  <2> QED BY <2>1, <2>2
<1>8. LogIsDense'
  <2>1. ASSUME NEW g \in Gens, g > generation' PROVE history'[g] = None
    BY <1>1, <1>4, <1>5, <2>1 DEF LogIsDense, Gens
  <2>2. ASSUME NEW g \in 1 .. generation' PROVE history'[0] # None /\ history'[g] # None
    <3>1. g \in Gens /\ g # 0 /\ history[g] # None
      BY <1>1, <1>5, <2>2, LogTypes DEF LogIsDense, Gens
    <3> QED BY <1>4, <3>1
  <2> QED BY <2>1, <2>2 DEF LogIsDense
<1>9. ReadyIsCommitted'
  BY <1>5 DEF ReadyIsCommitted
<1> QED BY <1>6, <1>7, <1>8, <1>9

(* The manager commits a successor while the agents rest.                  *)
LEMMA CommitStep ==
  ASSUME RendezvousInv, TypeOK', UNCHANGED policy, CommitsSuccessor
  PROVE  RendezvousInv'
<1> USE DEF RendezvousInv
<1>1. PICK p \in Log!Placement : Commit(p)
  BY DEF CommitsSuccessor
<1>2. p # None /\ generation \in Nat /\ generation + 1 \in Gens /\ 0 \in Gens
  BY LogTypes, RendezvousAssumption DEF CommitsSuccessor, Log!ConstantsOK, Gens
<1>3. /\ generation' = generation + 1
      /\ UNCHANGED <<ready, pc, gen, running, context>>
      /\ \A g \in Gens : history'[g] = IF g = generation + 1 THEN p ELSE history[g]
  BY <1>1, LogTypes DEF Commit, storeVars, agentVars
<1>4. LogKept
  BY <1>2, <1>3 DEF LogKept, LogIsDense
<1>5. ASSUME NEW m \in Nodes PROVE AgentInv(m)'
  BY <1>3, <1>4, AgentAtRest
<1>6. LogIsDense'
  <2>1. history[0] # None
    BY <1>2 DEF CommitsSuccessor, LogIsDense
  <2>2. ASSUME NEW g \in Gens, g > generation' PROVE history'[g] = None
    BY <1>2, <1>3, <2>2 DEF LogIsDense, Gens
  <2>3. ASSUME NEW g \in 1 .. generation' PROVE history'[0] # None /\ history'[g] # None
    <3>1. g \in Gens /\ (g = generation + 1 \/ g \in 1 .. generation)
      BY <1>2, <1>3, <2>3, LogTypes DEF Gens
    <3> QED BY <1>2, <1>3, <2>1, <3>1 DEF LogIsDense
  <2> QED BY <2>2, <2>3 DEF LogIsDense
<1>7. ReadyIsCommitted'
  BY <1>2, <1>3 DEF ReadyIsCommitted, Gens
<1> QED BY <1>5, <1>6, <1>7

(* Leases, the closed key and stuttering touch nothing the invariant reads. *)
LEMMA OtherStep ==
  ASSUME RendezvousInv, TypeOK', UNCHANGED policy,
         UNCHANGED <<logVars, ready, pc, gen, running, context>>
  PROVE  RendezvousInv'
<1>1. LogKept
  BY LogTypes DEF LogKept, logVars, RendezvousInv, Gens
<1>2. ASSUME NEW m \in Nodes PROVE AgentInv(m)'
  BY <1>1, AgentAtRest
<1>3. LogIsDense' /\ ReadyIsCommitted'
  BY DEF RendezvousInv, LogIsDense, ReadyIsCommitted, logVars
<1> QED BY <1>2, <1>3 DEF RendezvousInv

-----------------------------------------------------------------------------
(* Before the first agent the invariant holds.                             *)
LEMMA RendezvousInit == Init => RendezvousInv
<1> SUFFICES ASSUME Init PROVE RendezvousInv
  OBVIOUS
<1>1. MaxGen \in Nat /\ 0 \in Gens /\ Gens \subseteq Nat /\ MaxGen \in Gens
  BY RendezvousAssumption DEF Log!ConstantsOK, Gens
<1>2. TypeOK
  <2>1. Log!TypeOK
    BY <1>1, SameSets DEF Init, Log!Init, Log!TypeOK
  <2>2. context \in [Nodes -> Gens \cup {-1}]
    BY <1>1 DEF Init
  <2>3. registrations \in Seq(Nodes)
    BY DEF Init
  <2> QED BY <1>1, <2>1, <2>2, <2>3 DEF Init, TypeOK, Unseen, Places
<1>3. LogIsDense
  BY <1>1, SameSets DEF Init, Log!Init, LogIsDense
<1>4. ReadyIsCommitted
  BY DEF Init, ReadyIsCommitted
<1>5. ASSUME NEW n \in Nodes PROVE AgentInv(n)
  BY <1>1
     DEF Init, Log!Init, AgentInv, KnowsItsSlot, IsNotBehindItsRecords, HasMetItsGroup,
         RunsOnceJoined, HasItsContext, Selected, Trying, Member
<1> QED BY <1>2, <1>3, <1>4, <1>5 DEF RendezvousInv

(* Every step keeps the invariant.                                         *)
LEMMA RendezvousStep == RendezvousInv /\ [Next]_vars => RendezvousInv'
<1> SUFFICES ASSUME RendezvousInv, [Next]_vars PROVE RendezvousInv'
  OBVIOUS
<1>1. TypeOK'
  BY TypeStep DEF RendezvousInv
<1>2. UNCHANGED policy
  BY DEF Next, vars
<1>3. ASSUME NEW n \in Nodes,
             \/ Construct(n) \/ ReadGeneration(n) \/ AssignTooFew(n) \/ AssignFromPlan(n)
             \/ WaitForPlanLease(n) \/ GenerationMoved(n) \/ GroupComplete(n)
             \/ BuildBootstrap(n) \/ Join(n) \/ MembershipChange(n) \/ MembershipPoll(n)
             \/ WorkerFailure(n) \/ Lapse(n)
      PROVE  RendezvousInv'
  BY <1>1, <1>2, <1>3, AgentStep
<1>4. ASSUME NEW n \in Nodes,
             \/ AssignCorrupt(n) \/ GroupLeaseElapsed(n) \/ GroupPolicyConflict(n)
             \/ ContextLeaseElapsed(n) \/ ExitClosed(n) \/ Timeout(n) \/ AgentFailure(n)
      PROVE  RendezvousInv'
  BY <1>2, <1>4, StopsStep
     DEF AssignCorrupt, GroupLeaseElapsed, GroupPolicyConflict, ContextLeaseElapsed,
         ExitClosed, Timeout, AgentFailure
<1>5. ASSUME NEW n \in Nodes, SetReady(n) PROVE RendezvousInv'
  BY <1>1, <1>2, <1>5, SetReadyStep
<1>6. ASSUME NEW n \in Nodes, AssignInitial(n) PROVE RendezvousInv'
  BY <1>1, <1>2, <1>6, AssignInitialStep
<1>7. ASSUME NEW sh \in Shapes, CommitRestart(sh) PROVE RendezvousInv'
  BY <1>1, <1>2, <1>7, CommitStep, RestartCommits DEF RendezvousInv
<1>8. ASSUME NEW sh \in Shapes, NEW s \in Slots, NEW r \in Nodes, CommitReplacement(sh, s, r)
      PROVE  RendezvousInv'
  BY <1>1, <1>2, <1>8, CommitStep, ReplacementCommits DEF RendezvousInv
<1>9. ASSUME NEW g \in Gens, RenewLease(g) \/ EndLease(g) PROVE RendezvousInv'
  BY <1>1, <1>2, <1>9, OtherStep DEF RenewLease, EndLease
<1>10. CASE CloseRun
  BY <1>1, <1>2, <1>10, OtherStep DEF CloseRun, agentVars
<1>11. CASE UNCHANGED vars
  BY <1>1, <1>2, <1>11, OtherStep DEF vars, moving, storeVars, agentVars
<1> QED
  BY <1>3, <1>4, <1>5, <1>6, <1>7, <1>8, <1>9, <1>10, <1>11 DEF Next, Agent

(* What the invariant says of the workers of one node.                     *)
LEMMA RunningMember ==
  ASSUME RendezvousInv, NEW n \in Nodes, running[n] >= 0
  PROVE  /\ pc[n] = "joined" /\ running[n] = gen[n] /\ gen[n] \in Gens
         /\ gen[n] <= generation /\ n \in Active(gen[n])
         /\ Active(gen[n]) \subseteq ready[gen[n]] /\ SamePolicy(n)
  BY DEF RendezvousInv, TypeOK, AgentInv, KnowsItsSlot, HasMetItsGroup, GroupIsReady,
         RunsOnceJoined, Selected, Trying, Member

(* The invariant holds in every reachable state.                           *)
LEMMA RendezvousInvariant == Spec => []RendezvousInv
  BY RendezvousInit, RendezvousStep, PTL DEF Spec

(***************************************************************************)
(* The variables of the agents and of the store keep their types.          *)
(***************************************************************************)
THEOREM RendezvousTypes == Spec => []TypeOK
<1>1. RendezvousInv => TypeOK
  BY DEF RendezvousInv
<1> QED BY <1>1, RendezvousInvariant, PTL

(***************************************************************************)
(* The group barrier separates generations: an agent whose ready record    *)
(* opened the barrier of generation g has not gone back to an older one.   *)
(***************************************************************************)
THEOREM RendezvousBarrier == Spec => []NoMixedGenerations
<1>1. RendezvousInv => NoMixedGenerations
  <2> SUFFICES ASSUME RendezvousInv, NEW n \in Nodes, running[n] >= 0,
                      NEW r \in Active(running[n]), running[r] # -1
               PROVE  running[r] >= running[n]
    BY DEF NoMixedGenerations
  <2>1. running[n] = gen[n] /\ gen[n] \in Gens /\ r \in ready[gen[n]]
    BY RunningMember
  <2>2. r \in Nodes
    BY <2>1 DEF RendezvousInv, TypeOK
  <2>3. pc[r] = "joined" /\ running[r] = gen[r]
    BY <2>2 DEF RendezvousInv, AgentInv, RunsOnceJoined
  <2>4. gen[n] <= gen[r]
    BY <2>1, <2>2, <2>3 DEF RendezvousInv, AgentInv, IsNotBehindItsRecords, Trying
  <2>5. gen[n] \in Nat /\ gen[r] \in Nat
    BY <2>2, LogTypes DEF RendezvousInv, TypeOK, Gens
  <2> QED BY <2>1, <2>3, <2>4, <2>5
<1> QED BY <1>1, RendezvousInvariant, PTL

(***************************************************************************)
(* Workers run on the nodes their generation assigns a slot, in a          *)
(* generation that is committed, under one worker policy.                  *)
(***************************************************************************)
THEOREM RendezvousAssignment == Spec => []RunsAsAssigned
<1>1. RendezvousInv => RunsAsAssigned
  BY RunningMember DEF RunsAsAssigned, SamePolicy
<1> QED BY <1>1, RendezvousInvariant, PTL

(***************************************************************************)
(* No workers find the restart context of another generation or of an      *)
(* earlier run.                                                            *)
(***************************************************************************)
THEOREM RendezvousContext == Spec => []ContextIsOwn
<1>1. RendezvousInv => ContextIsOwn
  <2> SUFFICES ASSUME RendezvousInv, NEW n \in Nodes, running[n] >= 0
               PROVE  context[n] = IF running[n] = 0 THEN -1 ELSE running[n]
    BY DEF ContextIsOwn
  <2>1. pc[n] = "joined" /\ running[n] = gen[n] /\ gen[n] \in Nat
    BY RunningMember, LogTypes DEF RendezvousInv, Gens
  <2> QED BY <2>1 DEF RendezvousInv, AgentInv, HasItsContext, Selected, Trying
<1> QED BY <1>1, RendezvousInvariant, PTL

-----------------------------------------------------------------------------
(* The initial assignment is the log's, decided by the first agent.        *)
LEMMA AssignInitialRefines ==
  ASSUME TypeOK, NEW n \in Nodes, AssignInitial(n)
  PROVE  [Log!Next]_(Log!vars)
<1>1. generation' = generation
  BY DEF AssignInitial
<1>2. CASE history[0] = None
  <2>1. history' = [history EXCEPT ![0] = InitialPlacement]
    BY <1>2 DEF AssignInitial
  <2>2. /\ InitialPlacement \in Log!Placement /\ Log!DistinctSlots(InitialPlacement)
        /\ InitialPlacement.quarantined = {} /\ InitialPlacement.shape = None
    BY InitialPlacementType DEF AssignInitial
  <2> QED BY <1>1, <1>2, <2>1, <2>2 DEF Log!Next, Log!CommitInitial
<1>3. CASE history[0] # None
  BY <1>1, <1>3 DEF AssignInitial, Log!vars
<1> QED BY <1>2, <1>3

(* What the manager commits is the log's next generation.                  *)
LEMMA CommitRefines ==
  ASSUME CommitsSuccessor
  PROVE  Log!Next
  BY DEF CommitsSuccessor, Commit, Log!CommitSuccessor, Log!Next

(* Every step of the rendezvous is a step of the log or a stutter.         *)
LEMMA RendezvousStepRefines == TypeOK /\ [Next]_vars => [Log!Next]_(Log!vars)
<1> SUFFICES ASSUME TypeOK, [Next]_vars PROVE [Log!Next]_(Log!vars)
  OBVIOUS
<1> USE DEF logVars, Log!vars
<1>1. ASSUME NEW n \in Nodes, AssignInitial(n) PROVE [Log!Next]_(Log!vars)
  BY <1>1, AssignInitialRefines
<1>2. ASSUME NEW n \in Nodes, Agent(n), ~AssignInitial(n) PROVE UNCHANGED Log!vars
  BY <1>2
     DEF Agent, ReadGeneration, AssignCorrupt, AssignTooFew, AssignFromPlan,
         WaitForPlanLease, GenerationMoved, SetReady, GroupLeaseElapsed,
         GroupPolicyConflict, GroupComplete, BuildBootstrap, ContextLeaseElapsed, Join,
         MembershipChange, MembershipPoll, ExitClosed
<1>3. ASSUME NEW n \in Nodes,
             \/ Construct(n) \/ WorkerFailure(n) \/ Timeout(n) \/ AgentFailure(n)
             \/ Lapse(n)
      PROVE  UNCHANGED Log!vars
  BY <1>3 DEF Construct, WorkerFailure, Timeout, AgentFailure, Lapse
<1>4. ASSUME NEW sh \in Shapes, CommitRestart(sh) PROVE Log!Next
  BY <1>4, RestartCommits, CommitRefines
<1>5. ASSUME NEW sh \in Shapes, NEW s \in Slots, NEW r \in Nodes, CommitReplacement(sh, s, r)
      PROVE  Log!Next
  BY <1>5, ReplacementCommits, CommitRefines
<1>6. ASSUME NEW g \in Gens, RenewLease(g) \/ EndLease(g) PROVE UNCHANGED Log!vars
  BY <1>6 DEF RenewLease, EndLease
<1>7. CloseRun \/ UNCHANGED vars => UNCHANGED Log!vars
  BY DEF CloseRun, vars, moving
<1> QED BY <1>1, <1>2, <1>3, <1>4, <1>5, <1>6, <1>7 DEF Next

(***************************************************************************)
(* Agents that race for the initial assignment, die and come back, and a   *)
(* manager that commits behind their backs, never change what a committed  *)
(* generation says: the rendezvous implements the generation log.          *)
(***************************************************************************)
THEOREM RendezvousImplementsLog == Spec => ImplementsLog
<1>1. Init => Log!Init
  BY DEF Init
<1>2. RendezvousInv => TypeOK
  BY DEF RendezvousInv
<1> QED
  BY <1>1, <1>2, RendezvousInvariant, RendezvousStepRefines, PTL
     DEF Spec, ImplementsLog, Log!Spec

-----------------------------------------------------------------------------
(* The workers that an agent starts: how the ranks of a process group      *)
(* attach the resiliency handle (WorkerAttach), for any number of ranks,   *)
(* import threads, frameworks and training steps.                          *)
(* The integrations a rank may name: a specialized one, plain PyTorch or   *)
(* none.                                                                   *)
Frameworks == Specialized \cup {Attach!Native, Attach!None}

(* A thread holds the import lock from the outermost import to its end,    *)
(* also through the rollback of one that failed.                           *)
Importing == {"import", "select", "rollback", "closing", "unwind"}
OnTheWay == {"attach", "enable", "collectives", "attached"}

AutoType ==
  [step : Nat, selected : Frameworks, native : BOOLEAN, delegate : Frameworks,
   agreed : Frameworks, error : BOOLEAN, hooked : BOOLEAN]
Owner == Attach!Threads \cup {Attach!None}
LockType == [txn : Owner, inference : Owner, attach : Owner]
HandleType == [state : {Attach!None, "open", "closed"}, framework : Frameworks, step : Nat]

AttachTypes ==
  /\ auto \in [Workers -> AutoType]
  /\ entry \in [Workers -> SUBSET Frameworks]
  /\ known \in [Workers -> {Attach!None, "pair", "ambiguous"}]
  /\ lock \in [Workers -> LockType]
  /\ group \subseteq Workers
  /\ handle \in [Workers -> HandleType]
  /\ engine \in [Workers -> Nat]

(* Where a thread of a rank is.                                            *)
AttachPlaces == Importing \cup OnTheWay \cup
  {"boot", "run", "gather", "vote", "voted", "done", "failed"}
ThreadType == [pc : AttachPlaces, snapshot : Frameworks \X BOOLEAN, framework : Frameworks]
ThreadTypes == thread \in [Workers -> [main : ThreadType, loader : ThreadType]]

Holds(x, t, l) ==
  /\ x.pc \in Importing => l.txn = t
  /\ x.pc = "select" => l.inference = t

HoldsLocks(th, l) ==
  /\ Holds(th.main, "main", l) /\ Holds(th.loader, "loader", l)
  /\ th.main.pc = "gather" => l.txn = "main"
  /\ th.main.pc \in {"enable", "collectives"} => l.attach = "main"
  /\ th.loader.pc \in Importing \cup {"run"}

(* Once attached, the adapter stands by the framework of its handle and    *)
(* watches no imports, or a failed import is about to close the handle.    *)
ClosesSoon(th) == th.main.pc = "closing" \/ th.loader.pc = "closing"

Stands(a, th, h) ==
  /\ th.main.pc = "boot" => h.state # "open"
  /\ h.state = "open" /\ th.main.pc \notin {"attached", "failed"} /\ ~ClosesSoon(th) =>
       /\ a.selected = h.framework /\ ~a.native /\ ~a.hooked
       /\ th.main.pc # "select" /\ th.loader.pc # "select"

(* in: the process group is initialized.                                   *)
Agrees(a, th, h, in) ==
  /\ h.state = "open" => h.framework # Attach!None
  /\ th.main.pc \in OnTheWay => th.main.framework # Attach!None
  /\ th.main.pc = "attached" /\ h.state = "open" => h.framework = th.main.framework
  /\ in /\ th.main.pc \notin {"failed", "gather"} =>
      /\ th.main.pc \in OnTheWay => th.main.framework = a.agreed
      /\ h.state = "open" => h.framework = a.agreed

(* The steps that a handle counts are those of its engine.                 *)
Counts(a, th, h, e) ==
  th.main.pc # "failed" /\ h.state = "open" => h.step = e /\ e >= a.step

Sound(a, th, l, h, e, in) ==
  HoldsLocks(th, l) /\ Stands(a, th, h) /\ Agrees(a, th, h, in) /\ Counts(a, th, h, e)

SoundAt(r) == Sound(auto[r], thread[r], lock[r], handle[r], engine[r], r \in group)

(* A gather changes what was agreed on every rank at once, so the ranks    *)
(* never hold two answers.                                                 *)
AllAgree == \A a, b \in Workers : auto[a].agreed = auto[b].agreed

AttachInv ==
  /\ AttachTypes /\ ThreadTypes /\ AllAgree
  /\ \A r \in Workers : SoundAt(r)

LEMMA AttachInit ==
  ASSUME Attach!AttachAssumption
  PROVE  Attach!Init => AttachInv
<1> SUFFICES ASSUME Attach!Init PROVE AttachInv
  OBVIOUS
<1>1. PICK step \in SelectedSteps : auto = [r \in Workers |-> Attach!NewAuto(step)]
  BY DEF Attach!Init
<1>2. step \in Nat
  BY DEF Attach!AttachAssumption
<1>3. AttachTypes
  BY <1>1, <1>2
     DEF Attach!Init, AttachTypes, AutoType, LockType, Owner, HandleType, Attach!NewAuto,
         Frameworks,
         Attach!NoHandle, Attach!Threads
<1>4. ThreadTypes
  BY DEF Attach!Init, ThreadTypes, Attach!Idle, ThreadType, AttachPlaces, Frameworks
<1>5. ASSUME NEW r \in Workers
      PROVE SoundAt(r)
  BY
     DEF Attach!Init, Attach!Idle, SoundAt, Sound, HoldsLocks, Holds, Stands, Agrees, Counts,
         Attach!NoHandle, Attach!At, Importing, Attach!Threads, OnTheWay, Attach!None
<1>6. AllAgree
  BY <1>1 DEF AllAgree, Attach!NewAuto
<1> QED BY <1>3, <1>4, <1>5, <1>6 DEF AttachInv

Other(t) == IF t = "main" THEN "loader" ELSE "main"

(* Thread t of rank r goes on as x, all other threads stay.                *)
Goes(r, t, x) ==
  /\ ThreadTypes'
  /\ \A q \in Workers \ {r} : thread'[q] = thread[q]
  /\ thread'[r][t] = x
  /\ thread'[r][Other(t)] = thread[r][Other(t)]

LEMMA SetThread ==
  ASSUME NEW r \in Workers, NEW t \in Attach!Threads, NEW x \in ThreadType, ThreadTypes,
         thread' = [thread EXCEPT ![r][t] = x]
  PROVE  Goes(r, t, x)
<1>1. thread[r] \in [main : ThreadType, loader : ThreadType]
  BY DEF ThreadTypes
<1>2. PICK y \in [main : ThreadType, loader : ThreadType] :
        y[t] = x /\ y[Other(t)] = thread[r][Other(t)] /\ thread' = [thread EXCEPT ![r] = y]
  <2>1. CASE t = "main"
    <3>1. [thread[r] EXCEPT !.main = x] \in [main : ThreadType, loader : ThreadType]
      BY <1>1
    <3>2. thread' = [thread EXCEPT ![r] = [thread[r] EXCEPT !.main = x]]
      BY <2>1
    <3> QED BY <1>1, <2>1, <3>1, <3>2 DEF Other
  <2>2. CASE t = "loader"
    <3>1. [thread[r] EXCEPT !.loader = x] \in [main : ThreadType, loader : ThreadType]
      BY <1>1
    <3>2. thread' = [thread EXCEPT ![r] = [thread[r] EXCEPT !.loader = x]]
      BY <2>2
    <3> QED BY <1>1, <2>2, <3>1, <3>2 DEF Other
  <2> QED BY <2>1, <2>2 DEF Attach!Threads
<1> QED BY <1>2 DEF Goes, ThreadTypes

LEMMA GoesTo ==
  ASSUME NEW r \in Workers, NEW t \in Attach!Threads, NEW place \in AttachPlaces,
         ThreadTypes, Attach!Goto(r, t, place)
  PROVE  Goes(r, t, [thread[r][t] EXCEPT !.pc = place]) /\ thread[r][t] \in ThreadType
<1>1. thread[r][t] \in ThreadType
  BY DEF ThreadTypes, Attach!Threads
<1>2. [thread[r][t] EXCEPT !.pc = place] \in ThreadType
  BY <1>1 DEF ThreadType
<1>3. thread' = [thread EXCEPT ![r][t] = [thread[r][t] EXCEPT !.pc = place]]
  BY DEF Attach!Goto
<1> QED BY <1>1, <1>2, <1>3, SetThread

Idles == [main |-> [Attach!Idle EXCEPT !.pc = "failed"], loader |-> Attach!Idle]
NoLocks == [txn |-> Attach!None, inference |-> Attach!None, attach |-> Attach!None]

LEMMA Failing ==
  ASSUME NEW r \in Workers, ThreadTypes, Attach!Fail(r)
  PROVE  /\ ThreadTypes'
         /\ \A q \in Workers \ {r} : thread'[q] = thread[q]
         /\ thread'[r].main.pc = "failed" /\ thread'[r].loader = Attach!Idle
         /\ lock' = [lock EXCEPT ![r] = NoLocks] /\ NoLocks \in LockType
<1>1. thread' = [thread EXCEPT ![r] = Idles]
  BY DEF Attach!Fail, Idles
<1>2. Idles \in [main : ThreadType, loader : ThreadType]
  BY DEF Idles, Attach!Idle, ThreadType, AttachPlaces, Frameworks
<1>3. Idles.main.pc = "failed" /\ Idles.loader = Attach!Idle
  BY DEF Idles, Attach!Idle
<1>4. NoLocks \in LockType
  BY DEF NoLocks, LockType, Owner
<1>5. lock' = [lock EXCEPT ![r] = NoLocks]
  BY DEF Attach!Fail, NoLocks
<1> QED BY <1>1, <1>2, <1>3, <1>4, <1>5 DEF ThreadTypes

(* What is over is sound. *)
LEMMA FailedIsSound ==
  ASSUME NEW a, NEW th, NEW l, NEW h, NEW e, NEW in, th.main.pc = "failed", th.loader = Attach!Idle,
         h.state = "open" => h.framework # Attach!None
  PROVE  Sound(a, th, l, h, e, in)
BY DEF Sound, HoldsLocks, Holds, Stands, Agrees, Counts, Importing, OnTheWay, Attach!Idle

(* g is f, but x at r. *)
Sets(f, g, r, x) == g = [f EXCEPT ![r] = x] \/ (g = f /\ x = f[r])

LEMMA RankStep ==
  ASSUME AttachInv, NEW r \in Workers,
         NEW a \in AutoType, Sets(auto, auto', r, a), a.agreed = auto[r].agreed,
         NEW l \in LockType, Sets(lock, lock', r, l),
         NEW h \in HandleType, Sets(handle, handle', r, h),
         NEW e \in Nat, Sets(engine, engine', r, e),
         entry' \in [Workers -> SUBSET Frameworks],
         known' \in [Workers -> {Attach!None, "pair", "ambiguous"}],
         group' \in {group, group \cup {r}},
         ThreadTypes', \A q \in Workers \ {r} : thread'[q] = thread[q],
         Sound(a, thread'[r], l, h, e, r \in group')
  PROVE  AttachInv'
<1>0. AttachTypes
  BY DEF AttachInv
<1>1. auto' \in [Workers -> AutoType] /\ auto'[r] = a /\ \A q \in Workers \ {r} : auto'[q] = auto[q]
  BY <1>0 DEF AttachTypes, Sets
<1>2. lock' \in [Workers -> LockType] /\ lock'[r] = l /\ \A q \in Workers \ {r} : lock'[q] = lock[q]
  BY <1>0 DEF AttachTypes, Sets
<1>3. /\ handle' \in [Workers -> HandleType] /\ handle'[r] = h
      /\ \A q \in Workers \ {r} : handle'[q] = handle[q]
  BY <1>0 DEF AttachTypes, Sets
<1>4. /\ engine' \in [Workers -> Nat] /\ engine'[r] = e
      /\ \A q \in Workers \ {r} : engine'[q] = engine[q]
  BY <1>0 DEF AttachTypes, Sets
<1>5. AttachTypes'
  BY <1>0, <1>1, <1>2, <1>3, <1>4 DEF AttachTypes
<1>6. ASSUME NEW q \in Workers PROVE auto'[q].agreed = auto[q].agreed
  BY <1>1
<1>7. AllAgree'
  BY <1>6 DEF AllAgree, AttachInv
<1>8. ASSUME NEW q \in Workers PROVE SoundAt(q)'
  <2>1. CASE q = r
    BY <2>1, <1>1, <1>2, <1>3, <1>4 DEF SoundAt
  <2>2. CASE q # r
    <3>1. (q \in group') = (q \in group)
      BY <2>2
    <3>2. Sound(auto'[q], thread'[q], lock'[q], handle'[q], engine'[q], q \in group')
          = Sound(auto[q], thread[q], lock[q], handle[q], engine[q], q \in group)
      BY <2>2, <3>1, <1>1, <1>2, <1>3, <1>4
    <3> QED BY <3>2 DEF AttachInv, SoundAt
  <2> QED BY <2>1, <2>2
<1> QED BY <1>5, <1>7, <1>8 DEF AttachInv


LEMMA Moves ==
  ASSUME NEW r \in Workers, NEW t \in Attach!Threads, NEW x \in ThreadType, ThreadTypes,
         thread' = [thread EXCEPT ![r][t] = x]
  PROVE  /\ ThreadTypes' /\ \A q \in Workers \ {r} : thread'[q] = thread[q]
         /\ t = "main" => thread'[r].main = x /\ thread'[r].loader = thread[r].loader
         /\ t = "loader" => thread'[r].loader = x /\ thread'[r].main = thread[r].main
<1>1. Goes(r, t, x)
  BY SetThread
<1> QED BY <1>1 DEF Goes, Other, Attach!Threads

LEMMA GoesOn ==
  ASSUME NEW r \in Workers, NEW t \in Attach!Threads, NEW place \in AttachPlaces,
         ThreadTypes, Attach!Goto(r, t, place)
  PROVE  /\ ThreadTypes' /\ \A q \in Workers \ {r} : thread'[q] = thread[q]
         /\ t = "main" =>
              /\ thread'[r].main.pc = place /\ thread'[r].main.framework = thread[r].main.framework
              /\ thread'[r].main.snapshot = thread[r].main.snapshot
              /\ thread'[r].loader = thread[r].loader
         /\ t = "loader" =>
              /\ thread'[r].loader.pc = place
              /\ thread'[r].loader.snapshot = thread[r].loader.snapshot
              /\ thread'[r].main = thread[r].main
<1>1. Goes(r, t, [thread[r][t] EXCEPT !.pc = place]) /\ thread[r][t] \in ThreadType
  BY GoesTo
<1>2. CASE t = "main"
  BY <1>1, <1>2 DEF Goes, Other, ThreadType
<1>3. CASE t = "loader"
  BY <1>1, <1>3 DEF Goes, Other, ThreadType
<1> QED BY <1>2, <1>3 DEF Attach!Threads

LEMMA FailStep ==
  ASSUME AttachInv, NEW r \in Workers, Attach!Fail(r),
         NEW a \in AutoType, Sets(auto, auto', r, a), a.agreed = auto[r].agreed,
         UNCHANGED <<entry, known, handle, engine>>,
         group' \in {group, group \cup {r}}
  PROVE  AttachInv'
<1>1. /\ ThreadTypes' /\ \A q \in Workers \ {r} : thread'[q] = thread[q]
      /\ thread'[r].main.pc = "failed" /\ thread'[r].loader = Attach!Idle
      /\ Sets(lock, lock', r, NoLocks) /\ NoLocks \in LockType
  BY Failing DEF AttachInv, Sets
<1>2. /\ handle[r] \in HandleType /\ Sets(handle, handle', r, handle[r])
      /\ engine[r] \in Nat /\ Sets(engine, engine', r, engine[r])
      /\ entry' \in [Workers -> SUBSET Frameworks]
      /\ known' \in [Workers -> {Attach!None, "pair", "ambiguous"}]
  BY DEF AttachInv, AttachTypes, Sets
<1>3. handle[r].state = "open" => handle[r].framework # Attach!None
  BY DEF AttachInv, SoundAt, Sound, Agrees
<1>4. Sound(a, thread'[r], NoLocks, handle[r], engine[r], r \in group')
  BY <1>1, <1>3, FailedIsSound
<1> QED BY <1>1, <1>2, <1>4, RankStep

(* What an action finds at its rank. *)
LEMMA Here ==
  ASSUME AttachInv, NEW r \in Workers
  PROVE  /\ AttachTypes /\ ThreadTypes
         /\ auto[r] \in AutoType /\ lock[r] \in LockType /\ handle[r] \in HandleType
         /\ engine[r] \in Nat
         /\ thread[r] \in [main : ThreadType, loader : ThreadType]
         /\ HoldsLocks(thread[r], lock[r]) /\ Stands(auto[r], thread[r], handle[r])
         /\ Agrees(auto[r], thread[r], handle[r], r \in group)
         /\ Counts(auto[r], thread[r], handle[r], engine[r])
BY DEF AttachInv, AttachTypes, ThreadTypes, SoundAt, Sound

(* An action that leaves the parts x of f alone. *)
LEMMA Stays ==
  ASSUME NEW f, NEW r, NEW g, g = f PROVE Sets(f, g, r, f[r])
BY DEF Sets

LEMMA BootstrapStep == ASSUME AttachInv, NEW r \in Workers, Attach!Bootstrap(r) PROVE AttachInv'
<1>1. PICK mine \in Attach!Contexts, policyUnchanged \in BOOLEAN :
       IF Attach!Installs(r, mine, policyUnchanged)
       THEN /\ auto' = [auto EXCEPT ![r].hooked = TRUE]
            /\ Attach!Goto(r, "main", "run") /\ UNCHANGED lock
       ELSE Attach!Fail(r) /\ UNCHANGED auto
  BY DEF Attach!Bootstrap
<1>2. /\ thread[r].main.pc = "boot" /\ ThreadTypes /\ AttachTypes /\ SoundAt(r)
      /\ UNCHANGED <<entry, known, group, handle, engine>>
  BY DEF Attach!Bootstrap, Attach!At, AttachInv
<1>3. CASE Attach!Installs(r, mine, policyUnchanged)
  <2>1. Goes(r, "main", [thread[r].main EXCEPT !.pc = "run"]) /\ thread[r].main \in ThreadType
    BY <1>1, <1>2, <1>3, GoesTo DEF Attach!Threads, AttachPlaces
  <2> DEFINE a == [auto[r] EXCEPT !.hooked = TRUE]
  <2>5. auto[r] \in AutoType
    BY <1>2 DEF AttachTypes
  <2>6. auto' = [auto EXCEPT ![r] = a]
    BY <1>1, <1>3
  <2>2. /\ a \in AutoType /\ auto' = [auto EXCEPT ![r] = a]
        /\ a.agreed = auto[r].agreed /\ a.selected = auto[r].selected
        /\ a.step = auto[r].step /\ a.native = auto[r].native
    BY <2>5, <2>6 DEF AutoType
  <2> HIDE DEF a
  <2>3. Sound(a, thread'[r], lock[r], handle[r], engine[r], r \in group)
    <3>1. /\ thread'[r].main.pc = "run" /\ thread'[r].main.framework = thread[r].main.framework
          /\ thread'[r].loader = thread[r].loader
      BY <2>1 DEF Goes, Other, ThreadType
    <3> QED BY <1>2, <2>2, <3>1, Here
               DEF Sound, HoldsLocks, Holds, Stands, Agrees, Counts, Importing, OnTheWay,
                   ClosesSoon
  <2> QED BY <2>1, <2>2, <2>3, <1>1, <1>2, <1>3, RankStep DEF Goes, AttachTypes, Sets
<1>4. CASE ~Attach!Installs(r, mine, policyUnchanged)
  BY <1>1, <1>2, <1>4, FailStep, Here DEF Sets
<1> QED BY <1>3, <1>4

LEMMA BeginImportStep ==
  ASSUME AttachInv, NEW r \in Workers, NEW t \in Attach!Threads, Attach!BeginImport(r, t)
  PROVE  AttachInv'
<1> DEFINE x == [thread[r][t] EXCEPT !.pc = "import",
                                     !.snapshot = <<auto[r].selected, auto[r].native>>]
           l == [lock[r] EXCEPT !.txn = t]
<1>1. /\ thread[r][t].pc = "run" /\ auto[r].hooked /\ lock[r].txn = Attach!None
      /\ UNCHANGED <<auto, entry, known, group, handle, engine>>
      /\ lock' = [lock EXCEPT ![r].txn = t]
      /\ thread' = [thread EXCEPT ![r][t].pc = "import",
                              ![r][t].snapshot = <<auto[r].selected, auto[r].native>>]
  BY DEF Attach!BeginImport, Attach!At, Attach!Free
<1>2. thread[r][t] \in ThreadType
  BY Here DEF Attach!Threads
<1>3. x \in ThreadType /\ x.pc = "import"
  <2>1. <<auto[r].selected, auto[r].native>> \in Frameworks \X BOOLEAN
    BY Here DEF AutoType
  <2> QED BY <1>2, <2>1 DEF ThreadType, AttachPlaces, Importing
<1>4. thread' = [thread EXCEPT ![r][t] = x]
  BY <1>1
<1>5. /\ l \in LockType /\ lock' = [lock EXCEPT ![r] = l]
      /\ l.txn = t /\ l.inference = lock[r].inference /\ l.attach = lock[r].attach
  BY <1>1, Here DEF LockType, Owner
<1> HIDE DEF x, l
<1>6. /\ ThreadTypes' /\ \A q \in Workers \ {r} : thread'[q] = thread[q]
      /\ t = "main" => thread'[r].main = x /\ thread'[r].loader = thread[r].loader
      /\ t = "loader" => thread'[r].loader = x /\ thread'[r].main = thread[r].main
  BY <1>3, <1>4, Moves, Here
<1>7. Sound(auto[r], thread'[r], l, handle[r], engine[r], r \in group)
  BY <1>1, <1>3, <1>5, <1>6, Here
     DEF Sound, HoldsLocks, Holds, Stands, Agrees, Counts, Importing, OnTheWay, ClosesSoon,
         Attach!Threads, Attach!None
<1> QED BY <1>1, <1>5, <1>6, <1>7, Here, RankStep DEF AttachTypes, Sets

(* A thread leaves its import, for good or with an exception that the      *)
(* script catches.                                                         *)
LEMMA LeaveImport ==
  ASSUME AttachInv, NEW r \in Workers, NEW t \in Attach!Threads,
         thread[r][t].pc \in {"import", "unwind"},
         lock' = [lock EXCEPT ![r].txn = Attach!None],
         thread' = [thread EXCEPT ![r][t] = Attach!Idle],
         UNCHANGED <<auto, entry, known, group, handle, engine>>
  PROVE  AttachInv'
<1> DEFINE l == [lock[r] EXCEPT !.txn = Attach!None]
<1>1. Attach!Idle \in ThreadType /\ Attach!Idle.pc = "run"
  BY DEF Attach!Idle, ThreadType, AttachPlaces, Frameworks
<1>2. /\ l \in LockType /\ lock' = [lock EXCEPT ![r] = l]
      /\ l.txn = Attach!None /\ l.inference = lock[r].inference /\ l.attach = lock[r].attach
  BY Here DEF LockType, Owner
<1> HIDE DEF l
<1>3. /\ ThreadTypes' /\ \A q \in Workers \ {r} : thread'[q] = thread[q]
      /\ t = "main" => thread'[r].main = Attach!Idle /\ thread'[r].loader = thread[r].loader
      /\ t = "loader" => thread'[r].loader = Attach!Idle /\ thread'[r].main = thread[r].main
  BY <1>1, Moves, Here
<1>4. Sound(auto[r], thread'[r], l, handle[r], engine[r], r \in group)
  BY <1>1, <1>2, <1>3, Here
     DEF Sound, HoldsLocks, Holds, Stands, Agrees, Counts, Importing, OnTheWay, ClosesSoon,
         Attach!Threads, Attach!None
<1> QED BY <1>2, <1>3, <1>4, Here, RankStep DEF AttachTypes, Sets

LEMMA EndImportStep ==
  ASSUME AttachInv, NEW r \in Workers, NEW t \in Attach!Threads, Attach!EndImport(r, t)
  PROVE  AttachInv'
BY LeaveImport DEF Attach!EndImport, Attach!At

(* A thread goes on from one place of an import to another.                *)
LEMMA WithinImport ==
  ASSUME AttachInv, NEW r \in Workers, NEW t \in Attach!Threads,
         NEW place \in {"import", "rollback", "closing", "unwind"},
         Attach!Goto(r, t, place), thread[r][t].pc \in Importing \ {"closing"},
         NEW a \in AutoType, Sets(auto, auto', r, a), a.agreed = auto[r].agreed,
         a.step = auto[r].step,
         handle[r].state = "open" /\ thread[r].main.pc \notin {"attached", "failed"} =>
           place = "closing" \/ ClosesSoon(thread[r])
             \/ (a.selected = auto[r].selected /\ a.native = auto[r].native
                 /\ a.hooked = auto[r].hooked),
         NEW l \in LockType, Sets(lock, lock', r, l),
         l.txn = lock[r].txn, l.attach = lock[r].attach,
         l.inference = lock[r].inference \/ thread[r][t].pc = "select",
         entry' \in [Workers -> SUBSET Frameworks],
         known' \in [Workers -> {Attach!None, "pair", "ambiguous"}],
         UNCHANGED <<group, handle, engine>>
  PROVE  AttachInv'
<1>1. place \in AttachPlaces
  BY DEF AttachPlaces, Importing
<1>2. /\ ThreadTypes' /\ \A q \in Workers \ {r} : thread'[q] = thread[q]
      /\ t = "main" =>
           /\ thread'[r].main.pc = place /\ thread'[r].main.framework = thread[r].main.framework
           /\ thread'[r].main.snapshot = thread[r].main.snapshot
           /\ thread'[r].loader = thread[r].loader
      /\ t = "loader" =>
           /\ thread'[r].loader.pc = place
           /\ thread'[r].loader.snapshot = thread[r].loader.snapshot
           /\ thread'[r].main = thread[r].main
  BY <1>1, GoesOn, Here
<1>3. Sound(a, thread'[r], l, handle[r], engine[r], r \in group)
  BY <1>2, Here
     DEF Sound, HoldsLocks, Holds, Stands, Agrees, Counts, Importing, OnTheWay, ClosesSoon,
         Attach!Threads, Attach!None
<1> QED BY <1>2, <1>3, Here, RankStep DEF AttachTypes, Sets

LEMMA ModuleFailsStep ==
  ASSUME AttachInv, NEW r \in Workers, NEW t \in Attach!Threads, Attach!ModuleFails(r, t)
  PROVE  AttachInv'
<1>1. /\ thread[r][t].pc = "import" /\ Attach!Goto(r, t, "rollback")
      /\ UNCHANGED <<auto, entry, known, lock, group, handle, engine>>
  BY DEF Attach!ModuleFails, Attach!ImportRaises, Attach!At
<1> QED BY <1>1, WithinImport, Here DEF Importing, Sets, AttachTypes

LEMMA RefuseStep ==
  ASSUME AttachInv, NEW r \in Workers, NEW t \in Attach!Threads,
         thread[r][t].pc \in {"import", "select"},
         Attach!Refuse(r, t), NEW l \in LockType, Sets(lock, lock', r, l),
         l.txn = lock[r].txn, l.attach = lock[r].attach,
         l.inference = lock[r].inference \/ thread[r][t].pc = "select",
         UNCHANGED <<group, handle, engine>>
  PROVE  AttachInv'
<1> DEFINE a == [auto[r] EXCEPT !.error = TRUE]
<1>1. /\ a \in AutoType /\ auto' = [auto EXCEPT ![r] = a]
      /\ a.agreed = auto[r].agreed /\ a.selected = auto[r].selected /\ a.step = auto[r].step
      /\ a.native = auto[r].native /\ a.hooked = auto[r].hooked
  BY Here DEF AutoType, Attach!Refuse
<1> HIDE DEF a
<1>2. Attach!Goto(r, t, "rollback") /\ UNCHANGED <<entry, known>>
  BY DEF Attach!Refuse, Attach!ImportRaises
<1> QED BY <1>1, <1>2, WithinImport, Here DEF Importing, Sets, AttachTypes

LEMMA NothingChanges == AttachInv /\ UNCHANGED Attach!vars => AttachInv'
BY DEF AttachInv, AttachTypes, ThreadTypes, AllAgree, SoundAt, Attach!vars

LEMMA ObserveTorchStep ==
  ASSUME AttachInv, NEW r \in Workers, NEW t \in Attach!Threads, Attach!ObserveTorch(r, t)
  PROVE  AttachInv'
<1>1. thread[r][t].pc = "import" /\ UNCHANGED <<lock, group, handle, engine>>
  BY DEF Attach!ObserveTorch, Attach!At
<1>2. CASE auto[r].selected # Attach!None \/ auto[r].native
  BY <1>1, <1>2, NothingChanges DEF Attach!ObserveTorch, Attach!vars
<1>3. CASE /\ ~(auto[r].selected # Attach!None \/ auto[r].native)
           /\ auto[r].agreed \notin {Attach!None, Attach!Native}
  BY <1>1, <1>3, RefuseStep, Here DEF Attach!ObserveTorch, Sets
<1>4. CASE /\ ~(auto[r].selected # Attach!None \/ auto[r].native)
           /\ auto[r].agreed \in {Attach!None, Attach!Native}
  <2> DEFINE a == [auto[r] EXCEPT !.native = TRUE]
  <2>1. Attach!InstallTentative(r) /\ UNCHANGED thread
    BY <1>4 DEF Attach!ObserveTorch
  <2>2. /\ a \in AutoType /\ auto' = [auto EXCEPT ![r] = a]
        /\ a.agreed = auto[r].agreed /\ a.selected = auto[r].selected /\ a.step = auto[r].step
    BY <2>1, Here DEF AutoType, Attach!InstallTentative
  <2> HIDE DEF a
  <2>3. /\ entry' \in [Workers -> SUBSET Frameworks]
        /\ known' \in [Workers -> {Attach!None, "pair", "ambiguous"}]
    BY <2>1, Here DEF AttachTypes, Attach!InstallTentative, Frameworks
  <2>4. Sound(a, thread[r], lock[r], handle[r], engine[r], r \in group)
    BY <1>1, <1>4, <2>2, Here
       DEF Sound, HoldsLocks, Holds, Stands, Agrees, Counts, Importing, OnTheWay, ClosesSoon,
           Attach!None, Attach!Threads
  <2>5. /\ Sets(auto, auto', r, a) /\ Sets(lock, lock', r, lock[r])
        /\ Sets(handle, handle', r, handle[r]) /\ Sets(engine, engine', r, engine[r])
        /\ group' = group /\ thread' = thread
    BY <1>1, <2>1, <2>2 DEF Sets
  <2>6. ThreadTypes' /\ Sound(a, thread'[r], lock[r], handle[r], engine[r], r \in group')
    BY <2>4, <2>5, Here DEF ThreadTypes
  <2> QED BY <2>2, <2>3, <2>5, <2>6, Here, RankStep
<1> QED BY <1>2, <1>3, <1>4

LEMMA ObserveSpecializedStep ==
  ASSUME AttachInv, NEW r \in Workers, NEW t \in Attach!Threads, NEW f \in Specialized,
         Attach!ObserveSpecialized(r, t, f)
  PROVE  AttachInv'
<1>1. /\ thread[r][t].pc = "import" /\ lock[r].inference = Attach!None
      /\ UNCHANGED <<group, handle, engine>>
  BY DEF Attach!ObserveSpecialized, Attach!At, Attach!Free
<1> DEFINE Refused == \/ auto[r].agreed \notin {Attach!None, f}
                      \/ auto[r].selected \notin {Attach!None, f}
<1>2. CASE Refused
  BY <1>1, <1>2, RefuseStep, Here DEF Attach!ObserveSpecialized, Sets
<1>3. CASE ~Refused /\ auto[r].selected = f
  BY <1>1, <1>3, NothingChanges DEF Attach!ObserveSpecialized, Attach!vars
<1>4. CASE ~Refused /\ auto[r].selected # f
  <2> DEFINE x == [thread[r][t] EXCEPT !.pc = "select", !.framework = f]
             l == [lock[r] EXCEPT !.inference = t]
  <2>1. /\ thread' = [thread EXCEPT ![r][t].pc = "select", ![r][t].framework = f]
        /\ lock' = [lock EXCEPT ![r].inference = t] /\ UNCHANGED <<auto, entry, known>>
        /\ auto[r].selected = Attach!None
    BY <1>4 DEF Attach!ObserveSpecialized
  <2>2. thread[r][t] \in ThreadType
    BY Here DEF Attach!Threads
  <2>3. x \in ThreadType /\ x.pc = "select" /\ thread' = [thread EXCEPT ![r][t] = x]
    BY <2>1, <2>2 DEF ThreadType, AttachPlaces, Importing, Frameworks
  <2>4. /\ l \in LockType /\ lock' = [lock EXCEPT ![r] = l]
        /\ l.txn = lock[r].txn /\ l.inference = t /\ l.attach = lock[r].attach
    BY <2>1, Here DEF LockType, Owner
  <2> HIDE DEF x, l
  <2>5. /\ ThreadTypes' /\ \A q \in Workers \ {r} : thread'[q] = thread[q]
        /\ t = "main" => thread'[r].main = x /\ thread'[r].loader = thread[r].loader
        /\ t = "loader" => thread'[r].loader = x /\ thread'[r].main = thread[r].main
    BY <2>3, Moves, Here
  <2>6. Sound(auto[r], thread'[r], l, handle[r], engine[r], r \in group)
    BY <1>1, <2>1, <2>3, <2>4, <2>5, Here
       DEF Sound, HoldsLocks, Holds, Stands, Agrees, Counts, Importing, OnTheWay, ClosesSoon,
           Attach!None, Attach!Threads
  <2> QED BY <1>1, <2>1, <2>4, <2>5, <2>6, Here, RankStep DEF Sets, AttachTypes
<1> QED BY <1>2, <1>3, <1>4

LEMMA SelectSpecializedStep ==
  ASSUME AttachInv, NEW r \in Workers, NEW t \in Attach!Threads, Attach!SelectSpecialized(r, t)
  PROVE  AttachInv'
<1> DEFINE l == [lock[r] EXCEPT !.inference = Attach!None]
           f == thread[r][t].framework
           a == [auto[r] EXCEPT !.native = FALSE, !.selected = f, !.delegate = f]
           b == [auto[r] EXCEPT !.native = FALSE]
<1>1. /\ thread[r][t].pc = "select" /\ UNCHANGED <<group, handle, engine>>
      /\ lock' = [lock EXCEPT ![r].inference = Attach!None]
  BY DEF Attach!SelectSpecialized, Attach!At
<1>2. /\ l \in LockType /\ lock' = [lock EXCEPT ![r] = l]
      /\ l.txn = lock[r].txn /\ l.attach = lock[r].attach
  BY <1>1, Here DEF LockType, Owner
<1>3. f \in Frameworks
  BY Here DEF Attach!Threads, ThreadType
<1>4. handle[r].state = "open" /\ thread[r].main.pc \notin {"attached", "failed"} =>
        ClosesSoon(thread[r])
  BY <1>1, Here DEF Stands, Attach!Threads
<1> HIDE DEF l, f
<1>5. CASE auto[r].native /\ handle[r].state = "open"
  <2>1. Attach!Refuse(r, t)
    BY <1>5 DEF Attach!SelectSpecialized
  <2> QED BY <1>1, <1>2, <2>1, RefuseStep DEF Sets
<1>6. CASE /\ auto' = [auto EXCEPT ![r].native = FALSE, ![r].selected = f, ![r].delegate = f]
           /\ entry' = [entry EXCEPT ![r] = (@ \ {Attach!Native}) \cup {f}]
           /\ Attach!Goto(r, t, "import") /\ UNCHANGED known
  <2>1. /\ a \in AutoType /\ a.agreed = auto[r].agreed /\ a.step = auto[r].step
        /\ auto' = [auto EXCEPT ![r] = a]
    BY <1>3, <1>6, Here DEF AutoType
  <2>2. /\ entry' \in [Workers -> SUBSET Frameworks]
        /\ known' \in [Workers -> {Attach!None, "pair", "ambiguous"}]
    BY <1>3, <1>6, Here DEF AttachTypes
  <2> HIDE DEF a
  <2>3. /\ Sets(auto, auto', r, a) /\ Sets(lock, lock', r, l)
        /\ thread[r][t].pc \in Importing \ {"closing"} /\ Attach!Goto(r, t, "import")
    BY <1>1, <1>2, <1>6, <2>1 DEF Sets, Importing, Attach!ImportRaises
  <2> QED BY <1>1, <1>2, <1>4, <2>1, <2>2, <2>3, WithinImport
<1>7. CASE /\ auto' = [auto EXCEPT ![r].native = FALSE]
           /\ entry' = [entry EXCEPT ![r] = @ \ {Attach!Native}]
           /\ Attach!ImportRaises(r, t) /\ UNCHANGED known
  <2>1. /\ b \in AutoType /\ b.agreed = auto[r].agreed /\ b.step = auto[r].step
        /\ auto' = [auto EXCEPT ![r] = b]
    BY <1>7, Here DEF AutoType
  <2>2. /\ entry' \in [Workers -> SUBSET Frameworks]
        /\ known' \in [Workers -> {Attach!None, "pair", "ambiguous"}]
    BY <1>7, Here DEF AttachTypes
  <2> HIDE DEF b
  <2>3. /\ Sets(auto, auto', r, b) /\ Sets(lock, lock', r, l)
        /\ thread[r][t].pc \in Importing \ {"closing"} /\ Attach!Goto(r, t, "rollback")
    BY <1>1, <1>2, <1>7, <2>1 DEF Sets, Importing, Attach!ImportRaises
  <2> QED BY <1>1, <1>2, <1>4, <2>1, <2>2, <2>3, WithinImport
<1> QED BY <1>5, <1>6, <1>7 DEF Attach!SelectSpecialized, f

LEMMA RollbackStep ==
  ASSUME AttachInv, NEW r \in Workers, NEW t \in Attach!Threads, Attach!Rollback(r, t)
  PROVE  AttachInv'
<1> DEFINE before == thread[r][t].snapshot
           a == [auto[r] EXCEPT !.delegate = Attach!None, !.native = FALSE,
                                !.selected = before[1], !.error = FALSE]
<1>1. /\ thread[r][t].pc = "rollback"
      /\ UNCHANGED <<entry, known, lock, group, handle, engine>>
      /\ \/ Attach!Goto(r, t, "unwind") /\ UNCHANGED auto
         \/ /\ Attach!Goto(r, t, "closing")
            /\ auto' = [auto EXCEPT ![r].delegate = Attach!None, ![r].native = FALSE,
                                    ![r].selected = before[1], ![r].error = FALSE]
  BY DEF Attach!Rollback, Attach!At
<1>2. before[1] \in Frameworks
  BY Here DEF Attach!Threads, ThreadType
<1> HIDE DEF before
<1>3. CASE Attach!Goto(r, t, "unwind") /\ UNCHANGED auto
  BY <1>1, <1>3, WithinImport, Here DEF Importing, Sets, AttachTypes
<1>4. CASE /\ Attach!Goto(r, t, "closing")
           /\ auto' = [auto EXCEPT ![r].delegate = Attach!None, ![r].native = FALSE,
                                   ![r].selected = before[1], ![r].error = FALSE]
  <2>1. /\ a \in AutoType /\ auto' = [auto EXCEPT ![r] = a]
        /\ a.agreed = auto[r].agreed /\ a.step = auto[r].step
    <3>1. auto' = [auto EXCEPT ![r] = a]
      BY <1>4
    <3>2. Attach!None \in Frameworks
      BY DEF Frameworks
    <3> QED BY <1>2, <3>1, <3>2, Here DEF AutoType
  <2> HIDE DEF a
  <2>2. /\ Sets(auto, auto', r, a) /\ Sets(lock, lock', r, lock[r]) /\ lock[r] \in LockType
        /\ thread[r][t].pc \in Importing \ {"closing"} /\ Attach!Goto(r, t, "closing")
        /\ entry' \in [Workers -> SUBSET Frameworks]
        /\ known' \in [Workers -> {Attach!None, "pair", "ambiguous"}]
    BY <1>1, <1>4, <2>1, Here DEF Importing, Sets, AttachTypes
  <2> QED BY <1>1, <2>1, <2>2, WithinImport
<1> QED BY <1>1, <1>3, <1>4

(* _attach closes the handle, or finds none.                               *)
LEMMA Closing ==
  ASSUME AttachInv, NEW r \in Workers, Attach!CloseHandle(r)
  PROVE  \E h \in HandleType : handle' = [handle EXCEPT ![r] = h] /\ h.state # "open"
<1> DEFINE h == [handle[r] EXCEPT !.state = IF @ = "open" THEN "closed" ELSE @]
<1>1. h \in HandleType /\ h.state # "open" /\ handle' = [handle EXCEPT ![r] = h]
  BY Here DEF HandleType, Attach!CloseHandle
<1> QED BY <1>1

LEMMA CloseForgottenStep ==
  ASSUME AttachInv, NEW r \in Workers, NEW t \in Attach!Threads, Attach!CloseForgotten(r, t)
  PROVE  AttachInv'
<1> DEFINE b == [auto[r] EXCEPT !.native = TRUE]
<1>1. /\ thread[r][t].pc = "closing" /\ Attach!Goto(r, t, "unwind")
      /\ UNCHANGED <<lock, group, engine>> /\ Attach!CloseHandle(r)
      /\ \/ /\ auto' = [auto EXCEPT ![r].native = TRUE]
            /\ entry' = [entry EXCEPT ![r] = {Attach!Native}]
            /\ known' = [known EXCEPT ![r] = Attach!None]
         \/ entry' = [entry EXCEPT ![r] = {}] /\ UNCHANGED <<auto, known>>
  BY DEF Attach!CloseForgotten, Attach!At
<1>2. PICK h \in HandleType : handle' = [handle EXCEPT ![r] = h] /\ h.state # "open"
  BY <1>1, Closing
<1>3. PICK a \in AutoType : /\ Sets(auto, auto', r, a) /\ a.agreed = auto[r].agreed
                            /\ entry' \in [Workers -> SUBSET Frameworks]
                            /\ known' \in [Workers -> {Attach!None, "pair", "ambiguous"}]
  <2>1. CASE /\ auto' = [auto EXCEPT ![r].native = TRUE]
             /\ entry' = [entry EXCEPT ![r] = {Attach!Native}]
             /\ known' = [known EXCEPT ![r] = Attach!None]
    <3>1. /\ b \in AutoType /\ auto' = [auto EXCEPT ![r] = b] /\ b.agreed = auto[r].agreed
      BY <2>1, Here DEF AutoType
    <3>2. /\ entry' \in [Workers -> SUBSET Frameworks]
          /\ known' \in [Workers -> {Attach!None, "pair", "ambiguous"}]
      BY <2>1, Here DEF AttachTypes, Frameworks
    <3> QED BY <3>1, <3>2 DEF Sets
  <2>2. CASE entry' = [entry EXCEPT ![r] = {}] /\ UNCHANGED <<auto, known>>
    BY <2>2, Here DEF AttachTypes, Sets
  <2> QED BY <1>1, <2>1, <2>2
<1>4. /\ ThreadTypes' /\ \A q \in Workers \ {r} : thread'[q] = thread[q]
      /\ t = "main" =>
           /\ thread'[r].main.pc = "unwind"
           /\ thread'[r].main.framework = thread[r].main.framework
           /\ thread'[r].main.snapshot = thread[r].main.snapshot
           /\ thread'[r].loader = thread[r].loader
      /\ t = "loader" =>
           /\ thread'[r].loader.pc = "unwind"
           /\ thread'[r].loader.snapshot = thread[r].loader.snapshot
           /\ thread'[r].main = thread[r].main
  BY <1>1, GoesOn, Here DEF AttachPlaces, Importing
<1>5. Sound(a, thread'[r], lock[r], h, engine[r], r \in group)
  BY <1>1, <1>2, <1>3, <1>4, Here
     DEF Sound, HoldsLocks, Holds, Stands, Agrees, Counts, Importing, OnTheWay, ClosesSoon,
         Attach!Threads, Attach!None
<1>6. Sets(lock, lock', r, lock[r]) /\ Sets(engine, engine', r, engine[r]) /\ group' = group
      /\ Sets(handle, handle', r, h)
  BY <1>1, <1>2 DEF Sets
<1> QED BY <1>2, <1>3, <1>4, <1>5, <1>6, Here, RankStep

LEMMA UnwindStep ==
  ASSUME AttachInv, NEW r \in Workers, NEW t \in Attach!Threads, Attach!Unwind(r, t)
  PROVE  AttachInv'
<1>1. thread[r][t].pc = "unwind" /\ UNCHANGED <<auto, entry, known, group, handle, engine>>
  BY DEF Attach!Unwind, Attach!At
<1>2. CASE /\ lock' = [lock EXCEPT ![r].txn = Attach!None]
           /\ thread' = [thread EXCEPT ![r][t] = Attach!Idle]
  BY <1>1, <1>2, LeaveImport
<1>3. CASE Attach!Fail(r)
  BY <1>1, <1>3, FailStep, Here DEF Sets
<1> QED BY <1>2, <1>3 DEF Attach!Unwind

LEMMA InitProcessGroupStep ==
  ASSUME AttachInv, NEW r \in Workers, Attach!InitProcessGroup(r)
  PROVE  AttachInv'
<1> DEFINE l == [lock[r] EXCEPT !.txn = "main"]
<1>1. /\ thread[r].main.pc = "run" /\ lock[r].txn = Attach!None /\ group' = group \cup {r}
      /\ UNCHANGED <<auto, entry, known, handle, engine>>
  BY DEF Attach!InitProcessGroup, Attach!At, Attach!Free
<1>2. CASE Attach!Fail(r)
  BY <1>1, <1>2, FailStep, Here DEF Sets
<1>3. CASE lock' = [lock EXCEPT ![r].txn = "main"] /\ Attach!Goto(r, "main", "gather")
  <2>1. /\ l \in LockType /\ lock' = [lock EXCEPT ![r] = l]
        /\ l.txn = "main" /\ l.inference = lock[r].inference /\ l.attach = lock[r].attach
    BY <1>3, Here DEF LockType, Owner, Attach!Threads
  <2> HIDE DEF l
  <2>2. /\ ThreadTypes' /\ \A q \in Workers \ {r} : thread'[q] = thread[q]
        /\ thread'[r].main.pc = "gather" /\ thread'[r].loader = thread[r].loader
    BY <1>3, GoesOn, Here DEF AttachPlaces, Attach!Threads
  <2>3. Sound(auto[r], thread'[r], l, handle[r], engine[r], r \in group')
    BY <1>1, <2>1, <2>2, Here
       DEF Sound, HoldsLocks, Holds, Stands, Agrees, Counts, Importing, OnTheWay, ClosesSoon,
           Attach!None
  <2> QED BY <1>1, <2>1, <2>2, <2>3, Here, RankStep DEF Sets, AttachTypes
<1> QED BY <1>2, <1>3 DEF Attach!InitProcessGroup

LEMMA ConstructStep ==
  ASSUME AttachInv, NEW r \in Workers, Attach!Construct(r)
  PROVE  AttachInv'
<1>1. known' \in [Workers -> {Attach!None, "pair", "ambiguous"}]
  BY Here DEF Attach!Construct, AttachTypes
<1> QED BY <1>1 DEF Attach!Construct, AttachInv, AttachTypes, ThreadTypes, AllAgree, SoundAt

(* The main thread goes on to _attach, or fails (_before_framework_attach). *)
LEMMA BeforeAttachStep ==
  ASSUME AttachInv, NEW r \in Workers, NEW f \in Frameworks \ {Attach!None},
         thread[r].main.pc \in {"run", "voted"}, Attach!BeforeAttach(r, f),
         UNCHANGED <<entry, known, group, handle, engine>>
  PROVE  AttachInv'
<1> DEFINE a == [auto[r] EXCEPT !.error = TRUE]
           x == [thread[r].main EXCEPT !.pc = "attach", !.framework = f]
<1>1. CASE auto' = [auto EXCEPT ![r].error = TRUE] /\ Attach!Fail(r)
  <2>1. a \in AutoType /\ Sets(auto, auto', r, a) /\ a.agreed = auto[r].agreed
    <3>1. auto' = [auto EXCEPT ![r] = a]
      BY <1>1
    <3> QED BY <3>1, Here DEF AutoType, Sets
  <2> HIDE DEF a
  <2> QED BY <1>1, <2>1, FailStep
<1>2. CASE /\ ~(Attach!Distributed(r) /\ auto[r].agreed # f)
           /\ thread' = [thread EXCEPT ![r].main.pc = "attach", ![r].main.framework = f]
           /\ UNCHANGED <<auto, lock>>
  <2>1. x \in ThreadType /\ x.pc = "attach" /\ x.framework = f
    BY Here DEF ThreadType, AttachPlaces, OnTheWay
  <2>2. thread' = [thread EXCEPT ![r]["main"] = x]
    BY <1>2
  <2> HIDE DEF x
  <2>3. /\ ThreadTypes' /\ \A q \in Workers \ {r} : thread'[q] = thread[q]
        /\ thread'[r].main = x /\ thread'[r].loader = thread[r].loader
    BY <2>1, <2>2, Moves, Here DEF Attach!Threads
  <2>4. Sound(auto[r], thread'[r], lock[r], handle[r], engine[r], r \in group)
    BY <1>2, <2>1, <2>3, Here
       DEF Sound, HoldsLocks, Holds, Stands, Agrees, Counts, Importing, OnTheWay, ClosesSoon,
           Attach!Distributed
  <2> QED BY <1>2, <2>3, <2>4, Here, RankStep DEF Sets, AttachTypes
<1> QED BY <1>1, <1>2 DEF Attach!BeforeAttach

LEMMA SpecializedEntryStep ==
  ASSUME Attach!AttachAssumption, AttachInv, NEW r \in Workers, NEW f \in Specialized,
         Attach!SpecializedEntry(r, f)
  PROVE  AttachInv'
<1>1. f \in Frameworks \ {Attach!None}
  BY DEF Attach!AttachAssumption, Frameworks, Attach!None
<1> QED BY <1>1, BeforeAttachStep DEF Attach!SpecializedEntry, Attach!At

LEMMA ForwardStep ==
  ASSUME AttachInv, NEW r \in Workers, Attach!Forward(r)
  PROVE  AttachInv'
<1>1. /\ thread[r].main.pc = "run" /\ handle[r].state # "open"
      /\ UNCHANGED <<entry, known, group, handle, engine>>
      /\ \/ Attach!BeforeAttach(r, Attach!Native)
         \/ Attach!Fail(r) /\ UNCHANGED auto
         \/ Attach!Goto(r, "main", "vote") /\ UNCHANGED <<lock, auto>>
  BY DEF Attach!Forward, Attach!At
<1>2. CASE Attach!BeforeAttach(r, Attach!Native)
  BY <1>1, <1>2, BeforeAttachStep DEF Frameworks, Attach!Native, Attach!None
<1>3. CASE Attach!Fail(r) /\ UNCHANGED auto
  BY <1>1, <1>3, FailStep, Here DEF Sets
<1>4. CASE Attach!Goto(r, "main", "vote") /\ UNCHANGED <<lock, auto>>
  <2>1. /\ ThreadTypes' /\ \A q \in Workers \ {r} : thread'[q] = thread[q]
        /\ thread'[r].main.pc = "vote" /\ thread'[r].loader = thread[r].loader
    BY <1>4, GoesOn, Here DEF AttachPlaces, Attach!Threads
  <2>2. Sound(auto[r], thread'[r], lock[r], handle[r], engine[r], r \in group)
    BY <1>1, <2>1, Here
       DEF Sound, HoldsLocks, Holds, Stands, Agrees, Counts, Importing, OnTheWay, ClosesSoon
  <2> QED BY <1>1, <1>4, <2>1, <2>2, Here, RankStep DEF Sets, AttachTypes
<1> QED BY <1>1, <1>2, <1>3, <1>4

LEMMA VotedStep ==
  ASSUME AttachInv, NEW r \in Workers, Attach!Voted(r)
  PROVE  AttachInv'
BY BeforeAttachStep DEF Attach!Voted, Attach!At, Frameworks, Attach!Native, Attach!None

LEMMA BeginAttachStep ==
  ASSUME AttachInv, NEW r \in Workers, Attach!BeginAttach(r)
  PROVE  AttachInv'
<1> DEFINE l == [lock[r] EXCEPT !.attach = "main"]
<1>1. /\ thread[r].main.pc = "attach" /\ UNCHANGED <<auto, entry, known, group, handle, engine>>
      /\ \/ Attach!Fail(r)
         \/ lock' = [lock EXCEPT ![r].attach = "main"] /\ Attach!Goto(r, "main", "enable")
  BY DEF Attach!BeginAttach, Attach!At
<1>2. CASE Attach!Fail(r)
  BY <1>1, <1>2, FailStep, Here DEF Sets
<1>3. CASE lock' = [lock EXCEPT ![r].attach = "main"] /\ Attach!Goto(r, "main", "enable")
  <2>1. /\ l \in LockType /\ lock' = [lock EXCEPT ![r] = l]
        /\ l.attach = "main" /\ l.inference = lock[r].inference /\ l.txn = lock[r].txn
    BY <1>3, Here DEF LockType, Owner, Attach!Threads
  <2> HIDE DEF l
  <2>2. /\ ThreadTypes' /\ \A q \in Workers \ {r} : thread'[q] = thread[q]
        /\ thread'[r].main.pc = "enable" /\ thread'[r].main.framework = thread[r].main.framework
        /\ thread'[r].loader = thread[r].loader
    BY <1>3, GoesOn, Here DEF AttachPlaces, OnTheWay, Attach!Threads
  <2>3. Sound(auto[r], thread'[r], l, handle[r], engine[r], r \in group)
    BY <1>1, <2>1, <2>2, Here
       DEF Sound, HoldsLocks, Holds, Stands, Agrees, Counts, Importing, OnTheWay, ClosesSoon
  <2> QED BY <1>1, <2>1, <2>2, <2>3, Here, RankStep DEF Sets, AttachTypes
<1> QED BY <1>1, <1>2, <1>3

LEMMA EnableImportsStep ==
  ASSUME AttachInv, NEW r \in Workers, Attach!EnableImports(r)
  PROVE  AttachInv'
<1>1. /\ thread[r].main.pc = "enable" /\ Attach!Goto(r, "main", "collectives")
      /\ UNCHANGED <<auto, entry, known, lock, group, handle, engine>>
  BY DEF Attach!EnableImports, Attach!At
<1>2. /\ ThreadTypes' /\ \A q \in Workers \ {r} : thread'[q] = thread[q]
      /\ thread'[r].main.pc = "collectives"
      /\ thread'[r].main.framework = thread[r].main.framework
      /\ thread'[r].loader = thread[r].loader
  BY <1>1, GoesOn, Here DEF AttachPlaces, OnTheWay, Attach!Threads
<1>3. Sound(auto[r], thread'[r], lock[r], handle[r], engine[r], r \in group)
  BY <1>1, <1>2, Here
     DEF Sound, HoldsLocks, Holds, Stands, Agrees, Counts, Importing, OnTheWay, ClosesSoon
<1> QED BY <1>1, <1>2, <1>3, Here, RankStep DEF Sets, AttachTypes

LEMMA EnabledStep ==
  ASSUME AttachInv, NEW r \in Workers, Attach!Enabled(r)
  PROVE  AttachInv'
<1>1. /\ thread[r].main.pc = "collectives" /\ UNCHANGED <<auto, known, group>>
      /\ \/ Attach!Fail(r) /\ UNCHANGED <<handle, engine, entry>>
         \/ \E recovered \in {auto[r].step, 0} :
              /\ auto[r].step > 0 => recovered = auto[r].step
              /\ handle' = [handle EXCEPT ![r] =
                    [state |-> "open", framework |-> thread[r].main.framework,
                     step |-> IF auto[r].step > 0 THEN recovered ELSE engine[r]]]
              /\ engine' = [engine EXCEPT ![r] = IF auto[r].step > 0 THEN recovered ELSE @]
              /\ entry' = [entry EXCEPT ![r] = @ \ {thread[r].main.framework}]
              /\ lock' = [lock EXCEPT ![r].attach = Attach!None]
              /\ Attach!Goto(r, "main", "attached")
  BY DEF Attach!Enabled, Attach!At
<1>2. CASE Attach!Fail(r) /\ UNCHANGED <<handle, engine, entry>>
  BY <1>1, <1>2, FailStep, Here DEF Sets
<1>3. ASSUME /\ handle' = [handle EXCEPT ![r] =
                  [state |-> "open", framework |-> thread[r].main.framework,
                   step |-> IF auto[r].step > 0 THEN auto[r].step ELSE engine[r]]]
             /\ engine' = [engine EXCEPT ![r] = IF auto[r].step > 0 THEN auto[r].step ELSE @]
             /\ entry' = [entry EXCEPT ![r] = @ \ {thread[r].main.framework}]
             /\ lock' = [lock EXCEPT ![r].attach = Attach!None]
             /\ Attach!Goto(r, "main", "attached")
      PROVE  AttachInv'
  <2> DEFINE e == IF auto[r].step > 0 THEN auto[r].step ELSE engine[r]
             h == [state |-> "open", framework |-> thread[r].main.framework, step |-> e]
             l == [lock[r] EXCEPT !.attach = Attach!None]
  <2>1. e \in Nat /\ e >= auto[r].step /\ engine' = [engine EXCEPT ![r] = e]
    BY <1>3, Here DEF AutoType
  <2>2. thread[r].main.framework \in Frameworks
    BY Here DEF ThreadType
  <2>3. /\ h \in HandleType /\ handle' = [handle EXCEPT ![r] = h]
        /\ h.state = "open" /\ h.framework = thread[r].main.framework /\ h.step = e
    BY <1>3, <2>1, <2>2 DEF HandleType
  <2>4. /\ l \in LockType /\ lock' = [lock EXCEPT ![r] = l]
        /\ l.attach = Attach!None /\ l.inference = lock[r].inference /\ l.txn = lock[r].txn
    BY <1>3, Here DEF LockType, Owner
  <2>5. /\ entry' \in [Workers -> SUBSET Frameworks]
        /\ known' \in [Workers -> {Attach!None, "pair", "ambiguous"}]
    BY <1>1, <1>3, Here DEF AttachTypes
  <2> HIDE DEF e, h, l
  <2>6. /\ ThreadTypes' /\ \A q \in Workers \ {r} : thread'[q] = thread[q]
        /\ thread'[r].main.pc = "attached"
        /\ thread'[r].main.framework = thread[r].main.framework
        /\ thread'[r].loader = thread[r].loader
    BY <1>3, GoesOn, Here DEF AttachPlaces, OnTheWay, Attach!Threads
  <2>7. Sound(auto[r], thread'[r], l, h, e, r \in group)
    BY <1>1, <2>1, <2>3, <2>4, <2>6, Here
       DEF Sound, HoldsLocks, Holds, Stands, Agrees, Counts, Importing, OnTheWay, ClosesSoon
  <2> QED BY <1>1, <2>1, <2>3, <2>4, <2>5, <2>6, <2>7, Here, RankStep DEF Sets
<1> QED BY <1>1, <1>2, <1>3

LEMMA OnAttachStep ==
  ASSUME AttachInv, NEW r \in Workers, Attach!OnAttach(r)
  PROVE  AttachInv'
<1> DEFINE f == thread[r].main.framework
           a == [auto[r] EXCEPT !.native = FALSE, !.selected = f, !.delegate = f,
                                !.hooked = FALSE]
<1>1. /\ thread[r].main.pc = "attached" /\ lock[r].inference = Attach!None
      /\ UNCHANGED <<entry, known, group, handle, engine>>
      /\ \/ Attach!Fail(r) /\ UNCHANGED auto
         \/ /\ auto' = [auto EXCEPT ![r].native = FALSE, ![r].selected = f,
                                    ![r].delegate = f, ![r].hooked = FALSE]
            /\ thread' = [thread EXCEPT ![r].main = Attach!Idle] /\ UNCHANGED lock
  BY DEF Attach!OnAttach, Attach!At, Attach!Free
<1>2. CASE Attach!Fail(r) /\ UNCHANGED auto
  BY <1>1, <1>2, FailStep, Here DEF Sets
<1>3. CASE /\ auto' = [auto EXCEPT ![r].native = FALSE, ![r].selected = f,
                                   ![r].delegate = f, ![r].hooked = FALSE]
           /\ thread' = [thread EXCEPT ![r].main = Attach!Idle] /\ UNCHANGED lock
  <2>1. f \in Frameworks
    BY Here DEF ThreadType
  <2>2. /\ a \in AutoType /\ auto' = [auto EXCEPT ![r] = a] /\ a.step = auto[r].step
        /\ a.selected = f /\ ~a.native /\ ~a.hooked /\ a.agreed = auto[r].agreed
    BY <1>3, <2>1, Here DEF AutoType
  <2>3. Attach!Idle \in ThreadType /\ Attach!Idle.pc = "run"
    BY DEF Attach!Idle, ThreadType, AttachPlaces, Frameworks
  <2>4. /\ ThreadTypes' /\ \A q \in Workers \ {r} : thread'[q] = thread[q]
        /\ thread'[r].main = Attach!Idle /\ thread'[r].loader = thread[r].loader
    <3>1. thread' = [thread EXCEPT ![r]["main"] = Attach!Idle]
      BY <1>3
    <3> QED BY <2>3, <3>1, Moves, Here DEF Attach!Threads
  <2> HIDE DEF a
  <2>5. Sound(a, thread'[r], lock[r], handle[r], engine[r], r \in group)
    BY <1>1, <2>2, <2>3, <2>4, Here
       DEF Sound, HoldsLocks, Holds, Stands, Agrees, Counts, Importing, OnTheWay, ClosesSoon,
           Attach!None
  <2> QED BY <1>1, <1>3, <2>2, <2>4, <2>5, Here, RankStep DEF Sets, AttachTypes
<1> QED BY <1>1, <1>2, <1>3

LEMMA PeerGoneStep ==
  ASSUME AttachInv, NEW r \in Workers, Attach!PeerGone(r)
  PROVE  AttachInv'
BY FailStep, Here DEF Attach!PeerGone, Sets

LEMMA TrainStepStep ==
  ASSUME AttachInv, NEW r \in Workers, Attach!TrainStep(r)
  PROVE  AttachInv'
<1> DEFINE e == engine[r] + 1
           h == [handle[r] EXCEPT !.step = @ + 1]
<1>1. /\ thread[r].main.pc = "run" /\ handle[r].state = "open"
      /\ engine' = [engine EXCEPT ![r] = e] /\ handle' = [handle EXCEPT ![r].step = @ + 1]
      /\ UNCHANGED <<auto, entry, known, thread, lock, group>>
  BY DEF Attach!TrainStep, Attach!At
<1>2. /\ h \in HandleType /\ handle' = [handle EXCEPT ![r] = h] /\ h.state = handle[r].state
      /\ h.framework = handle[r].framework /\ h.step = handle[r].step + 1
  BY <1>1, Here DEF HandleType
<1>3. /\ e \in Nat
      /\ handle[r].step = engine[r] /\ engine[r] >= auto[r].step =>
           h.step = e /\ e >= auto[r].step
  BY <1>2, Here DEF AutoType
<1> HIDE DEF e, h
<1>4. Sound(auto[r], thread[r], lock[r], h, e, r \in group)
  BY <1>1, <1>2, <1>3, Here
     DEF Sound, HoldsLocks, Holds, Stands, Agrees, Counts, Importing, OnTheWay, ClosesSoon
<1>5. ThreadTypes' /\ Sound(auto[r], thread'[r], lock[r], h, e, r \in group')
  BY <1>1, <1>4, Here DEF ThreadTypes
<1> QED BY <1>1, <1>2, <1>3, <1>5, Here, RankStep DEF Sets, AttachTypes

LEMMA LoadCheckpointStep ==
  ASSUME Attach!AttachAssumption, AttachInv, NEW r \in Workers, Attach!LoadCheckpoint(r)
  PROVE  AttachInv'
<1>1. /\ thread[r].main.pc = "run" /\ handle[r].state = "open"
      /\ UNCHANGED <<auto, entry, known, group>>
      /\ \/ Attach!Fail(r) /\ UNCHANGED <<engine, handle>>
         \/ /\ auto[r].step = 0
            /\ \E s \in 1..LastStep : /\ engine' = [engine EXCEPT ![r] = s]
                                     /\ handle' = [handle EXCEPT ![r].step = s]
                                     /\ UNCHANGED <<thread, lock>>
  BY DEF Attach!LoadCheckpoint, Attach!At, Attach!LoadAllowed
<1>2. CASE Attach!Fail(r) /\ UNCHANGED <<engine, handle>>
  BY <1>1, <1>2, FailStep, Here DEF Sets
<1>3. ASSUME auto[r].step = 0,
             NEW s \in 1..LastStep, engine' = [engine EXCEPT ![r] = s],
             handle' = [handle EXCEPT ![r].step = s], UNCHANGED <<thread, lock>>
      PROVE  AttachInv'
  <2> DEFINE h == [handle[r] EXCEPT !.step = s]
  <2>1. s \in Nat /\ s >= auto[r].step
    BY <1>3 DEF Attach!AttachAssumption
  <2>2. /\ h \in HandleType /\ handle' = [handle EXCEPT ![r] = h] /\ h.state = handle[r].state
        /\ h.framework = handle[r].framework /\ h.step = s
    BY <1>3, <2>1, Here DEF HandleType
  <2> HIDE DEF h
  <2>3. Sound(auto[r], thread[r], lock[r], h, s, r \in group)
    BY <1>1, <2>1, <2>2, Here
       DEF Sound, HoldsLocks, Holds, Stands, Agrees, Counts, Importing, OnTheWay, ClosesSoon
  <2>4. ThreadTypes' /\ Sound(auto[r], thread'[r], lock[r], h, s, r \in group')
    BY <1>1, <1>3, <2>3, Here DEF ThreadTypes
  <2> QED BY <1>1, <1>3, <2>1, <2>2, <2>4, Here, RankStep DEF Sets, AttachTypes
<1> QED BY <1>1, <1>2, <1>3

LEMMA TeardownStep ==
  ASSUME AttachInv, NEW r \in Workers, Attach!Teardown(r)
  PROVE  AttachInv'
<1>1. /\ thread[r].main.pc = "run" /\ Attach!CloseHandle(r) /\ Attach!Goto(r, "main", "done")
      /\ UNCHANGED <<auto, entry, known, lock, group, engine>>
  BY DEF Attach!Teardown, Attach!At
<1>2. PICK h \in HandleType : handle' = [handle EXCEPT ![r] = h] /\ h.state # "open"
  BY <1>1, Closing
<1>3. /\ ThreadTypes' /\ \A q \in Workers \ {r} : thread'[q] = thread[q]
      /\ thread'[r].main.pc = "done" /\ thread'[r].loader = thread[r].loader
  BY <1>1, GoesOn, Here DEF AttachPlaces, Attach!Threads
<1>4. Sound(auto[r], thread'[r], lock[r], h, engine[r], r \in group)
  BY <1>1, <1>2, <1>3, Here
     DEF Sound, HoldsLocks, Holds, Stands, Agrees, Counts, Importing, OnTheWay, ClosesSoon
<1> QED BY <1>1, <1>2, <1>3, <1>4, Here, RankStep DEF Sets, AttachTypes

LEMMA VoteStep == AttachInv /\ Attach!Vote => AttachInv'
<1> DEFINE p == IF \A q \in Workers : known[q] = "pair" THEN "voted" ELSE "failed"
           x == [Attach!Idle EXCEPT !.pc = p]
<1> SUFFICES ASSUME AttachInv, Attach!Vote PROVE AttachInv'
  OBVIOUS
<1>1. /\ \A r \in Workers : thread[r].main.pc = "vote"
      /\ thread' = [r \in Workers |-> [thread[r] EXCEPT !.main = x]]
      /\ UNCHANGED <<auto, entry, known, lock, group, handle, engine>>
  BY DEF Attach!Vote, Attach!At
<1>2. x \in ThreadType /\ x.pc \in {"voted", "failed"}
  BY DEF Attach!Idle, ThreadType, AttachPlaces, Frameworks
<1> HIDE DEF x
<1>3. ASSUME NEW r \in Workers
      PROVE  /\ thread'[r] \in [main : ThreadType, loader : ThreadType]
             /\ SoundAt(r)'
  <2>1. thread'[r] = [thread[r] EXCEPT !.main = x]
    BY <1>1
  <2>2. /\ thread'[r] \in [main : ThreadType, loader : ThreadType]
        /\ thread'[r].main = x /\ thread'[r].loader = thread[r].loader
    BY <1>2, <2>1, Here
  <2>3. Sound(auto[r], thread'[r], lock[r], handle[r], engine[r], r \in group)
    BY <1>1, <1>2, <2>2, Here
       DEF Sound, HoldsLocks, Holds, Stands, Agrees, Counts, Importing, OnTheWay, ClosesSoon
  <2> QED BY <1>1, <2>2, <2>3 DEF SoundAt
<1>4. ThreadTypes'
  BY <1>1, <1>3 DEF ThreadTypes
<1>5. AttachTypes' /\ AllAgree'
  BY <1>1 DEF AttachInv, AttachTypes, AllAgree
<1> QED BY <1>3, <1>4, <1>5 DEF AttachInv

(* At the gather the main thread keeps imports out, so that no failed      *)
(* import is about to close a handle.                                      *)
LEMMA GatherStep == AttachInv /\ Attach!Gather => AttachInv'
<1> SUFFICES ASSUME AttachInv, Attach!Gather PROVE AttachInv'
  OBVIOUS
<1>1. /\ \A r \in Workers : thread[r].main.pc = "gather"
      /\ UNCHANGED <<entry, known, group, handle, engine>>
  BY DEF Attach!Gather, Attach!At
<1>2. CASE \E f \in Specialized \cup {Attach!Native} : Attach!Unanimous(f)
  <2>1. PICK f \in Specialized \cup {Attach!Native} : Attach!Unanimous(f)
    BY <1>2
  <2>2. /\ f # Attach!None /\ f \in Frameworks /\ \A r \in Workers : Attach!Candidate(r) = f
        /\ auto' = [r \in Workers |-> [auto[r] EXCEPT !.agreed = Attach!Candidate(r)]]
        /\ thread' = [r \in Workers |-> [thread[r] EXCEPT !.main.pc = "run"]]
        /\ lock' = [r \in Workers |-> [lock[r] EXCEPT !.txn = Attach!None]]
    BY <1>2, <2>1 DEF Attach!Gather, Attach!Unanimous, Frameworks
  <2>3. ASSUME NEW r \in Workers
        PROVE  /\ auto'[r] \in AutoType /\ auto'[r].agreed = f /\ lock'[r] \in LockType
               /\ thread'[r] \in [main : ThreadType, loader : ThreadType]
               /\ SoundAt(r)'
    <3> DEFINE x == [thread[r].main EXCEPT !.pc = "run"]
    <3>1. x \in ThreadType /\ x.pc = "run"
      BY Here DEF ThreadType, AttachPlaces
    <3>2. thread'[r] = [thread[r] EXCEPT !.main = x]
      BY <2>2
    <3> HIDE DEF x
    <3>3. /\ thread'[r] \in [main : ThreadType, loader : ThreadType]
          /\ thread'[r].main = x /\ thread'[r].loader = thread[r].loader
      BY <3>1, <3>2, Here
    <3>4. auto'[r] = [auto[r] EXCEPT !.agreed = f]
      BY <2>2
    <3>5. /\ auto'[r] \in AutoType /\ auto'[r].agreed = f /\ auto'[r].step = auto[r].step
          /\ auto'[r].selected = auto[r].selected /\ auto'[r].native = auto[r].native
          /\ auto'[r].hooked = auto[r].hooked
      BY <2>2, <3>4, Here DEF AutoType
    <3>6. lock'[r] = [lock[r] EXCEPT !.txn = Attach!None]
      BY <2>2
    <3>7. /\ lock'[r] \in LockType /\ lock'[r].txn = Attach!None
          /\ lock'[r].inference = lock[r].inference /\ lock'[r].attach = lock[r].attach
      BY <3>6, Here DEF LockType, Owner
    <3>8. thread[r].main.pc = "gather" /\ thread[r].loader.pc = "run"
      BY <1>1, Here DEF HoldsLocks, Holds, Importing
    <3>9. handle[r].state = "open" => handle[r].framework = f
      BY <2>2, <3>8, Here DEF Stands, ClosesSoon, Agrees, Attach!Candidate
    <3>10. Sound(auto'[r], thread'[r], lock'[r], handle[r], engine[r], r \in group)
      BY <3>1, <3>3, <3>5, <3>7, <3>8, <3>9, Here
         DEF Sound, HoldsLocks, Holds, Stands, Agrees, Counts, Importing, OnTheWay, ClosesSoon
    <3> QED BY <1>1, <3>3, <3>5, <3>7, <3>10 DEF SoundAt
  <2> QED BY <1>1, <2>2, <2>3 DEF AttachInv, AttachTypes, ThreadTypes, AllAgree
<1>3. CASE ~\E f \in Specialized \cup {Attach!Native} : Attach!Unanimous(f)
  <2>1. /\ auto' = [r \in Workers |-> [auto[r] EXCEPT !.error = TRUE]]
        /\ thread' = [r \in Workers |-> Idles] /\ lock' = [r \in Workers |-> NoLocks]
    BY <1>3 DEF Attach!Gather, Idles, NoLocks
  <2>2. /\ Idles \in [main : ThreadType, loader : ThreadType]
        /\ Idles.main.pc = "failed" /\ Idles.loader = Attach!Idle /\ NoLocks \in LockType
    BY DEF Idles, Attach!Idle, ThreadType, AttachPlaces, Frameworks, NoLocks, LockType, Owner
  <2>3. ASSUME NEW r \in Workers
        PROVE  /\ auto'[r] \in AutoType /\ auto'[r].agreed = auto[r].agreed
               /\ SoundAt(r)'
    <3>1. auto'[r] = [auto[r] EXCEPT !.error = TRUE]
      BY <2>1
    <3>2. handle[r].state = "open" => handle[r].framework # Attach!None
      BY Here DEF Agrees
    <3>3. Sound(auto'[r], Idles, NoLocks, handle[r], engine[r], r \in group)
      BY <2>2, <3>2, FailedIsSound
    <3> QED BY <1>1, <2>1, <3>1, <3>3, Here DEF AutoType, SoundAt
  <2>4. auto' \in [Workers -> AutoType] /\ lock' \in [Workers -> LockType] /\ ThreadTypes'
    BY <2>1, <2>2, <2>3 DEF ThreadTypes
  <2>5. AttachTypes'
    BY <1>1, <2>4 DEF AttachInv, AttachTypes
  <2>6. AllAgree'
    BY <2>3 DEF AttachInv, AllAgree
  <2> QED BY <2>3, <2>4, <2>5, <2>6 DEF AttachInv
<1> QED BY <1>2, <1>3

LEMMA AttachStep ==
  Attach!AttachAssumption /\ AttachInv /\ [Attach!Next]_(Attach!vars) => AttachInv'
<1> SUFFICES ASSUME Attach!AttachAssumption, AttachInv, [Attach!Next]_(Attach!vars)
             PROVE  AttachInv'
  OBVIOUS
<1>1. ASSUME NEW r \in Workers, Attach!AttachCode(r) PROVE AttachInv'
  BY <1>1, VotedStep, BeginAttachStep, EnableImportsStep, EnabledStep, OnAttachStep, PeerGoneStep
     DEF Attach!AttachCode
<1>2. ASSUME NEW r \in Workers, NEW t \in Attach!Threads,
             Attach!BeginImport(r, t) \/ Attach!ImportStep(r, t)
      PROVE  AttachInv'
  BY <1>2, BeginImportStep, EndImportStep, ModuleFailsStep, ObserveTorchStep, ObserveSpecializedStep
     DEF Attach!ImportStep
<1>3. ASSUME NEW r \in Workers, Attach!ScriptStep(r) PROVE AttachInv'
  BY <1>2, <1>3, BootstrapStep, InitProcessGroupStep, ConstructStep, ForwardStep, SpecializedEntryStep,
     TrainStepStep, LoadCheckpointStep, TeardownStep DEF Attach!ScriptStep
<1>4. ASSUME NEW r \in Workers, NEW t \in Attach!Threads, Attach!ImportCode(r, t) PROVE AttachInv'
  BY <1>4, SelectSpecializedStep, RollbackStep, CloseForgottenStep, UnwindStep
     DEF Attach!ImportCode
<1> QED BY <1>1, <1>3, <1>4, GatherStep, VoteStep, NothingChanges DEF Attach!Next

(* Whatever the ranks import and train, and whichever of them fail, a rank *)
(* holds the locks its place asks for, an attached adapter stands by the   *)
(* framework of its handle, the live ranks agree, and steps are counted.   *)
THEOREM AttachInvariant == ASSUME Attach!AttachAssumption PROVE Attach!Spec => []AttachInv
<1>1. Attach!Init => AttachInv
  BY AttachInit
<1>2. AttachInv /\ [Attach!Next]_(Attach!vars) => AttachInv'
  BY AttachStep
<1> QED BY <1>1, <1>2, PTL DEF Attach!Spec

(* Workers of one process group with an open handle have the same framework, *)
(* however the imports of their threads interleave with the votes          *)
(* (_agree_framework_cohort).                                              *)
THEOREM SameFrameworkAlways ==
  ASSUME Attach!AttachAssumption PROVE Attach!Spec => []SameFramework
<1>1. AttachInv => SameFramework
  <2> SUFFICES ASSUME AttachInv, NEW a \in group \ Attach!Failed, NEW b \in group \ Attach!Failed,
                      handle[a].state = "open", handle[b].state = "open",
                      \A r \in {a, b} : ~Attach!At(r, "main", "gather")
               PROVE  handle[a].framework = handle[b].framework
    BY DEF SameFramework, Attach!SameFramework
  <2>1. a \in Workers /\ b \in Workers
    BY Here DEF AttachInv, AttachTypes
  <2>2. ASSUME NEW r \in {a, b} PROVE handle[r].framework = auto[r].agreed
    BY <2>1, <2>2, Here DEF Agrees, Attach!Failed, Attach!At
  <2>3. auto[a].agreed = auto[b].agreed
    BY <2>1 DEF AttachInv, AllAgree
  <2> QED BY <2>2, <2>3
<1> QED BY <1>1, AttachInvariant, PTL

(* The step counter of an open handle is that of the state the engine has, *)
(* also after a selected step or a checkpoint was loaded.                  *)
THEOREM CountsTheStateItHasAlways ==
  ASSUME Attach!AttachAssumption PROVE Attach!Spec => []CountsTheStateItHas
<1>1. AttachInv => CountsTheStateItHas
  BY Here DEF CountsTheStateItHas, Attach!CountsTheStateItHas, Counts, Attach!Failed, Attach!At
<1> QED BY <1>1, AttachInvariant, PTL
=============================================================================
