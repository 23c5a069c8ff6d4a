------------------------------ MODULE Rendezvous ------------------------------
(***************************************************************************)
(* SimpleRendezvousHandler: one torchrun agent per node that registers,    *)
(* parks or joins the generation its manager committed, watches for the    *)
(* next one, and comes back for it.                                        *)
(*                                                                         *)
(* The manager's side is the generation log (PlanStore implements it): a   *)
(* generation and its placement appear in one step.  An agent polls the    *)
(* store; one action is one round of polling, and the reads of a round     *)
(* that could be reordered with it are in the same action.                 *)
(*                                                                         *)
(* Leases and heartbeats are sequence numbers that a reader compares only  *)
(* with the last one it saw: the first look never counts as live, a newer  *)
(* number does, and a live observation lapses with time.  Time is a lapse  *)
(* or a timeout that may happen at any moment (PlanLease has the clock).   *)
(***************************************************************************)
EXTENDS Integers, Sequences, FiniteSets

CONSTANTS
  Nodes, NumSlots, MaxGen, Shapes, None,
  MaxNodes,           \* torchrun max_nodes, the same for every agent
  MaxRegistrations,   \* bound on the handlers that are ever constructed
  Policies            \* the worker policies the nodes can be started with

VARIABLES
  generation, history,   \* the generation log
  registrations,         \* initial/registrations: nodes in order of arrival
  closed,                \* the closed key
  published,             \* generations whose plan lease key exists
  ended,                 \* generations whose lease reports no time left
  ready,                 \* ready[g]: nodes with a ready record for g
  address,               \* generations whose slot 0 published its address
  pc,                    \* where the agent of each node is
  gen,                   \* generation the agent is trying to join
  last,                  \* _last_generation, -1 for None
  lease,                 \* the agent's last look at a plan lease
  policy,                \* policy[n]: digest of the worker policy of node n
  running,               \* generation its workers run in, -1 for none
  context                \* generation in its restart-context file, -1 for none

logVars   == <<generation, history>>
storeVars == <<registrations, closed, published, ended, ready, address>>
agentVars == <<pc, gen, last, lease, running, context>>
moving    == <<logVars, storeVars, agentVars>>
vars      == <<moving, policy>>          \* the policy of a node never changes

Log == INSTANCE GenerationLog

ASSUME RendezvousAssumption ==
  /\ Log!ConstantsOK
  /\ MaxNodes \in Nat /\ NumSlots <= MaxNodes
  /\ MaxRegistrations \in Nat
  /\ \A f \in Policies : DOMAIN f = Nodes

Gens   == 0 .. MaxGen
Slots  == 0 .. NumSlots - 1
Active(g) == Log!ActiveNodes(history[g])

(* The committed generation gives node n a slot. *)
Assigned(n) == history[generation] # None /\ n \in Active(generation)

(***************************************************************************)
(* _decode_registrations: two agents of one node, or more nodes than       *)
(* max_nodes, and the log no longer decodes.                               *)
(***************************************************************************)
Decodable(log) ==
  /\ \A i, j \in 1 .. Len(log) : log[i] = log[j] => i = j
  /\ Len(log) <= MaxNodes

Registered(n) == \E i \in 1 .. Len(registrations) : registrations[i] = n

-----------------------------------------------------------------------------
(***************************************************************************)
(* _plan_lease_is_live: what a look at the lease of generation g returns,  *)
(* and what the agent remembers of it.  lease[n].newer says that the store *)
(* holds a later sequence number than the one the agent remembers.         *)
(***************************************************************************)
Unseen == [gen |-> -1, live |-> FALSE, newer |-> FALSE]

Looked(n, g) ==
  IF g \notin published THEN lease[n]
  ELSE IF lease[n].gen # g THEN [gen |-> g, live |-> FALSE, newer |-> FALSE]
  ELSE IF lease[n].newer THEN [gen |-> g, live |-> g \notin ended, newer |-> FALSE]
  ELSE lease[n]

IsLive(n, g) == g \in published /\ Looked(n, g).gen = g /\ Looked(n, g).live

Look(n, g) == lease' = [lease EXCEPT ![n] = Looked(n, g)]

(* _check_plan_lease: generation 0 has no plan and so no lease. *)
LeaseHolds(n) == gen[n] = 0 \/ IsLive(n, gen[n])
CheckLease(n) == IF gen[n] = 0 THEN UNCHANGED lease ELSE Look(n, gen[n])

Goto(n, where) == pc' = [pc EXCEPT ![n] = where]

(* The agent process ends: its memory and its workers are gone, its files stay. *)
Stops(n) ==
  /\ Goto(n, "off")
  /\ gen' = [gen EXCEPT ![n] = 0]
  /\ last' = [last EXCEPT ![n] = -1]
  /\ lease' = [lease EXCEPT ![n] = Unseen]
  /\ running' = [running EXCEPT ![n] = -1]
  /\ UNCHANGED context

(* Back to the top of the loop of next_rendezvous. *)
Again(n) ==
  /\ Goto(n, "loop")
  /\ gen' = [gen EXCEPT ![n] = 0]

Init ==
  /\ Log!Init
  /\ registrations = <<>>
  /\ closed = FALSE
  /\ published = {} /\ ended = {}
  /\ ready = [g \in Gens |-> {}]
  /\ address = {}
  /\ pc = [n \in Nodes |-> "off"]
  /\ gen = [n \in Nodes |-> 0]
  /\ last = [n \in Nodes |-> -1]
  /\ lease = [n \in Nodes |-> Unseen]
  /\ running = [n \in Nodes |-> -1]
  /\ \E stale \in {-1, MaxGen} :   \* no files, or those an earlier run left behind
       context = [n \in Nodes |-> stale]
  /\ policy \in Policies

-----------------------------------------------------------------------------
(***************************************************************************)
(* The constructor of a handler: the node registers with a fresh agent_id, *)
(* also when an earlier agent of the same node has died; the record is     *)
(* appended before the log is found not to decode.                         *)
(***************************************************************************)
Construct(n) ==
  /\ pc[n] = "off"
  /\ Len(registrations) < MaxRegistrations
  /\ registrations' = Append(registrations, n)
  /\ Goto(n, IF Decodable(registrations') THEN "loop" ELSE "off")
  /\ UNCHANGED <<logVars, closed, published, ended, ready, address,
                 gen, last, lease, running, context>>

(* next_rendezvous, top of the loop: a generation newer than the last one. *)
ReadGeneration(n) ==
  /\ pc[n] = "loop" /\ ~closed
  /\ generation > last[n]
  /\ gen' = [gen EXCEPT ![n] = generation]
  /\ Goto(n, "assign")
  /\ UNCHANGED <<logVars, storeVars, last, lease, running, context>>

(* _assignment in generation 0 raises: the registrations do not decode. *)
AssignCorrupt(n) ==
  /\ pc[n] = "assign" /\ gen[n] = 0
  /\ ~Decodable(registrations)
  /\ Stops(n)
  /\ UNCHANGED <<logVars, storeVars>>

(* _assignment in generation 0: too few registrations yet. *)
AssignTooFew(n) ==
  /\ pc[n] = "assign" /\ gen[n] = 0
  /\ Decodable(registrations)
  /\ Len(registrations) < NumSlots
  /\ Again(n)
  /\ UNCHANGED <<logVars, storeVars, last, lease, running, context>>

(* The first NumSlots registered nodes, in order of registration. *)
InitialPlacement ==
  [active |-> [s \in Slots |-> registrations[s + 1]], quarantined |-> {}, shape |-> None]

(* Mutant: a restart context of an earlier run is left in place. *)
AssignInitialKeepsContext(n) ==
  /\ pc[n] = "assign" /\ gen[n] = 0
  /\ Decodable(registrations)
  /\ Len(registrations) >= NumSlots
  /\ history' = IF history[0] = None
                THEN [history EXCEPT ![0] = InitialPlacement] ELSE history
  /\ Goto(n, IF n \in Log!ActiveNodes(history'[0]) THEN "ready" ELSE "loop")
  /\ UNCHANGED <<generation, storeVars, gen, last, lease, running, context>>

(***************************************************************************)
(* _assignment in generation 0: commit the initial nodes, or find them     *)
(* committed.  A selected node clears its stale restart context; another   *)
(* one parks and polls again.                                              *)
(***************************************************************************)
AssignInitial(n) ==
  /\ pc[n] = "assign" /\ gen[n] = 0
  /\ Decodable(registrations)
  /\ Len(registrations) >= NumSlots
  /\ history' = IF history[0] = None
                THEN [history EXCEPT ![0] = InitialPlacement] ELSE history
  /\ IF n \in Log!ActiveNodes(history'[0])
     THEN Goto(n, "ready") /\ context' = [context EXCEPT ![n] = -1]
     ELSE Goto(n, "loop") /\ UNCHANGED context
  /\ UNCHANGED <<generation, storeVars, gen, last, lease, running>>

(* _assignment in a later generation: selected nodes go on, others park. *)
AssignFromPlan(n) ==
  /\ pc[n] = "assign" /\ gen[n] > 0
  /\ IF n \in Active(gen[n]) THEN Goto(n, "lease") /\ UNCHANGED gen ELSE Again(n)
  /\ UNCHANGED <<logVars, storeVars, last, lease, running, context>>

(* _wait_for_plan_lease: one look at the lease of the plan. *)
WaitForPlanLease(n) ==
  /\ pc[n] = "lease" /\ ~closed
  /\ generation = gen[n]
  /\ Look(n, gen[n])
  /\ Goto(n, IF IsLive(n, gen[n]) THEN "ready" ELSE "lease")
  /\ UNCHANGED <<logVars, storeVars, gen, last, running, context>>

(* The generation moved on: start again with the new one. *)
GenerationMoved(n) ==
  /\ pc[n] \in {"lease", "group"} /\ ~closed
  /\ generation # gen[n]
  /\ Again(n)
  /\ UNCHANGED <<logVars, storeVars, last, lease, running, context>>

(* The ready record of this agent for this generation. *)
SetReady(n) ==
  /\ pc[n] = "ready"
  /\ ready' = [ready EXCEPT ![gen[n]] = @ \cup {n}]
  /\ Goto(n, "group")
  /\ UNCHANGED <<logVars, registrations, closed, published, ended, address,
                 gen, last, lease, running, context>>

(* Mutant: the barrier opens when some assigned node is ready. *)
SomeoneIsReady(n) == Active(gen[n]) \cap ready[gen[n]] # {}

GroupIsReady(n) == Active(gen[n]) \subseteq ready[gen[n]]

(* Mutant: an agent compares its peers with each other and not with itself. *)
SamePolicyOfPeers(n) == \A a, b \in Active(gen[n]) \ {n} : policy[a] = policy[b]

SamePolicy(n) == \A a, b \in Active(gen[n]) : policy[a] = policy[b]

(* _wait_for_group and _check_plan_lease raise: the lease elapsed. *)
GroupLeaseElapsed(n) ==
  /\ pc[n] = "group" /\ ~closed
  /\ generation = gen[n]
  /\ ~LeaseHolds(n)
  /\ Stops(n)
  /\ UNCHANGED <<logVars, storeVars>>

(* _wait_for_group raises: the assigned nodes disagree on their policy. *)
GroupPolicyConflict(n) ==
  /\ pc[n] = "group" /\ ~closed
  /\ generation = gen[n]
  /\ LeaseHolds(n)
  /\ GroupIsReady(n) /\ ~SamePolicy(n)
  /\ Stops(n)
  /\ UNCHANGED <<logVars, storeVars>>

(***************************************************************************)
(* _wait_for_group returns, the generation is read again and found         *)
(* unchanged, and the lease is checked again: the agent is a member.  The  *)
(* heartbeats it judged live are those of agents that set a ready record;  *)
(* an agent that died within the heartbeat timeout still counts as live.   *)
(***************************************************************************)
GroupComplete(n) ==
  /\ pc[n] = "group" /\ ~closed
  /\ generation = gen[n]
  /\ LeaseHolds(n)
  /\ CheckLease(n)
  /\ GroupIsReady(n) /\ SamePolicy(n)
  /\ last' = [last EXCEPT ![n] = gen[n]]
  /\ Goto(n, "bootstrap")
  /\ UNCHANGED <<logVars, storeVars, gen, running, context>>

(* _build_bootstrap: slot 0 publishes its address, the others wait for it. *)
BuildBootstrap(n) ==
  /\ pc[n] = "bootstrap"
  /\ \/ history[gen[n]].active[0] = n
     \/ gen[n] \in address
  /\ address' = IF history[gen[n]].active[0] = n THEN address \cup {gen[n]} ELSE address
  /\ Goto(n, "context")
  /\ UNCHANGED <<logVars, registrations, closed, published, ended, ready,
                 gen, last, lease, running, context>>

(* The last lease check fails: no context is written and the agent raises. *)
ContextLeaseElapsed(n) ==
  /\ pc[n] = "context"
  /\ ~LeaseHolds(n)
  /\ Stops(n)
  /\ UNCHANGED <<logVars, storeVars>>

(* The restart context is replaced and the workers start in this generation. *)
Join(n) ==
  /\ pc[n] = "context"
  /\ LeaseHolds(n)
  /\ CheckLease(n)
  /\ context' = IF gen[n] = 0 THEN context ELSE [context EXCEPT ![n] = gen[n]]
  /\ running' = [running EXCEPT ![n] = gen[n]]
  /\ Goto(n, "joined")
  /\ UNCHANGED <<logVars, storeVars, gen, last>>

-----------------------------------------------------------------------------
NewNodes(n) == Active(generation) \ Active(last[n])

(* Mutant: only the nodes of the successor look at it. *)
ChangeForAssignedOnly(n) ==
  /\ pc[n] = "joined"
  /\ generation > last[n]
  /\ n \in Active(generation)
  /\ IsLive(n, generation)
  /\ Look(n, generation)
  /\ running' = [running EXCEPT ![n] = -1]
  /\ Again(n)
  /\ UNCHANGED <<logVars, storeVars, last, context>>

(***************************************************************************)
(* num_nodes_waiting returns a positive number: a newer generation is      *)
(* committed, its lease is live, and it needs no new node or one of its    *)
(* new nodes has an agent.  torchrun stops the workers and calls           *)
(* next_rendezvous.                                                        *)
(***************************************************************************)
MembershipChange(n) ==
  /\ pc[n] = "joined"
  /\ generation > last[n]
  /\ IsLive(n, generation)
  /\ Look(n, generation)
  /\ NewNodes(n) # {} =>
       \E r \in NewNodes(n) : Registered(r)
  /\ running' = [running EXCEPT ![n] = -1]
  /\ Again(n)
  /\ UNCHANGED <<logVars, storeVars, last, context>>

(* num_nodes_waiting looks at a lease that is not live yet and returns 0. *)
MembershipPoll(n) ==
  /\ pc[n] = "joined"
  /\ generation > last[n]
  /\ ~IsLive(n, generation)
  /\ Look(n, generation)
  /\ UNCHANGED <<logVars, storeVars, pc, gen, last, running, context>>

(* The workers fail and torchrun calls next_rendezvous. *)
WorkerFailure(n) ==
  /\ pc[n] = "joined"
  /\ running' = [running EXCEPT ![n] = -1]
  /\ Again(n)
  /\ UNCHANGED <<logVars, storeVars, last, lease, context>>

(* Mutant: a parked agent does not look at the closed key. *)
ExitClosedNotParked(n) ==
  /\ closed
  /\ pc[n] \in {"lease", "group"}
  /\ Stops(n)
  /\ UNCHANGED <<logVars, storeVars>>

(* _raise_if_closed, at the top of the three polling loops. *)
ExitClosed(n) ==
  /\ closed
  /\ pc[n] \in {"loop", "lease", "group"}
  /\ Stops(n)
  /\ UNCHANGED <<logVars, storeVars>>

(* Mutant: the wait for the address of slot 0 has no deadline. *)
TimeoutNotInBootstrap(n) ==
  /\ \/ pc[n] \in {"lease", "group"}
     \/ pc[n] = "loop" /\ generation <= last[n]
     \/ pc[n] = "loop" /\ generation = 0 /\ Len(registrations) < NumSlots
  /\ Stops(n)
  /\ UNCHANGED <<logVars, storeVars>>

(* One of the deadlines of next_rendezvous passes; a parked agent has none. *)
Timeout(n) ==
  /\ \/ pc[n] \in {"lease", "group", "bootstrap"}
     \/ pc[n] = "loop" /\ generation <= last[n]
     \/ pc[n] = "loop" /\ generation = 0 /\ Len(registrations) < NumSlots
  /\ Stops(n)
  /\ UNCHANGED <<logVars, storeVars>>

(* The agent process dies, or its heartbeat thread fails and it raises. *)
AgentFailure(n) ==
  /\ pc[n] # "off"
  /\ Stops(n)
  /\ UNCHANGED <<logVars, storeVars>>

(* A live observation of a lease lapses. *)
Lapse(n) ==
  /\ lease[n].live
  /\ lease' = [lease EXCEPT ![n].live = FALSE]
  /\ UNCHANGED <<logVars, storeVars, pc, gen, last, running, context>>

-----------------------------------------------------------------------------
Commit(p) ==
  /\ history' = [history EXCEPT ![generation + 1] = p]
  /\ generation' = generation + 1
  /\ UNCHANGED <<storeVars, agentVars>>

(* publish_successor without a replacement. *)
CommitRestart(sh) ==
  /\ generation < MaxGen /\ history[generation] # None
  /\ Log!KeepsShape(history[generation], [shape |-> sh])
  /\ Commit([history[generation] EXCEPT !.shape = sh])

(* Mutant: the replacement may already hold a slot. *)
CommitActiveReplacement(sh, s, r) ==
  /\ generation < MaxGen /\ history[generation] # None
  /\ Log!KeepsShape(history[generation], [shape |-> sh])
  /\ Decodable(registrations)
  /\ Registered(r)
  /\ Commit([active      |-> [history[generation].active EXCEPT ![s] = r],
             quarantined |-> history[generation].quarantined
                               \cup {history[generation].active[s]},
             shape       |-> sh])

(* publish_successor with a registered replacement r for slot s. *)
CommitReplacement(sh, s, r) ==
  /\ generation < MaxGen /\ history[generation] # None
  /\ Log!KeepsShape(history[generation], [shape |-> sh])
  /\ Decodable(registrations)
  /\ Registered(r)
  /\ r \notin Active(generation) \cup history[generation].quarantined
  /\ Commit([active      |-> [history[generation].active EXCEPT ![s] = r],
             quarantined |-> history[generation].quarantined
                               \cup {history[generation].active[s]},
             shape       |-> sh])

(* A renewal of a plan lease reaches the store, perhaps one of an old plan. *)
RenewLease(g) ==
  /\ g \in 1 .. generation
  /\ g \notin ended
  /\ published' = published \cup {g}
  /\ lease' = [n \in Nodes |->
                 IF lease[n].gen = g THEN [lease[n] EXCEPT !.newer = TRUE] ELSE lease[n]]
  /\ UNCHANGED <<logVars, registrations, closed, ended, ready, address,
                 pc, gen, last, running, context>>

(* The restart deadline passes: the last renewal leaves no time. *)
EndLease(g) ==
  /\ g \in published \ ended
  /\ ended' = ended \cup {g}
  /\ lease' = [n \in Nodes |->
                 IF lease[n].gen = g THEN [lease[n] EXCEPT !.newer = TRUE] ELSE lease[n]]
  /\ UNCHANGED <<logVars, registrations, closed, published, ready, address,
                 pc, gen, last, running, context>>

(* close_run: the manager closes the run. *)
CloseRun ==
  /\ ~closed
  /\ closed' = TRUE
  /\ UNCHANGED <<logVars, registrations, published, ended, ready, address, agentVars>>

Agent(n) ==
  \/ ReadGeneration(n) \/ AssignCorrupt(n) \/ AssignTooFew(n) \/ AssignInitial(n)
  \/ AssignFromPlan(n) \/ WaitForPlanLease(n) \/ GenerationMoved(n) \/ SetReady(n)
  \/ GroupLeaseElapsed(n) \/ GroupPolicyConflict(n) \/ GroupComplete(n)
  \/ BuildBootstrap(n) \/ ContextLeaseElapsed(n) \/ Join(n)
  \/ MembershipChange(n) \/ MembershipPoll(n) \/ ExitClosed(n)

Next ==
  /\ UNCHANGED policy
  /\ \/ \E n \in Nodes :
          \/ Construct(n) \/ Agent(n)
          \/ WorkerFailure(n) \/ Timeout(n) \/ AgentFailure(n) \/ Lapse(n)
     \/ \E sh \in Shapes : CommitRestart(sh)
     \/ \E sh \in Shapes, s \in Slots, r \in Nodes : CommitReplacement(sh, s, r)
     \/ \E g \in Gens : RenewLease(g) \/ EndLease(g)
     \/ CloseRun

Spec == Init /\ [][Next]_vars

(***************************************************************************)
(* Fairness.  An agent's threads are scheduled, so its polling loops go    *)
(* round and its deadlines pass.  A group is only sure to complete, and a  *)
(* membership change to be seen, while the agents waited for are alive:    *)
(* the heartbeats of a dead one lapse.  Nothing is assumed of commits,     *)
(* failures, renewals or the end of the run.                               *)
(***************************************************************************)
Alive(S) == \A r \in S : pc[r] # "off"

Progress(n) ==
  \/ ReadGeneration(n) \/ AssignCorrupt(n) \/ AssignTooFew(n) \/ AssignInitial(n)
  \/ AssignFromPlan(n) \/ WaitForPlanLease(n) \/ GenerationMoved(n) \/ SetReady(n)
  \/ GroupLeaseElapsed(n) \/ GroupPolicyConflict(n)
  \/ GroupComplete(n) /\ Alive(Active(gen[n]))
  \/ BuildBootstrap(n) \/ ContextLeaseElapsed(n) \/ Join(n)
  \/ MembershipChange(n) /\ Alive(NewNodes(n))
  \/ MembershipPoll(n) \/ ExitClosed(n)

FairSpec ==
  /\ Spec
  /\ \A n \in Nodes : WF_moving(Progress(n)) /\ WF_moving(Timeout(n))

-----------------------------------------------------------------------------
Places == {"off", "loop", "assign", "lease", "ready", "group", "bootstrap",
           "context", "joined"}

TypeOK ==
  /\ Log!TypeOK
  /\ registrations \in Seq(Nodes)
  /\ closed \in BOOLEAN
  /\ published \subseteq 1 .. generation /\ ended \subseteq published
  /\ ready \in [Gens -> SUBSET Nodes]
  /\ address \subseteq Gens
  /\ pc \in [Nodes -> Places]
  /\ gen \in [Nodes -> Gens]
  /\ last \in [Nodes -> Gens \cup {-1}]
  /\ lease \in [Nodes -> [gen : Gens \cup {-1}, live : BOOLEAN, newer : BOOLEAN]]
  /\ running \in [Nodes -> Gens \cup {-1}]
  /\ context \in [Nodes -> Gens \cup {-1}]
  /\ policy \in Policies

(***************************************************************************)
(* The agents and the initial assignment they race to write never change   *)
(* a committed generation: what Rendezvous does to the store is a          *)
(* behaviour of the generation log.                                        *)
(***************************************************************************)
ImplementsLog == Log!Spec

(***************************************************************************)
(* The group barrier of next_rendezvous separates generations: while one   *)
(* agent's workers run in generation g, no agent that g assigns a slot     *)
(* still has workers of an older generation.                               *)
(***************************************************************************)
NoMixedGenerations ==
  \A n \in Nodes : running[n] >= 0 =>
    \A r \in Active(running[n]) : running[r] = -1 \/ running[r] >= running[n]

(***************************************************************************)
(* Workers only run on a node to which their generation assigns a slot,    *)
(* and the nodes of that generation agree on the worker policy.            *)
(***************************************************************************)
RunsAsAssigned ==
  \A n \in Nodes : running[n] >= 0 =>
    /\ running[n] <= generation
    /\ n \in Active(running[n])
    /\ \A a, b \in Active(running[n]) : policy[a] = policy[b]

(***************************************************************************)
(* Workers find the restart context of the generation they run in, or none *)
(* in generation 0, whatever file an earlier run or generation left on the *)
(* node.                                                                   *)
(***************************************************************************)
ContextIsOwn ==
  \A n \in Nodes : running[n] >= 0 =>
    context[n] = IF running[n] = 0 THEN -1 ELSE running[n]

(***************************************************************************)
(* An agent to which the committed generation assigns a slot does not stay *)
(* in next_rendezvous: it returns, or it raises, or a later generation     *)
(* takes the slot away.  That holds with dead peers, a lapsed lease, a     *)
(* coordinator that never renews and a slot 0 that never publishes its     *)
(* address.                                                                *)
(***************************************************************************)
AssignedNodeSettles ==
  \A n \in Nodes :
    Assigned(n) ~> (pc[n] \in {"joined", "off"} \/ ~Assigned(n))

(***************************************************************************)
(* Once the manager closes the run, no agent stays in next_rendezvous;     *)
(* standbys that wait there without any deadline leave too.                *)
(***************************************************************************)
ClosedRunDrains ==
  \A n \in Nodes :
    (closed /\ pc[n] # "joined") ~> (pc[n] \in {"off", "joined"})

(***************************************************************************)
(* While the lease of a committed successor is renewed and its new nodes   *)
(* are alive, every agent stops the workers of the generation before, the  *)
(* agent of the quarantined node included.                                 *)
(***************************************************************************)
OldWorkersStop ==
  WF_moving(RenewLease(generation)) =>
    \A n \in Nodes :
      (running[n] >= 0 /\ generation = MaxGen /\ running[n] < MaxGen)
        ~> \/ running[n] \in {-1, MaxGen}
           \/ MaxGen \in ended
           \/ history[MaxGen] # None /\ ~Alive(Active(MaxGen))
=============================================================================
