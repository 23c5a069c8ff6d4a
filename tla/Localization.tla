---------------------------- MODULE Localization ----------------------------
(***************************************************************************)
(* Fault localization by overlapping process groups                        *)
(* (lm_resiliency/detection): collective_timing.py collects the latencies  *)
(* of a window, communication_localizer.py looks for the endpoint that all *)
(* slow groups share, switch_localizer.py for the switch, cross_pg.py does *)
(* the first over the flags the ranks report after a replay.               *)
(*                                                                         *)
(* The variable fault is the truth the localizers try to find: an endpoint *)
(* (a rank), a switch, or nothing.  A group with a faulty endpoint is slow *)
(* or in the neutral zone, a group routed over a faulty switch is slow;    *)
(* straggler is a rank whose compute is known to be slow.  Latencies are   *)
(* in tenths of the baseline of the group.                                 *)
(***************************************************************************)
EXTENDS Integers, FiniteSets, FiniteSetsExt, Sequences, SequencesExt

CONSTANTS
  Ranks,
  Groups, Members, \* process groups and the ranks of each
  Leaf,          \* rank -> leaf switch of its node
  Spine,         \* default_spine
  SlowFactor, HealthyFactor, \* in tenths
  Persistence,
  MinSlowGroups,
  MaxSamples,    \* bound: collectives of one group in a window
  MaxRounds      \* bound: detection rounds

LocalizationAssumption ==
  /\ IsFiniteSet(Ranks)
  /\ Members \in [Groups -> (SUBSET Ranks) \ {{}}]
  /\ {HealthyFactor, SlowFactor} \subseteq Nat
  /\ 10 <= HealthyFactor /\ HealthyFactor + 1 < SlowFactor
  /\ Persistence \in Nat \ {0} /\ MinSlowGroups \in Nat \ {0, 1}

Levels == [healthy |-> 10, neutral |-> (HealthyFactor + SlowFactor) \div 2,
           slow |-> 2 * SlowFactor]

VARIABLES
  fault, straggler,  \* the truth, and what compute replay has found
  samples, failed,   \* the collector's window
  endpoint,          \* CommunicationLocalizer: candidate and streak
  switch,            \* SwitchLocalizer: suspect and streak
  verdict,           \* what the round that just ended returned
  truths             \* history: the fault of every round

vars == <<fault, straggler, samples, failed, endpoint, switch, verdict, truths>>

Empty == [g \in Groups |-> <<>>]
Nobody == [suspect |-> {}, streak |-> 0]
NoVerdict == [endpoint |-> {}, switch |-> {}, crossPG |-> {}]

-----------------------------------------------------------------------------
(* FabricTopology.switches_on_path: the leaves, and the spine between two. *)
PathOf(g) ==
  LET leaves == {Leaf[r] : r \in Members[g]}
  IN  leaves \cup IF Cardinality(leaves) > 1 THEN {Spine} ELSE {}

Switches == {Leaf[r] : r \in Ranks} \cup {Spine}
NoFault == [kind |-> "none", at |-> {}]
Faults == {NoFault}
            \cup {[kind |-> "endpoint", at |-> {r}] : r \in Ranks}
            \cup {[kind |-> "switch", at |-> {w}] : w \in Switches}

Init ==
  /\ fault \in Faults
  /\ straggler \in {{}, {Max(Ranks)}}
  /\ samples = Empty /\ failed = {}
  /\ endpoint = Nobody /\ switch = Nobody
  /\ verdict = NoVerdict /\ truths = <<>>

(* The group has the faulty endpoint, or is routed over the faulty switch. *)
Touches(g) ==
  \/ fault.kind = "endpoint" /\ fault.at \subseteq Members[g]
  \/ fault.kind = "switch" /\ fault.at \subseteq PathOf(g)

(* What a collective of the group may take: external, the network.         *)
Observable(g) ==
  {level \in DOMAIN Levels :
     /\ level = "healthy" => ~ Touches(g)
     /\ level = "neutral" => Touches(g) /\ fault.kind = "endpoint"
     /\ level = "slow" => Touches(g) \/ straggler \cap Members[g] # {}}

-----------------------------------------------------------------------------
(* CollectiveTimingCollector.                                              *)

(* record, also through timed.                                             *)
Record(g) ==
  /\ Len(samples[g]) < MaxSamples /\ Len(truths) < MaxRounds
  /\ \E level \in Observable(g) :
       samples' = [samples EXCEPT ![g] = Append(@, Levels[level])]
  /\ verdict' = NoVerdict
  /\ UNCHANGED <<fault, straggler, failed, endpoint, switch, truths>>

(* mark_failed: a watchdog gave the collective up, there is no latency.    *)
MarkFailed(g) ==
  /\ "slow" \in Observable(g) /\ fault # NoFault /\ samples[g] = <<>>
  /\ Len(truths) < MaxRounds
  /\ failed' = failed \cup {g}
  /\ verdict' = NoVerdict
  /\ UNCHANGED <<fault, straggler, samples, endpoint, switch, truths>>

(* snapshot: the median of the window; a group without samples and without *)
(* a failure is not reported.  Infinity is a latency above all others.     *)
Infinity == 1000
Reported == {g \in Groups : samples[g] # <<>> \/ g \in failed}
Smallest(seq, k) ==
  Min({v \in Range(seq) : Cardinality({i \in DOMAIN seq : seq[i] <= v}) >= k})
Median(seq) ==
  LET n == Len(seq)
  IN  (Smallest(seq, (n + 1) \div 2) + Smallest(seq, n \div 2 + 1)) \div 2
Latency(g) == IF samples[g] = <<>> THEN Infinity ELSE Median(samples[g])

-----------------------------------------------------------------------------
(* CommunicationLocalizer.observe, for one resource class and one kind.    *)
(* slow and healthy are the groups observed above and below the factors.   *)

(* The endpoints that every slow group shares and no healthy one has.      *)
Exact(slow, healthy) ==
  {r \in Ranks : (\A g \in slow : r \in Members[g]) /\ (\A g \in healthy : r \notin Members[g])}

(* A slip: a single slow group is taken for evidence.                      *)
OneGroupSuffices(slow, healthy) ==
  IF Cardinality(Exact(slow, healthy)) = 1 THEN Exact(slow, healthy) ELSE {}

(* One suspect, from enough slow groups that do not all have the same      *)
(* members.  Else the round is ambiguous or inconclusive: the partial      *)
(* explanations it lists are no attribution.                               *)
Suspects(slow, healthy) ==
  IF /\ Cardinality(slow) >= MinSlowGroups
     /\ Cardinality({Members[g] : g \in slow}) >= 2
     /\ Cardinality(Exact(slow, healthy)) = 1
  THEN Exact(slow, healthy) ELSE {}

(* A slip: the count goes on whoever is suspected.                         *)
HeldByAnyone(state, suspect) ==
  [suspect |-> suspect, streak |-> IF suspect = {} THEN 0 ELSE state.streak + 1]

(* One more round for the same suspect, or the first of another.           *)
Held(state, suspect) ==
  IF suspect = {} THEN Nobody
  ELSE [suspect |-> suspect,
        streak |-> IF state.suspect = suspect THEN state.streak + 1 ELSE 1]

SlowGroups == {g \in Reported \ failed : Latency(g) >= SlowFactor} \cup failed
HealthyGroups == {g \in Reported \ failed : Latency(g) <= HealthyFactor}

ObserveEndpoint ==
  Held(endpoint, Suspects({g \in SlowGroups : Members[g] \cap straggler = {}}, HealthyGroups))

-----------------------------------------------------------------------------
(* SwitchLocalizer.                                                        *)

(* _partition: slow against the fastest sibling; all groups run the same   *)
(* collective.                                                             *)
SlowAmong(g) ==
  LET baseline == Min({Latency(h) : h \in Reported})
  IN  g \in failed \/ 10 * Latency(g) > SlowFactor * baseline

SwitchSlow == {g \in Reported : SlowAmong(g) /\ Members[g] \cap straggler = {}}
SwitchFast == {g \in Reported : ~SlowAmong(g)}

(* _hitting_set: on every slow path and on no fast one.                    *)
HittingSet ==
  {w \in Switches : (\A g \in SwitchSlow : w \in PathOf(g))
                    /\ (\A g \in SwitchFast : w \notin PathOf(g))}

ObserveSwitch ==
  LET shared == {r \in Ranks : \A g \in SwitchSlow : r \in Members[g]}
  IN  Held(switch, IF SwitchSlow = {} \/ shared # {} \/ Cardinality(HittingSet) # 1
                   THEN {} ELSE HittingSet)

-----------------------------------------------------------------------------
(* CrossPGCoordinator.localize, with a persistence of one round.  A group  *)
(* counts only when all its members reported it, and is slow when most of  *)
(* them flagged it; lost ranks report nothing, deaf ones flag nothing.     *)
CrossPG(lost, deaf) ==
  LET complete == {g \in Reported : Members[g] \cap lost = {}}
      Votes(g) == IF g \in SlowGroups THEN Members[g] \ deaf ELSE {}
      slow == {g \in complete : Cardinality(Votes(g)) > Cardinality(Members[g]) \div 2}
  IN  Suspects(slow, complete \ slow)

-----------------------------------------------------------------------------
Confirmed(state) == IF state.streak >= Persistence THEN state.suspect ELSE {}

(* run_detection_round and finalize_communication_localization on the same *)
(* window: snapshot, gather, observe.                                      *)
Round ==
  /\ Reported # {} /\ Len(truths) < MaxRounds
  /\ endpoint' = ObserveEndpoint
  /\ switch' = ObserveSwitch
  /\ \E lost, deaf \in {{}} \cup {{r} : r \in Ranks} :
       /\ lost = {} \/ deaf = {}
       /\ verdict' = [endpoint |-> Confirmed(endpoint'), switch |-> Confirmed(switch'),
                      crossPG |-> CrossPG(lost, deaf)]
  /\ truths' = Append(truths, fault)
  /\ samples' = Empty /\ failed' = {}
  /\ UNCHANGED <<fault, straggler>>

(* The fault is repaired, moves or begins between two windows.             *)
FaultChanges ==
  /\ samples = Empty /\ failed = {} /\ truths # <<>> /\ Len(truths) < MaxRounds
  /\ fault' \in Faults \ {fault} /\ verdict' = NoVerdict
  /\ UNCHANGED <<straggler, samples, failed, endpoint, switch, truths>>

Next ==
  \/ \E g \in Groups : Record(g) \/ MarkFailed(g)
  \/ Round \/ FaultChanges

Spec == Init /\ [][Next]_vars

-----------------------------------------------------------------------------
(* Properties.                                                             *)

(* Layouts of the process groups in which a fault shows who it is: groups  *)
(* that differ have at most one endpoint in common, and if they have one,  *)
(* no switch but its leaf.                                                 *)
CrossOnce ==
  \A g, h \in Groups : Members[g] # Members[h] =>
    \A r, s \in Members[g] \cap Members[h] : r = s
LeavesApart ==
  \A g, h \in Groups : Members[g] # Members[h] =>
    \A r \in Members[g] \cap Members[h] : PathOf(g) \cap PathOf(h) \subseteq {Leaf[r]}

(* In a window in which a collective failed, some group was as fast as     *)
(* ever: what is left of the others is not compared with itself only.      *)
FailuresStandOut ==
  failed # {} => \E g \in Groups : samples[g] # <<>> /\ Latency(g) = Levels.healthy

(* A confirmed endpoint was at fault in every round of the streak, itself  *)
(* or through its leaf switch: neither a compute straggler nor congestion  *)
(* that wanders from one endpoint to the next is pinned on it.             *)
Guilty(r, truth) ==
  truth \in {[kind |-> "endpoint", at |-> {r}], [kind |-> "switch", at |-> {Leaf[r]}]}
EndpointIsGuilty ==
  \A r \in verdict.endpoint :
    \A i \in (Len(truths) - Persistence + 1)..Len(truths) : Guilty(r, truths[i])

(* Likewise a confirmed switch: a faulty endpoint behind it, or a slow GPU,*)
(* is not reported to the provider as a switch.                            *)
SwitchIsGuilty ==
  verdict.switch # {} =>
    \A i \in (Len(truths) - Persistence + 1)..Len(truths) :
      truths[i] = [kind |-> "switch", at |-> verdict.switch]

(* With one endpoint at fault, reports that get lost and flags that are    *)
(* missing never turn the blame on another machine.                        *)
LostReportsDoNotMislead ==
  verdict.crossPG # {} /\ straggler = {} /\ Last(truths).kind = "endpoint" =>
    verdict.crossPG = Last(truths).at
=============================================================================
