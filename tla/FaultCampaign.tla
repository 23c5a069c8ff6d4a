---------------------------- MODULE FaultCampaign ----------------------------
(***************************************************************************)
(* A fault-injection campaign on the ranks of a training job:              *)
(* FaultInjectionSession (fault_injection/injector.py), the journal of     *)
(* claimed occurrences (state.py) and the life of an injected effect       *)
(* (local.py, executors.py).                                               *)
(*                                                                         *)
(* Every rank runs its own session and keeps its own journal file.  The    *)
(* sessions of a job agree only by all_gather_object of what went wrong on *)
(* each rank.  These rounds carry no tag: the n-th of one rank meets the   *)
(* n-th of the others.  A job that is restarted, possibly while processes  *)
(* of the old one still run, opens the same journal files again.           *)
(*                                                                         *)
(* An occurrence is an incident and the iteration it is scheduled for.     *)
(* What one rank does between two rounds, or to its journal file, is one   *)
(* step; a process may die between any two.                                *)
(***************************************************************************)
EXTENDS Integers, FiniteSets, FiniteSetsExt

CONSTANTS
  Ranks,
  Scopes         \* what is explored: campaigns, each with bounds, see Scope

(* A manifest gives an incident exactly one lifetime (IncidentLifetime),   *)
(* and targets ranks of the job (_validate_distributed_target_ranks).      *)
ASSUME CampaignAssumption ==
  /\ IsFiniteSet(Ranks)
  /\ \A c \in Scopes :
       /\ c.jobs \in Nat /\ c.iterations \in Nat
       /\ \A i \in DOMAIN c.campaign :
            LET incident == c.campaign[i]
            IN  /\ incident.at \subseteq Nat /\ incident.ranks \subseteq Ranks
                /\ incident.limit \in Nat /\ incident.iterations \in Nat
                /\ incident.iterations > 0 => incident.until = "none"

VARIABLES
  scope,         \* the campaign of all jobs, and the bounds
  chosen,        \* the occurrences that _probability_selected selects
  store,         \* store[r]: the journal file of rank r
  ses,           \* ses[j][r]: the session of rank r in job j
  on,            \* on[j][r]: occurrences whose effect is applied in that process
  held,          \* held[j][r][o]: optimizer steps done while the effect was on
  record,        \* record[j][r][o]: status of its injection record
  fired,         \* fired[r][o]: how often rank r has applied o, in any job
  mishaps

vars == <<scope, chosen, store, ses, on, held, record, fired, mishaps>>

(***************************************************************************)
(* The campaign maps incidents to what the manifest says of them; MaxJobs  *)
(* bounds the first job and its restarts, MaxIter the training iterations, *)
(* MaxMishaps the failing operations and dying processes.                  *)
(***************************************************************************)
campaign   == scope.campaign
MaxJobs    == scope.jobs
MaxIter    == scope.iterations
MaxMishaps == scope.mishaps

Jobs  == 1 .. MaxJobs
Iters == 1 .. MaxIter

(***************************************************************************)
(* An incident: trigger iterations, ranks with a fault action, the number  *)
(* of times a candidate may fire (0: every attempt), its lifetime (a       *)
(* number of iterations, one matching call, or until a boundary), whether  *)
(* all actions are safe_in_process, whether they need the history of a     *)
(* tensor, and how the effect is applied: to model or optimizer state,     *)
(* through a hook that takes effect at the next matching call, or by an    *)
(* external executor.                                                      *)
(***************************************************************************)
Incidents ==
  [at : SUBSET Iters, ranks : SUBSET Ranks, limit : Nat, iterations : Nat,
   until : {"none", "matching_call", "recovery", "replacement", "campaign_end"},
   safe : BOOLEAN, stale : BOOLEAN, kind : {"state", "hook", "external"}]

Occurrences == UNION {{i} \X campaign[i].at : i \in DOMAIN campaign}
Incident(o) == campaign[o[1]]
Bounded(o)  == Incident(o).iterations > 0

Statuses == {"none", "skipped", "pending", "active", "completed", "failed", "cancelled"}

Unclaimed == [o \in Occurrences |-> 0]
NewJournal == [bound |-> FALSE, attempts |-> Unclaimed]

(* Where a session is.  In a consensus place it waits for the others. *)
Consensus == {"enable", "binding", "preflight", "persist", "restored", "arm", "prepare"}
Gone      == {"raised", "closed", "dead"}
Places    == Consensus \cup Gone
               \cup {"off", "bind", "enter", "stage", "restore", "activate",
                     "rollback", "cleanup", "train"}

NoSession == [at |-> "off", iter |-> 1, journal |-> NewJournal, before |-> NewJournal,
              err |-> FALSE, active |-> {}, stuck |-> {}]

Alive(j, r) == ses[j][r].at \notin Gone \cup {"off"}

-----------------------------------------------------------------------------
(* The candidates of an iteration that the journal still allows. *)
Candidates(journal, n) ==
  {o \in Occurrences :
     /\ o[2] = n
     /\ Incident(o).limit > 0 => journal.attempts[o] < Incident(o).limit}

Selected(journal, n) == Candidates(journal, n) \cap chosen

(* Selected occurrences of this and the next iteration that need history. *)
HistoryFaults(journal, n) ==
  {o \in Selected(journal, n) \cup Selected(journal, n + 1) : Incident(o).stale}

(* Occurrences whose last iteration is n, whatever session started them. *)
Expirations(n) ==
  {o \in Occurrences : Bounded(o) /\ n = o[2] + Incident(o).iterations - 1}

(* Mutant: a rank without an action in the next candidates skips the round. *)
RequiresOwnConsensus(journal, finished, r) ==
  \/ \E o \in Candidates(journal, finished + 1) : r \in Incident(o).ranks
  \/ HistoryFaults(journal, finished + 1) # {}
  \/ \E o \in Expirations(finished) \cap chosen :
       Incident(o).safe /\ journal.attempts[o] > 0

RequiresBoundaryConsensus(journal, finished, r) ==
  \/ Candidates(journal, finished + 1) # {}
  \/ HistoryFaults(journal, finished + 1) # {}
  \/ \E o \in Expirations(finished) \cap chosen :
       Incident(o).safe /\ journal.attempts[o] > 0

(* Mutant: a rank joins the round after arming only to report a failure. *)
RequiresFailureConsensus(s) ==
  LET selected == Selected(s.before, s.iter)
  IN  s.err /\ selected # {} /\ \A o \in selected : Incident(o).safe

(* Only safe effects leave every rank able to join a round after arming. *)
RequiresActivationConsensus(s) ==
  LET selected == Selected(s.before, s.iter)
  IN  selected # {} /\ \A o \in selected : Incident(o).safe

-----------------------------------------------------------------------------
Init ==
  /\ scope \in Scopes
  /\ chosen \in SUBSET Occurrences
  /\ store = [r \in Ranks |-> NewJournal]
  /\ ses = [j \in Jobs |-> [r \in Ranks |-> NoSession]]
  /\ on = [j \in Jobs |-> [r \in Ranks |-> {}]]
  /\ held = [j \in Jobs |-> [r \in Ranks |-> Unclaimed]]
  /\ record = [j \in Jobs |-> [r \in Ranks |-> [o \in Occurrences |-> "none"]]]
  /\ fired = [r \in Ranks |-> Unclaimed]
  /\ mishaps = 0

fixed == <<scope, chosen>>
effects == <<on, held, record, fired>>

(* A step of one session: what it becomes, and how many mishaps were in it. *)
Goes(j, r, s) == ses' = [ses EXCEPT ![j][r] = s]
Costs(n) == mishaps + n <= MaxMishaps /\ mishaps' = mishaps + n
Cost(ok) == IF ok THEN 0 ELSE 1

Marks(j, r, S, status) ==
  record' = [record EXCEPT ![j][r] = [o \in Occurrences |-> IF o \in S THEN status ELSE @[o]]]

-----------------------------------------------------------------------------
(***************************************************************************)
(* The constructor.  It loads the journal and binds it in memory; a        *)
(* restart begins after some iteration that an earlier job has completed.  *)
(***************************************************************************)
Reached(j) == Max({1} \cup {ses[k][r].iter : k \in 1 .. j - 1, r \in Ranks})

Prepare(j, r, n, ok) ==
  /\ ses[j][r].at = "off"
  /\ j > 1 => \E q \in Ranks : ses[j - 1][q].at # "off"
  /\ n <= Reached(j)
  /\ Costs(Cost(ok))
  /\ Goes(j, r, [NoSession EXCEPT !.at = "enable", !.iter = n, !.before = store[r],
                                  !.journal = [store[r] EXCEPT !.bound = TRUE],
                                  !.err = ~ok])
  /\ UNCHANGED <<fixed, store, effects>>

(***************************************************************************)
(* compare_and_swap on the journal file of rank r.  It may raise before    *)
(* the file is replaced ("unsaved"), or after (the directory's fsync,      *)
(* "saved").                                                               *)
(***************************************************************************)
SwapOutcomes == {"ok", "unsaved", "saved"}
Matches(r, expected) == store[r] = expected

CompareAndSwap(r, expected, updated, outcome) ==
  /\ outcome = "saved" => Matches(r, expected)
  /\ Costs(Cost(outcome = "ok"))
  /\ store' = IF Matches(r, expected) /\ outcome # "unsaved"
                THEN [store EXCEPT ![r] = updated] ELSE store

Swapped(r, expected, outcome) == Matches(r, expected) /\ outcome = "ok"

(* The binding is in place as well if another worker has written the same. *)
CommitJournalBinding(j, r, outcome) ==
  LET s == ses[j][r]
  IN  /\ s.at = "bind"
      /\ CompareAndSwap(r, s.before, s.journal, outcome)
      /\ Goes(j, r, [s EXCEPT !.at = "binding",
            !.err = ~ \/ Swapped(r, s.before, outcome)
                      \/ outcome = "ok" /\ Matches(r, s.journal)])
      /\ UNCHANGED <<fixed, effects>>

(* Iterations without candidates need no round. *)
EnterIteration(j, r, ok) ==
  LET s == ses[j][r]
      nothing == Candidates(s.journal, s.iter) = {}
  IN  /\ s.at = "enter"
      /\ nothing => ok
      /\ Costs(Cost(ok))
      /\ Goes(j, r, [s EXCEPT !.at = IF nothing THEN "train" ELSE "preflight", !.err = ~ok])
      /\ UNCHANGED <<fixed, store, effects>>

Claimed(journal, S) ==
  [journal EXCEPT !.attempts = [o \in Occurrences |-> IF o \in S THEN @[o] + 1 ELSE @[o]]]

(***************************************************************************)
(* _stage_iteration_attempts: claim the selected occurrences in the file,  *)
(* before anything is applied.  If probability has deselected all of the   *)
(* candidates the file is not touched.                                     *)
(***************************************************************************)
Stage(j, r, outcome) ==
  LET s == ses[j][r]
      selected == Selected(s.journal, s.iter)
      updated == Claimed(s.journal, selected)
      claimed == Swapped(r, s.journal, outcome)
  IN  /\ s.at = "stage"
      /\ \/ /\ selected = {} /\ outcome = "ok"
            /\ Goes(j, r, [s EXCEPT !.at = "persist", !.before = s.journal, !.err = FALSE])
            /\ UNCHANGED <<store, mishaps>>
         \/ /\ selected # {}
            /\ CompareAndSwap(r, s.journal, updated, outcome)
            /\ Goes(j, r, [s EXCEPT !.at = "persist", !.before = s.journal, !.err = ~claimed,
                                    !.journal = IF claimed THEN updated ELSE @])
      /\ UNCHANGED <<fixed, effects>>

(* _restore_journal_attempts, when some rank could not claim. *)
Restore(j, r, outcome) ==
  LET s == ses[j][r]
      restored == Swapped(r, s.journal, outcome)
  IN  /\ s.at = "restore"
      /\ CompareAndSwap(r, s.journal, s.before, outcome)
      /\ Goes(j, r, [s EXCEPT !.at = "restored", !.err = ~restored,
                              !.journal = IF restored THEN s.before ELSE @])
      /\ UNCHANGED <<fixed, effects>>

-----------------------------------------------------------------------------
(* Selected occurrences with an action for this rank. *)
Mine(j, r) == {o \in Selected(ses[j][r].before, ses[j][r].iter) : r \in Incident(o).ranks}

Skipped(j, r) ==
  {o \in Candidates(ses[j][r].before, ses[j][r].iter) \ chosen : r \in Incident(o).ranks}

(***************************************************************************)
(* An external executor may be done when activate returns, and must be if  *)
(* its effect is for one call.                                             *)
(***************************************************************************)
MayBeInline(o) ==
  /\ Incident(o).kind = "external"
  /\ Incident(o).until = "matching_call" \/ Incident(o).iterations = 1

MustBeInline(o) == Incident(o).kind = "external" /\ Incident(o).until = "matching_call"

AfterActivation(s) ==
  IF RequiresActivationConsensus(s) THEN "arm" ELSE IF s.err THEN "cleanup" ELSE "train"

(***************************************************************************)
(* _activate_staged_iteration applies the effects of this rank.  A hook is *)
(* pending until a call matches; the others are verified at once.  Without *)
(* the history it needs (`quiet`), a state effect fails without raising;   *)
(* the preflight has ruled that out for incidents that are not safe.       *)
(***************************************************************************)
Activate(j, r, quiet, inline) ==
  LET s == ses[j][r]
      applied == Mine(j, r) \ quiet
      done == [s EXCEPT !.err = FALSE, !.active = @ \cup (applied \ inline)]
  IN  /\ s.at = "activate"
      /\ \A o \in quiet : Incident(o).stale /\ Incident(o).safe /\ Incident(o).kind = "state"
      /\ \A o \in Mine(j, r) : /\ o \in inline => MayBeInline(o)
                               /\ MustBeInline(o) => o \in inline
      /\ Costs(Cardinality(quiet))
      /\ on' = [on EXCEPT ![j][r] = @ \cup (applied \ inline)]
      /\ fired' = [fired EXCEPT ![r] = [o \in Occurrences |->
                                          IF o \in applied THEN @[o] + 1 ELSE @[o]]]
      /\ record' = [record EXCEPT ![j][r] = [o \in Occurrences |->
            CASE o \in quiet -> "failed"
              [] o \in inline -> "completed"
              [] o \in applied \ inline -> IF Incident(o).kind = "hook" THEN "pending" ELSE "active"
              [] o \in Skipped(j, r) -> "skipped"
              [] OTHER -> @[o]]]
      /\ Goes(j, r, [done EXCEPT !.at = AfterActivation(done)])
      /\ UNCHANGED <<fixed, store, held>>

(***************************************************************************)
(* One of the attempted activations raises: the last, which may have been  *)
(* applied all the same (an executor that cannot verify).  All of them are *)
(* rolled back, or get stuck if that fails.                                *)
(***************************************************************************)
ActivateFails(j, r, attempted, applied, stuck) ==
  LET s == ses[j][r]
      failed == [s EXCEPT !.err = TRUE, !.stuck = @ \cup stuck]
  IN  /\ s.at = "activate"
      /\ Cardinality(attempted \ applied) <= 1
      /\ Costs(1 + Cardinality(stuck))
      /\ on' = [on EXCEPT ![j][r] = @ \cup stuck]
      /\ fired' = [fired EXCEPT ![r] = [o \in Occurrences |->
                                          IF o \in applied THEN @[o] + 1 ELSE @[o]]]
      /\ Marks(j, r, attempted, "failed")
      /\ Goes(j, r, [failed EXCEPT !.at = AfterActivation(failed)])
      /\ UNCHANGED <<fixed, store, held>>

(* _rollback_new_activations, after another rank could not arm. *)
Rollback(j, r, stuck) ==
  LET s == ses[j][r]
      new == {o \in s.active : o[2] = s.iter}
  IN  /\ s.at = "rollback"
      /\ stuck \subseteq new
      /\ Costs(Cardinality(stuck))
      /\ on' = [on EXCEPT ![j][r] = @ \ (new \ stuck)]
      /\ Marks(j, r, {o \in Mine(j, r) : record[j][r][o] # "none"}, "failed")
      /\ Goes(j, r, [s EXCEPT !.at = "cleanup", !.active = @ \ new, !.stuck = @ \cup stuck])
      /\ UNCHANGED <<fixed, store, held, fired>>

-----------------------------------------------------------------------------
(***************************************************************************)
(* Completing the effects S of a session, of which those in stuck fail to  *)
(* be undone.  A hook that no call ever matched is cancelled, and so is    *)
(* an effect that is cut short.                                            *)
(***************************************************************************)
Completes(j, r, S, stuck, cut) ==
  /\ on' = [on EXCEPT ![j][r] = @ \ (S \ stuck)]
  /\ record' = [record EXCEPT ![j][r] = [o \in Occurrences |->
        CASE o \in stuck -> "failed"
          [] o \in S \ stuck -> IF @[o] = "active" /\ o \notin cut THEN "completed"
                                                                ELSE "cancelled"
          [] OTHER -> @[o]]]
  /\ UNCHANGED <<fixed, store, fired>>

Without(s, S, stuck) == [s EXCEPT !.active = @ \ S, !.stuck = @ \cup stuck]

(* _cleanup on an error path: every effect that is left is cancelled. *)
Cleanup(j, r, stuck) ==
  LET s == ses[j][r]
  IN  /\ s.at = "cleanup"
      /\ stuck \subseteq s.active
      /\ Costs(Cardinality(stuck))
      /\ Completes(j, r, s.active, stuck, s.active)
      /\ Goes(j, r, [Without(s, s.active, stuck) EXCEPT !.at = "raised"])
      /\ UNCHANGED held

(* close() at the end of training. *)
Close(j, r, stuck) ==
  LET s == ses[j][r]
  IN  /\ s.at = "train" /\ s.iter = MaxIter
      /\ stuck \subseteq s.active
      /\ Costs(Cardinality(stuck))
      /\ Completes(j, r, s.active, stuck,
                   {o \in s.active : Incident(o).until # "campaign_end"})
      /\ Goes(j, r, [Without(s, s.active, stuck) EXCEPT !.at = "closed"])
      /\ UNCHANGED held

(* notify_recovery and notify_replacement. *)
Notify(j, r, boundary, stuck) ==
  LET s == ses[j][r]
      ending == {o \in s.active : Incident(o).until = boundary}
  IN  /\ s.at = "train"
      /\ ending # {} /\ stuck \subseteq ending
      /\ Costs(Cardinality(stuck))
      /\ Completes(j, r, ending, stuck, {})
      /\ Goes(j, r, Without(s, ending, stuck))
      /\ UNCHANGED held

(***************************************************************************)
(* A call matches the hook of o: the injection is verified, and over if it *)
(* was for one call.  A transformation that turns out to be impossible     *)
(* ("quiet") fails the effect and leaves the call alone; removing the hook *)
(* may fail too ("stuck").                                                 *)
(***************************************************************************)
MatchCall(j, r, o, outcome) ==
  LET s == ses[j][r]
      last == outcome = "quiet" \/ Incident(o).until = "matching_call"
      stuck == IF outcome = "stuck" THEN {o} ELSE {}
  IN  /\ s.at = "train"
      /\ o \in s.active /\ Incident(o).kind = "hook"
      /\ outcome = "ok" => record[j][r][o] = "pending"
      /\ outcome = "stuck" => last
      /\ Costs(Cost(outcome = "ok"))
      /\ record' = [record EXCEPT ![j][r][o] =
                      IF outcome # "ok" THEN "failed" ELSE IF last THEN "completed" ELSE "active"]
      /\ on' = [on EXCEPT ![j][r] = IF last THEN @ \ ({o} \ stuck) ELSE @]
      /\ Goes(j, r, IF last THEN Without(s, {o}, stuck) ELSE s)
      /\ UNCHANGED <<fixed, store, held, fired>>

(* Mutant: a bounded effect survives the replacement of its state. *)
StateReplacedUnnoticed(j, r) ==
  LET lost == {o \in ses[j][r].active : Incident(o).kind = "state"}
  IN  /\ ses[j][r].at = "train"
      /\ lost \cap on[j][r] # {}
      /\ on' = [on EXCEPT ![j][r] = @ \ lost]
      /\ UNCHANGED <<fixed, store, ses, record, held, fired, mishaps>>

(***************************************************************************)
(* A checkpoint replaces the model state: a bounded state effect fails, as *)
(* it did not last; one that lasts until a boundary stays booked.          *)
(***************************************************************************)
StateReplaced(j, r) ==
  LET s == ses[j][r]
      lost == {o \in s.active : Incident(o).kind = "state"}
      short == {o \in lost : Bounded(o)}
  IN  /\ s.at = "train"
      /\ lost \cap on[j][r] # {}
      /\ on' = [on EXCEPT ![j][r] = @ \ lost]
      /\ Marks(j, r, short, "failed")
      /\ Goes(j, r, Without(s, short, {}))
      /\ UNCHANGED <<fixed, store, held, fired, mishaps>>

(* Effects whose last iteration is the one that has just finished. *)
Expiring(s) ==
  {o \in s.active : \/ Bounded(o) /\ s.iter >= o[2] + Incident(o).iterations - 1
                    \/ Incident(o).until = "matching_call"}

(***************************************************************************)
(* _on_step_complete: an optimizer step has succeeded or failed.  Expired  *)
(* effects end, the clock advances, and history is collected for the next  *)
(* iteration; any of this may fail, and the ranks compare notes when the   *)
(* schedule says that all of them are at such a boundary.                  *)
(***************************************************************************)
StepComplete(j, r, outcome, stuck) ==
  LET s == ses[j][r]
      expired == IF outcome = "optimizer" THEN {} ELSE Expiring(s)
      advances == outcome # "optimizer" /\ stuck = {}
      err == outcome # "ok" \/ stuck # {}
  IN  /\ s.at = "train" /\ s.iter < MaxIter
      /\ stuck \subseteq expired
      /\ stuck # {} => outcome = "ok"
      /\ Costs(Cost(outcome = "ok") + Cardinality(stuck))
      /\ Completes(j, r, expired, stuck, {})
      /\ held' = IF outcome = "optimizer" THEN held
                 ELSE [held EXCEPT ![j][r] = [o \in Occurrences |->
                                               IF o \in on[j][r] THEN @[o] + 1 ELSE @[o]]]
      /\ Goes(j, r, [Without(s, expired, stuck) EXCEPT
                       !.err = err,
                       !.iter = IF advances THEN @ + 1 ELSE @,
                       !.at = IF RequiresBoundaryConsensus(s.journal, s.iter, r) THEN "prepare"
                              ELSE IF err THEN "cleanup" ELSE "enter"])

-----------------------------------------------------------------------------
(* Mutant: a rank that has claimed goes on although another one has not. *)
AfterRoundClaimedAnyway(s, failed) ==
  CASE s.at = "persist" -> IF s.err THEN "restore" ELSE "activate"
    [] s.at = "restored" -> "cleanup"
    [] s.at = "arm" -> IF failed THEN "rollback" ELSE "train"
    [] s.at = "enable" -> IF failed THEN "cleanup" ELSE "bind"
    [] s.at = "preflight" -> IF failed THEN "cleanup" ELSE "stage"
    [] OTHER -> IF failed THEN "cleanup" ELSE "enter"

(* Where a rank goes after a round, by whether any rank reported a failure. *)
AfterRound(s, failed) ==
  CASE s.at = "persist" -> IF failed THEN "restore" ELSE "activate"
    [] s.at = "restored" -> "cleanup"
    [] s.at = "arm" -> IF failed THEN "rollback" ELSE "train"
    [] s.at = "enable" -> IF failed THEN "cleanup" ELSE "bind"
    [] s.at = "preflight" -> IF failed THEN "cleanup" ELSE "stage"
    [] OTHER -> IF failed THEN "cleanup" ELSE "enter"

(* Enablement also compares the iterations and the journals. *)
RoundFails(j) ==
  \/ \E r \in Ranks : ses[j][r].err
  \/ \E r, q \in Ranks :
       /\ ses[j][r].at = "enable"
       /\ \/ ses[j][r].iter # ses[j][q].iter
          \/ ses[j][r].journal.attempts # ses[j][q].journal.attempts

Round(j) ==
  /\ \A r \in Ranks : ses[j][r].at \in Consensus
  /\ ses' = [ses EXCEPT ![j] = [r \in Ranks |->
                [ses[j][r] EXCEPT !.at = AfterRound(ses[j][r], RoundFails(j))]]]
  /\ UNCHANGED <<fixed, store, effects, mishaps>>

(* The collective raises on a rank when another one will not join it. *)
CollectiveFails(j, r) ==
  /\ ses[j][r].at \in Consensus
  /\ \E q \in Ranks : ses[j][q].at \in Gone
  /\ Goes(j, r, [ses[j][r] EXCEPT !.at = "cleanup"])
  /\ UNCHANGED <<fixed, store, effects, mishaps>>

(* The training loop raises, and __exit__ cleans up. *)
TrainingRaises(j, r) ==
  /\ ses[j][r].at = "train"
  /\ Costs(1)
  /\ Goes(j, r, [ses[j][r] EXCEPT !.at = "cleanup"])
  /\ UNCHANGED <<fixed, store, effects>>

(* A process dies, and with it all effects but those of external executors. *)
Crash(j, r) ==
  LET outlive == {o \in on[j][r] : Incident(o).kind = "external"}
  IN  /\ Alive(j, r)
      /\ Costs(1)
      /\ on' = [on EXCEPT ![j][r] = outlive]
      /\ Goes(j, r, [ses[j][r] EXCEPT !.at = "dead", !.active = {}, !.stuck = @ \cup outlive])
      /\ UNCHANGED <<fixed, store, held, record, fired>>

Next ==
  \/ \E j \in Jobs : Round(j)
  \/ \E j \in Jobs, r \in Ranks :
       \/ \E n \in Iters, ok \in BOOLEAN : Prepare(j, r, n, ok)
       \/ \E ok \in BOOLEAN : EnterIteration(j, r, ok)
       \/ \E outcome \in SwapOutcomes : \/ CommitJournalBinding(j, r, outcome)
                                        \/ Stage(j, r, outcome)
                                        \/ Restore(j, r, outcome)
       \/ \E quiet \in SUBSET Mine(j, r) : \E inline \in SUBSET Mine(j, r) :
            Activate(j, r, quiet, inline)
       \/ \E attempted \in (SUBSET Mine(j, r)) \ {{}} : \E applied \in SUBSET attempted :
            \E stuck \in SUBSET applied : ActivateFails(j, r, attempted, applied, stuck)
       \/ \E stuck \in SUBSET ses[j][r].active :
            \/ Rollback(j, r, stuck) \/ Cleanup(j, r, stuck) \/ Close(j, r, stuck)
            \/ \E b \in {"recovery", "replacement"} : Notify(j, r, b, stuck)
            \/ \E outcome \in {"ok", "optimizer", "history"} : StepComplete(j, r, outcome, stuck)
       \/ \E o \in ses[j][r].active, outcome \in {"ok", "quiet", "stuck"} :
            MatchCall(j, r, o, outcome)
       \/ StateReplaced(j, r)
       \/ CollectiveFails(j, r) \/ TrainingRaises(j, r) \/ Crash(j, r)

Spec == Init /\ [][Next]_vars

-----------------------------------------------------------------------------
(***************************************************************************)
(* Types; a rank only has effects of actions that are targeted at it.      *)
(***************************************************************************)
Journals == [bound : BOOLEAN, attempts : [Occurrences -> Nat]]

TypeOK ==
  /\ \A i \in DOMAIN campaign : campaign[i] \in Incidents
  /\ chosen \subseteq Occurrences
  /\ store \in [Ranks -> Journals]
  /\ \A j \in Jobs, r \in Ranks :
       LET s == ses[j][r]
       IN  /\ s.at \in Places /\ s.iter \in Iters /\ s.err \in BOOLEAN
           /\ s.journal \in Journals /\ s.before \in Journals
           /\ s.active \cup s.stuck \cup on[j][r]
                \subseteq {o \in chosen : r \in Incident(o).ranks}
           /\ held[j][r] \in [Occurrences -> Nat]
           /\ record[j][r] \in [Occurrences -> Statuses]
  /\ fired \in [Ranks -> [Occurrences -> Nat]]
  /\ mishaps \in 0 .. MaxMishaps

(***************************************************************************)
(* A candidate with a limit (once, or max_occurrences) is applied no more  *)
(* often than that on any rank, over all restarts and rewinds and with old *)
(* and new workers running at the same time.                               *)
(***************************************************************************)
LimitIsKept ==
  \A r \in Ranks, o \in Occurrences :
    Incident(o).limit > 0 => fired[r][o] <= Incident(o).limit

(***************************************************************************)
(* Before any rank applies an occurrence, every rank's journal file has    *)
(* the claim, and no rollback of another job takes it back: a fault that   *)
(* kills the job leaves no rank that would fire it again.                  *)
(***************************************************************************)
ClaimedEverywhere ==
  \A r, q \in Ranks, o \in Occurrences : fired[r][o] <= store[q].attempts[o]

(***************************************************************************)
(* The iterations that the round of a session may be about: a session      *)
(* whose step has failed may not have advanced its clock.                  *)
(***************************************************************************)
Boundaries(s) ==
  IF s.at # "prepare" THEN {s.iter}
  ELSE {s.iter - 1} \cup (IF s.err THEN {s.iter} ELSE {})

(***************************************************************************)
(* The ranks of a job decide one by one whether a round is due; when they  *)
(* meet in one, all of them mean the same round of the same iteration.     *)
(* (Only the round that enables them may find them in different ones; it   *)
(* compares their iterations and journals.)                                *)
(***************************************************************************)
SameConsensus ==
  \A j \in Jobs :
    (\A r \in Ranks : ses[j][r].at \in Consensus) =>
      \A q \in Ranks :
        /\ \A r \in Ranks : ses[j][r].at = ses[j][q].at
        /\ \/ ses[j][q].at = "enable"
           \/ \E n \in Boundaries(ses[j][q]) : \A r \in Ranks : n \in Boundaries(ses[j][r])

(***************************************************************************)
(* An effect is only applied while a session owns it and its lifetime      *)
(* lasts; a session that has raised or closed has left nothing behind but  *)
(* what could not be undone.                                               *)
(***************************************************************************)
NothingLeftBehind ==
  \A j \in Jobs, r \in Ranks :
    LET s == ses[j][r]
    IN  /\ on[j][r] \subseteq s.active \cup s.stuck
        /\ s.at \in Gone => s.active = {}
        /\ s.at = "train" =>
             \A o \in s.active : Bounded(o) => s.iter <= o[2] + Incident(o).iterations - 1

(***************************************************************************)
(* An injection that counts as completed lasted for exactly the optimizer  *)
(* steps of its lifetime: nothing that was cut short by a recovery, a      *)
(* replaced state, a rollback or the end of the session is certified.      *)
(* (An external executor may finish a one-iteration fault inline.)         *)
(***************************************************************************)
CompletedLastedInFull ==
  \A j \in Jobs, r \in Ranks, o \in Occurrences :
    record[j][r][o] = "completed" /\ Bounded(o) =>
      held[j][r][o] = Incident(o).iterations \/ MayBeInline(o)

(***************************************************************************)
(* Where arming is safe, no rank trains in the trigger iteration with its  *)
(* part of an incident applied before every other rank has armed its part  *)
(* (or has recorded that it lacks the history for it).                     *)
(***************************************************************************)
ArmedTogether ==
  \A j \in Jobs, r \in Ranks :
    LET s == ses[j][r]
    IN  s.at = "train" /\ (\A o \in Selected(s.before, s.iter) : Incident(o).safe) =>
          \A o \in s.active : o[2] = s.iter =>
            \A q \in Incident(o).ranks : record[j][q][o] # "none"

(***************************************************************************)
(* A campaign is carried out as it is scheduled, whatever fails: no more   *)
(* often than its limits allow, on all targeted ranks together, and with   *)
(* no effect that outlives its lifetime or the session that owns it.       *)
(***************************************************************************)
InjectedAsScheduled == LimitIsKept /\ ArmedTogether /\ NothingLeftBehind
=============================================================================
