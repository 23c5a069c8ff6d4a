---------------------------- MODULE ReplayHarness ----------------------------
(***************************************************************************)
(* The replay harness of SCOUT (replay_harness.py with layer_replay.py,    *)
(* optimizer_step.py and replay_shapes.py) on the ranks of one peer group. *)
(* Hooks capture the invocation of the sampled modules during a training   *)
(* step; step() decides on every rank by itself whether a check is due,    *)
(* the ranks agree on a readiness contract, and only then replay the same  *)
(* recipes collectively.  A slow round is confirmed by further rounds.     *)
(*                                                                         *)
(* The dense catalogue replays modules at their own intervals, the dynamic *)
(* one (MoE) the shapes of a plan in rotation.  A collective is one step   *)
(* of the group, since its result is the same on every rank; what a rank   *)
(* decides without a collective is a function of the rank.                 *)
(***************************************************************************)
EXTENDS ReplayAnalysis, SequencesExt

CONSTANTS
  Ranks,
  Catalogs,       \* subset of {"dense", "dynamic"}
  Intervals,      \* values of hidden_check_interval a rank may be started with
  EmbeddingInterval, OptimizerInterval,
  Layers, Shapes, \* how many
  Rounds,         \* straggler_confirmation_rounds
  Corruptions,    \* sets of ranks that may compute one wrong value together
  TimeVectors,    \* replay times of a round
  MaxInvocations, \* base optimizer calls of one training step
  MaxStep         \* bound: training steps explored, by catalogue

HarnessAssumption ==
  /\ Ranks \subseteq Nat /\ Ranks # {} /\ IsFiniteSet(Ranks)
  /\ Catalogs \subseteq {"dense", "dynamic"}
  /\ Corruptions \subseteq (SUBSET Ranks) \ {Ranks} /\ TimeVectors \subseteq [Ranks -> Nat]
  /\ Layers \in Nat \ {0} /\ Shapes \in Nat \ {0} /\ Rounds \in Nat \ {0}

Source == Min(Ranks)   \* broadcast_src
Modules == {"embedding", "hidden"}

VARIABLES
  catalog,    \* the workload of the job
  interval,   \* rank -> its hidden_check_interval
  replaying,  \* ranks whose optimizer exposes pre-step hooks
  step,       \* _step_count
  captured,   \* rank -> module -> capture step, 0 for none
  optimizer,  \* rank -> invocation target, invocations observed, status
  layer, position, baselines,
  plan,       \* rank -> recipes its own code enters after readiness
  check,      \* the check that is running
  result,     \* what the last check returned
  tainted     \* history: somebody computed a wrong value during the check

sampling == <<catalog, interval, replaying>>
schedule == <<layer, position, baselines>>
vars == <<sampling, step, captured, optimizer, schedule, plan, check, result, tainted>>

NoCheck == [mode |-> "none", todo |-> <<>>, rounds |-> <<>>, done |-> <<>>,
            position |-> 0, baselines |-> <<>>]
NoResult == [kind |-> "none", certifies |-> FALSE, fault |-> FALSE, checked |-> {}]
Incomplete == [kind |-> "incomplete", certifies |-> FALSE, fault |-> TRUE, checked |-> {}]
Unarmed == [target |-> 0, status |-> "idle"]

Init ==
  /\ catalog \in Catalogs
  /\ interval \in [Ranks -> Intervals]
  /\ replaying \in {Ranks, Ranks \ {Source}}
  /\ step = 0
  /\ captured = [r \in Ranks |-> [m \in Modules |-> 0]]
  /\ optimizer = [r \in Ranks |-> Unarmed]
  /\ layer = 0 /\ position = 0 /\ baselines = <<>>
  /\ plan = [r \in Ranks |-> <<>>]
  /\ check = NoCheck /\ result = NoResult
  /\ tainted = FALSE

-----------------------------------------------------------------------------
(* Mutants of definitions below, each a plausible slip in the code.        *)

(* The cadence contract is not compared.                                   *)
AssumeSameSchedule == TRUE
(* A sample counts as clean unless it was numerically wrong.               *)
CleanUnlessWrong(rounds, merged) == merged.sdc = {}

-----------------------------------------------------------------------------
(* The intervals, _dense_recipe_due and _dense_recipe_scheduled_at.        *)
IntervalOf(r, recipe) ==
  CASE catalog = "dynamic" -> interval[r]
    [] recipe = "embedding" -> EmbeddingInterval
    [] recipe = "hidden" -> interval[r]
    [] recipe = "optimizer" -> OptimizerInterval

ScheduledAt(r, recipe, n) == IntervalOf(r, recipe) > 0 /\ n % IntervalOf(r, recipe) = 0

(* The recipes are visited in one order, whichever of them are enabled.    *)
InOrder(recipes) ==
  LET At(recipe) == IF recipe \in recipes THEN <<recipe>> ELSE <<>>
  IN  At("embedding") \o At("hidden") \o At("optimizer")

Due(r, scheduled, n) ==
  {recipe \in {"embedding", "hidden", "optimizer"} :
     IntervalOf(r, recipe) # 0 /\ (scheduled => ScheduledAt(r, recipe, n))}

DueRecipes(r, scheduled, n) == InOrder(Due(r, scheduled, n))

(* arm ... consume of OptimizerStepReplay around one optimizer boundary:   *)
(* the pre-step hook captures the invocation whose turn it is.             *)
Observe(o, calls, fails) ==
  [target |-> IF calls > 0 THEN (o.target + 1) % calls ELSE o.target,
   status |-> IF o.target >= calls THEN "not_observed"
              ELSE IF fails THEN "failed" ELSE "ok"]

(* A training step up to the call of step(): the hooks of the modules a    *)
(* rank really ran, and the optimizer boundary, armed when its recipe is   *)
(* due on a rank that has a capture.  A rank may leave the sampled layer   *)
(* out; a gradient scaler may leave the optimizer out.                     *)
TrainStep ==
  /\ check.mode = "none" /\ step < MaxStep[catalog]
  /\ \A r \in Ranks : plan[r] = <<>>
  /\ \E skipping \in {{}, {Source}}, calls \in 0..MaxInvocations, fails \in BOOLEAN :
       /\ fails => calls > 0
       /\ captured' = [r \in Ranks |->
                         IF r \in skipping THEN captured[r]
                         ELSE [m \in Modules |-> step + 1]]
       /\ optimizer' = [r \in Ranks |->
                          IF /\ r \in replaying /\ captured'[r]["hidden"] > 0
                             /\ ScheduledAt(r, "optimizer", step + 1)
                          THEN Observe(optimizer[r], calls, fails /\ r = Source)
                          ELSE optimizer[r]]
  /\ step' = step + 1
  /\ plan' = [r \in Ranks |-> <<"step">>]
  /\ result' = NoResult
  /\ UNCHANGED <<sampling, schedule, check, tainted>>

-----------------------------------------------------------------------------
(* Readiness.                                                              *)

(* _prepare_optimizer_step_evidence: these frameworks give the harness no  *)
(* optimizer of its own, so a batch collected at the boundary is all the   *)
(* evidence there is.                                                      *)
HasEvidence(r) == optimizer[r].status # "idle"

(* _dense_replay_readiness: what a rank puts into the contract.            *)
RecipeReady(r, recipe, scheduled) ==
  IF recipe = "optimizer" THEN HasEvidence(r)
  ELSE captured[r][recipe] > 0 /\ (scheduled => captured[r][recipe] = step)

RecipeContract(r, recipe, scheduled) ==
  [recipe |-> recipe, ready |-> RecipeReady(r, recipe, scheduled), layer |-> layer,
   capture |-> IF recipe = "optimizer" THEN step ELSE captured[r][recipe],
   evidence |-> IF recipe = "optimizer" THEN optimizer[r].status ELSE "none"]

DenseContract(r, scheduled) ==
  [step |-> step, scheduled |-> scheduled,
   recipes |-> LET due == DueRecipes(r, scheduled, step)
               IN  [i \in DOMAIN due |-> RecipeContract(r, due[i], scheduled)]]

(* _dynamic_replay_readiness, which leaves the optimizer out.              *)
DynamicContract(r) ==
  [step |-> step, layer |-> layer, shape |-> position, capture |-> captured[r]["hidden"]]

(* _compare_replay_readiness: one contract, and the rank itself is ready.  *)
AllAgree(contract) == Cardinality(Values(contract)) = 1

DenseReady(scheduled) ==
  /\ AllAgree([r \in Ranks |-> DenseContract(r, scheduled)])
  /\ LET due == DueRecipes(Source, scheduled, step)
     IN  due # <<>> /\ \A i \in DOMAIN due : RecipeReady(Source, due[i], scheduled)

DynamicReady ==
  /\ AllAgree([r \in Ranks |-> DynamicContract(r)])
  /\ captured[Source]["hidden"] = step

(* _ensure_schedule_readiness: the cadence contract of the group.          *)
ScheduleReady == AllAgree(interval)

(* What the rank's own code executes once readiness agreed: the recipes    *)
(* whose capture is current, the optimizer when there is evidence, and the *)
(* AllToAll recipes of the step.                                           *)
DensePlan(r, scheduled) ==
  InOrder({recipe \in Due(r, scheduled, step) : RecipeReady(r, recipe, scheduled)})
    \o <<"all_to_all">>

SweepPlan(r, shapes) ==
  <<"shape">> \o (IF HasEvidence(r) THEN <<"optimizer">> ELSE <<>>)
    \o [i \in 1..(shapes - 1) |-> "shape"] \o <<"all_to_all">>

(* The evidence of a step is an argument of step(): it does not outlive it.*)
Consumed == [r \in Ranks |-> [optimizer[r] EXCEPT !.status = "idle"]]

Begin(mode, plans) ==
  /\ plan' = plans
  /\ check' = [NoCheck EXCEPT !.mode = mode, !.todo = plans[Source],
                              !.position = position, !.baselines = baselines]
  /\ UNCHANGED <<result, optimizer>>

(* step() returns without a replay; a rank in waiting has entered the      *)
(* readiness collective on its own.                                        *)
Return(outcome, waiting) ==
  /\ result' = outcome
  /\ plan' = [r \in Ranks |-> IF r \in waiting THEN <<"readiness">> ELSE <<>>]
  /\ optimizer' = Consumed
  /\ UNCHANGED check

(* step(complete_shape_cycle): the whole cycle on one captured state when  *)
(* complete, else what is due.                                             *)
Step(complete) ==
  LET mode == IF complete THEN "cycle" ELSE "scheduled"
      due == {r \in Ranks : DueRecipes(r, TRUE, step) # <<>>}
      plans == [r \in Ranks |->
                  IF catalog = "dense" THEN DensePlan(r, ~complete)
                  ELSE SweepPlan(r, IF complete THEN Shapes ELSE 1)]
      ready == IF catalog = "dense" THEN DenseReady(~complete) ELSE DynamicReady
  IN  /\ check.mode = "none"
      /\ \A r \in Ranks : plan[r] = <<"step">>
      /\ IF ~ScheduleReady THEN Return(Incomplete, {})
         ELSE IF due # Ranks THEN Return(NoResult, due)
         ELSE IF ready THEN Begin(mode, plans) ELSE Return(Incomplete, {})
      /\ tainted' = FALSE
      /\ UNCHANGED <<sampling, step, captured, schedule>>

(* prepare_recovery after a hang or an unclear failure with all ranks in   *)
(* reach: check_shape_cycle(preserve_scheduler = TRUE) on the captures of  *)
(* the last step.                                                          *)
EmergencyCheck ==
  /\ check.mode = "none" /\ result.kind # "emergency"
  /\ \A r \in Ranks : plan[r] = <<>> /\ captured[r]["hidden"] > 0
  /\ IF catalog = "dynamic" THEN Begin("emergency", [r \in Ranks |-> SweepPlan(r, Shapes)])
     ELSE IF DenseReady(FALSE) THEN Begin("emergency", [r \in Ranks |-> DensePlan(r, FALSE)])
     ELSE Return([Incomplete EXCEPT !.kind = "emergency"], {})
  /\ tainted' = FALSE
  /\ UNCHANGED <<sampling, step, captured, schedule>>

-----------------------------------------------------------------------------
(* Replay.                                                                 *)

(* replay_baseline_key: the layer, the shape and the mode of the replay.   *)
KeyOf(item) ==
  IF item = "embedding" THEN <<item, 0, 0>> ELSE <<item, layer, position>>

(* ReplayShapeScheduler.advance.                                           *)
Advance(n) == IF n + 1 = Shapes THEN 0 ELSE n + 1

Vector(wrong) == [r \in Ranks |-> IF r \in wrong THEN "wrong" ELSE "right"]

(* The guard of observe_clean: no round looked slow and none was wrong.    *)
IsClean(rounds, merged) ==
  /\ \A i \in DOMAIN rounds : ~HasTimingCandidate(rounds[i].replay, rounds[i].assessment)
  /\ merged.sdc = {}

NeedsConfirmation(rounds) ==
  /\ Len(rounds) < Rounds
  /\ HasTimingCandidate(rounds[1].replay, rounds[1].assessment)

(* A numerical fault ends a sweep of shapes early.                         *)
Rest(todo, done) ==
  IF todo[2] = "shape" /\ HasSDC(Last(done)) THEN <<"all_to_all">> ELSE Tail(todo)

(* A collective needs every rank.  Ranks that go on to different recipes   *)
(* get no further: what their untagged gathers would exchange is left out. *)
Together == AllAgree(plan)

(* One collective replay, the first or a confirming one; after the last    *)
(* the rest of _confirm_and_classify and of _check_current_shape.          *)
Replayed(wrong, times) ==
  LET item == Head(check.todo)
      replay == ReplayRound([n \in {<<item, "output">>} |-> Vector(wrong)], times)
      assessment == Assess(baselines, KeyOf(item), times)
      rounds == Append(check.rounds, [replay |-> replay, assessment |-> assessment])
      merged == MergeRounds([i \in DOMAIN rounds |-> rounds[i].replay],
                            [i \in DOMAIN rounds |-> rounds[i].assessment], Rounds)
      kept == [item |-> IF item = "shape" THEN position ELSE item,
               c3 |-> merged.c3, sdc |-> merged.sdc, spatial |-> merged.spatial,
               temporal |-> merged.temporal, group |-> merged.group]
      done == Append(check.done, kept)
  IN  /\ tainted' = (tainted \/ wrong # {})
      /\ IF NeedsConfirmation(rounds)
         THEN /\ check' = [check EXCEPT !.rounds = rounds]
              /\ UNCHANGED <<baselines, position>>
         ELSE /\ check' = [check EXCEPT !.rounds = <<>>, !.done = done, !.todo = Rest(@, done)]
              /\ baselines' = IF IsClean(rounds, merged)
                              THEN ObserveClean(baselines, KeyOf(item), merged.times)
                              ELSE baselines
              /\ position' = IF item = "shape" THEN Advance(position) ELSE position

Replay ==
  /\ check.mode # "none" /\ check.todo # <<>> /\ Together
  /\ Head(check.todo) \in Modules \cup {"shape"}
  /\ \E wrong \in Corruptions, times \in TimeVectors : Replayed(wrong, times)
  /\ UNCHANGED <<sampling, step, captured, optimizer, layer, plan, result>>

(* Comparisons that join the result of the recipes replayed so far.        *)
Compare(wrong, prefix, c3) ==
  LET none == [item |-> prefix, c3 |-> <<>>, sdc |-> {}, spatial |-> {},
               temporal |-> {}, group |-> FALSE]
      done == IF check.done = <<>> THEN <<none>> ELSE check.done
      added == [done EXCEPT ![Len(done)] = AddComparisons(@, prefix, c3)]
  IN  /\ check' = [check EXCEPT !.done = added,
                                !.todo = IF Len(@) = 1 THEN <<>> ELSE Rest(@, added)]
      /\ tainted' = (tainted \/ wrong # {})
      /\ UNCHANGED <<sampling, step, captured, schedule, plan, result>>

(* replay_optimizer_batch: without the source's transition there is        *)
(* nothing to compare; else every peer repeats it and compares the weights.*)
ReplayOptimizer ==
  /\ check.mode # "none" /\ check.todo # <<>> /\ Head(check.todo) = "optimizer" /\ Together
  /\ \E wrong \in Corruptions :
       IF optimizer[Source].status = "ok"
       THEN Compare(wrong, "optimizer",
                    [status |-> [status |-> Agree, bitmap |-> {}],
                     updated_weight |-> ClassifyExact(Vector(wrong))])
       ELSE Compare({}, "optimizer", [status |-> [status |-> Inconclusive, bitmap |-> {}]])
  /\ optimizer' = Consumed

(* _attach_all_to_all_replay: execution and output are compared with what  *)
(* is expected, not with the peers.                                        *)
ReplayAllToAll ==
  /\ check.mode # "none" /\ check.todo = <<"all_to_all">> /\ Together
  /\ \E wrong \in Corruptions :
       Compare(wrong, "all_to_all",
               [output |-> ExpectedBoolean([r \in Ranks |-> r \notin wrong])])
  /\ UNCHANGED optimizer

(* The end of check, check_shape_cycle and _check_dense_recipes: the       *)
(* aggregate, the scheduler put back after an emergency, the next layer.   *)
Finish ==
  /\ check.mode # "none" /\ check.todo = <<>>
  /\ LET total == Aggregate(check.done)
         checked == {check.done[i].item : i \in DOMAIN check.done}
         complete == \/ catalog = "dense"
                     \/ Len(check.done) = Shapes
         emergency == check.mode = "emergency"
         rotates == /\ ~emergency
                    /\ IF catalog = "dense" THEN "hidden" \in checked
                       ELSE check.mode = "scheduled" \/ complete
     IN  /\ result' = [kind |-> check.mode, checked |-> checked, fault |-> HasFault(total),
                       certifies |-> Certifies([complete |-> complete, c3 |-> total.c3,
                                                sdc |-> total.sdc])]
         /\ position' = IF emergency THEN check.position ELSE position
         /\ baselines' = IF emergency /\ catalog = "dynamic" THEN check.baselines ELSE baselines
         /\ layer' = IF rotates THEN (layer + 1) % Layers ELSE layer
         /\ captured' = IF rotates
                        THEN [r \in Ranks |-> [captured[r] EXCEPT !["hidden"] = 0]]
                        ELSE captured
  /\ check' = NoCheck
  /\ plan' = [r \in Ranks |-> <<>>]
  /\ optimizer' = Consumed
  /\ UNCHANGED <<sampling, step, tainted>>

Next ==
  \/ TrainStep \/ EmergencyCheck \/ Replay \/ ReplayOptimizer \/ ReplayAllToAll \/ Finish
  \/ \E complete \in BOOLEAN : Step(complete)

Spec == Init /\ [][Next]_vars

-----------------------------------------------------------------------------
(* Properties.                                                             *)

(* The dynamic contract leaves the optimizer out, so that such a job is    *)
(* kept together by its optimizers: all of them have pre-step hooks, or    *)
(* none has.                                                               *)
OptimizersAlike == catalog = "dynamic" => replaying \in {Ranks, {}}

(* No rank enters a collective that a peer leaves out (docs/scout.md:83,   *)
(* of the dense catalogue): whatever the ranks captured and however they   *)
(* were configured, the recipes their own code goes on to execute are the  *)
(* same.  In a dynamic job whose optimizers are not alike they are not.    *)
LockStep == OptimizersAlike => \A r, s \in Ranks : plan[r] = plan[s]

(* A result that certifies a checkpoint comes from a check in which no     *)
(* rank computed a wrong value, in no round and no recipe.  (While another *)
(* check runs, tainted is about that one.)                                 *)
CertifiedMeansClean == check.mode = "none" /\ result.certifies => ~tainted

(* The corruptions for which that holds: those who are right and those who *)
(* are wrong are never equally many, so that an exact comparison names the *)
(* minority.                                                               *)
NobodyTies == \A wrong \in Corruptions : 2 * Cardinality(wrong) # Cardinality(Ranks)

(* It also covers the catalogue: every shape of the plan, whichever shape  *)
(* the rotation had come to, or every recipe that was due.                 *)
CertifiedIsCovered ==
  result.certifies =>
    IF catalog = "dynamic" THEN result.checked = 0..(Shapes - 1)
    ELSE result.checked \cup {"optimizer"}
           = Range(DueRecipes(Source, result.kind = "scheduled", step)) \cup {"optimizer"}

(* A slowdown is never learned as normal: once a baseline has enough       *)
(* samples, it takes in none above the slowdown ratio of all it has of the *)
(* rank, however often the slow replay is repeated.  (The end of an        *)
(* emergency check puts an earlier history back.)                          *)
SlowIsNeverLearned ==
  [][\A i \in DOMAIN baselines :
       LET old == baselines[i].window
           new == BaselineOf(baselines', baselines[i].key).window
       IN  Len(old) >= MinSamples /\ check'.mode # "none" =>
             \A j \in DOMAIN new : \A r \in Ranks :
               \E k \in DOMAIN old : new[j][r] <= SlowRatio * old[k][r]]_baselines
=============================================================================
