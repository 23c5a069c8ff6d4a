----------------------------- MODULE StateFault -----------------------------
(***************************************************************************)
(* Faults that the local executor injects into live training state         *)
(* (fault_injection/local.py): one tensor of a rank, a parameter or an     *)
(* entry of the optimizer state, and two incidents that aim at it.  The    *)
(* executor changes the tensor in place, training goes on with it, and     *)
(* when the fault is over the executor must take out what it put in and    *)
(* nothing else: not the updates made meanwhile, not what a checkpoint has *)
(* loaded over it.  It sees only values.                                   *)
(*                                                                         *)
(* The tensor is one number.  After n updates of a healthy job it is       *)
(* Clean(n); no two updates are of the same size, so that values do not    *)
(* meet by accident.  FaultCampaign has the life of an occurrence between  *)
(* the ranks; here each incident simply fires or is deselected.            *)
(***************************************************************************)
EXTENDS Integers, FiniteSets

CONSTANTS
  Schedules,    \* pairs of incidents that a manifest may have, see Incident
  Modes,        \* subset of {"inplace", "resynchronized"}
  Enumerable,   \* trigger candidates that are looked at one by one (10_000)
  MaxIter,      \* bound: training iterations
  MaxLoads      \* bound: checkpoints loaded

VARIABLES
  mode,      \* whether an optimizer step adds to the tensor, or replaces it by its master copy
  schedule,  \* the pair of incidents
  stage,     \* of the session: "off", "training", "clash", "raised", "closed"
  iter,      \* _current_iteration
  tensor,    \* its value, with the clean updates in it and what else is in it (both history)
  effect,    \* the LocalFaultEffect on the tensor, which _active_keys allows one of
  history,   \* _History of the tensor
  saved,     \* the tensor in the last checkpoint
  loads

vars == <<mode, schedule, stage, iter, tensor, effect, history, saved, loads>>

(***************************************************************************)
(* An incident: its candidates, given one by one or as the range start,    *)
(* start + every, ... end; a lifetime of some iterations or, if that is 0, *)
(* until a boundary; and what it does to the tensor.                       *)
(***************************************************************************)
Incident == [at : SUBSET Nat, start : Nat, end : Nat, every : Nat, iterations : Nat,
             until : {"none", "recovery", "replacement", "campaign_end"},
             kind : {"corrupt", "destroy", "stale"}]

StateFaultAssumption ==
  /\ Modes \subseteq {"inplace", "resynchronized"}
  /\ MaxIter \in Nat \ {0} /\ MaxLoads \in Nat /\ Enumerable \in Nat
  /\ \A pair \in Schedules :
       pair \in [1 .. 2 -> Incident] /\ \A k \in 1 .. 2 : IsFiniteSet(pair[k].at)

-----------------------------------------------------------------------------
(* Which schedules are accepted.                                           *)

Ranged(i) == i.every > 0
Triggers(i) == IF Ranged(i) THEN {n \in i.start .. i.end : (n - i.start) % i.every = 0} ELSE i.at
CandidateCount(i) ==
  IF Ranged(i) THEN 1 + (i.end - i.start) \div i.every ELSE Cardinality(i.at)

FirstOf(S) == CHOOSE n \in S : \A m \in S : n <= m
LastOf(S) == CHOOSE n \in S : \A m \in S : n >= m

(* FaultIncident: candidates are as far apart as the lifetime is long, and *)
(* there is only one of them if it has no end.                             *)
WellSpaced(i) ==
  IF i.iterations = 0 THEN CandidateCount(i) = 1
  ELSE IF Ranged(i) THEN CandidateCount(i) = 1 \/ i.every >= i.iterations
  ELSE \A n, m \in i.at : n < m => m - n >= i.iterations

(* Is there a candidate from low on, and up to high unless that is 0?      *)
HasCandidateBetween(i, low, high) ==
  IF Ranged(i)
    THEN LET late == low - i.start
             first == IF late > 0
                        THEN i.start + ((late + i.every - 1) \div i.every) * i.every
                        ELSE i.start
         IN  first <= i.end /\ (high = 0 \/ first <= high)
    ELSE \E n \in i.at : n >= low /\ (high = 0 \/ n <= high)

(* Does a window of `other` meet the window of `owner` that begins at n?   *)
WindowHits(n, owner, other) ==
  LET before == n - other.iterations + 1
  IN  HasCandidateBetween(other, IF other.iterations = 0 \/ before < 1 THEN 1 ELSE before,
                          IF owner.iterations = 0 THEN 0 ELSE n + owner.iterations - 1)

Gcd(a, b) == CHOOSE d \in 1 .. a :
  /\ a % d = 0 /\ b % d = 0
  /\ \A c \in d + 1 .. a : ~(a % c = 0 /\ b % c = 0)

(* Do two finite arithmetic progressions have a value in common?           *)
ProgressionsIntersect(start1, end1, step1, start2, end2, step2) ==
  LET low == IF start1 > start2 THEN start1 ELSE start2
      high == IF end1 < end2 THEN end1 ELSE end2
      divisor == Gcd(step1, step2)
      apart == start2 - start1
      reduced == step2 \div divisor
      inverse == CHOOSE x \in 0 .. reduced - 1 : ((step1 \div divisor) * x) % reduced = 1
      multiplier == IF reduced = 1 THEN 0 ELSE ((apart \div divisor) * inverse) % reduced
      first == start1 + step1 * multiplier
      period == step1 * reduced
      candidate == IF first < low THEN first + ((low - first + period - 1) \div period) * period
                                  ELSE first
  IN  low <= high /\ apart % divisor = 0 /\ candidate <= high

(* The windows of two long ranges: by their bounds, then by each distance  *)
(* that two candidates with meeting windows can have.                      *)
LongRangesMayOverlap(a, b) ==
  LET ends(i, j) == i.iterations > 0 /\ LastOf(Triggers(i)) + i.iterations - 1 < FirstOf(Triggers(j))
  IN  /\ ~ends(a, b) /\ ~ends(b, a)
      /\ (a.iterations > 0 /\ b.iterations > 0 /\ Ranged(a) /\ Ranged(b)) =>
           \E offset \in 1 - b.iterations .. a.iterations - 1 :
             ProgressionsIntersect(a.start, a.end, a.every,
                                   b.start - offset, b.end - offset, b.every)

WindowsMayOverlap(a, b) ==
  IF CandidateCount(a) <= Enumerable \/ CandidateCount(b) <= Enumerable
    THEN IF CandidateCount(a) <= CandidateCount(b)
           THEN \E n \in Triggers(a) : WindowHits(n, a, b)
           ELSE \E n \in Triggers(b) : WindowHits(n, b, a)
    ELSE LongRangesMayOverlap(a, b)

(* validate_schedule.  A fault in a parameter that every step replaces     *)
(* cannot last.                                                            *)
Accepted(pair, m) ==
  /\ \A k \in 1 .. 2 : WellSpaced(pair[k])
  /\ m = "resynchronized" => \A k \in 1 .. 2 : pair[k].iterations = 1
  /\ ~WindowsMayOverlap(pair[1], pair[2])

-----------------------------------------------------------------------------
(* Values.  NaN stays NaN.                                                 *)
NaN == -20000
None == -10000

Plus(v, d) == IF v = NaN \/ d = NaN THEN NaN ELSE v + d
Minus(v, w) == IF v = NaN \/ w = NaN THEN NaN ELSE v - w
Clean(n) == n * n
Corruption(k) == 1000 * k

CleanTensor == [value |-> 0, updates |-> 0, excess |-> 0]
NoEffect == [on |-> FALSE, by |-> 1, start |-> 0, original |-> 0, transformed |-> 0,
             replaced |-> FALSE, updates |-> 0]
NoHistory == [previous |-> None, latest |-> None]

Init ==
  /\ mode \in Modes
  /\ schedule \in {pair \in Schedules : Accepted(pair, mode)}
  /\ stage = "off" /\ iter = 1
  /\ tensor = CleanTensor /\ saved = CleanTensor
  /\ effect = NoEffect /\ history = NoHistory
  /\ loads = 0

(* One optimizer step.                                                     *)
Trained(t) ==
  LET n == t.updates + 1
  IN  IF mode = "inplace"
        THEN [t EXCEPT !.value = Plus(@, Clean(n) - Clean(n - 1)), !.updates = n]
        ELSE [value |-> Clean(n), updates |-> n, excess |-> 0]

(* Mutant: the delta is taken out although a step has replaced the value.  *)
RestoredTwice(t, e, preserve, steps) ==
  LET delta == Minus(e.transformed, e.original)
  IN  CASE e.replaced \/ t.value = e.original -> t
        [] preserve /\ t.value # e.transformed -> [t EXCEPT !.excess = Plus(@, delta)]
        [] t.value = e.transformed \/ delta = NaN ->
             [t EXCEPT !.value = e.original, !.updates = e.updates]
        [] OTHER -> [t EXCEPT !.value = @ - delta]

(***************************************************************************)
(* restore, the cleanup of an effect after so many successful steps.  A    *)
(* fault until recovery that training has changed since is left as it is.  *)
(***************************************************************************)
Restored(t, e, preserve, steps) ==
  LET delta == Minus(e.transformed, e.original)
  IN  CASE e.replaced \/ t.value = e.original -> t
        [] mode = "resynchronized" /\ steps >= e.start -> t
        [] preserve /\ t.value # e.transformed -> [t EXCEPT !.excess = Plus(@, delta)]
        [] t.value = e.transformed \/ delta = NaN ->
             [t EXCEPT !.value = e.original, !.updates = e.updates]
        [] OTHER -> [t EXCEPT !.value = @ - delta]

Lifted(t, e, preserve, steps) == IF e.on THEN Restored(t, e, preserve, steps) ELSE t

-----------------------------------------------------------------------------
Due(n) == {k \in 1 .. 2 : n \in Triggers(schedule[k])}

(* sync_history: the value is kept around the iterations of a stale fault. *)
Observed(h, n, t) ==
  IF \E k \in Due(n) \cup Due(n + 1) : schedule[k].kind = "stale"
    THEN [previous |-> h.latest, latest |-> t.value] ELSE NoHistory

(* _prepare_state_values.                                                  *)
Transformed(k, t, h) ==
  CASE schedule[k].kind = "corrupt" -> Plus(t.value, Corruption(k))
    [] schedule[k].kind = "destroy" -> NaN
    [] schedule[k].kind = "stale" -> h.previous

Changes(k, t, h) ==
  LET new == Transformed(k, t, h)
  IN  new # t.value /\ (schedule[k].iterations > 0 => Minus(new, t.value) # NaN)

(***************************************************************************)
(* Activation of the incidents S at the beginning of iteration n, with the *)
(* tensor t, effect e and history h as the step before has left them.      *)
(* Without a value from before, a stale fault fails quietly; a target that *)
(* is taken, or a fault that would change nothing, ends the session, whose *)
(* cleanup lifts what is there.                                            *)
(***************************************************************************)
Quiet(S, h) == \A k \in S : schedule[k].kind = "stale" /\ h.previous = None
Fires(S, t, e, h) ==
  ~e.on /\ Cardinality(S) = 1 /\ ~Quiet(S, h) /\ \A k \in S : Changes(k, t, h)

Activate(S, n, t, e, h) ==
  /\ iter' = n /\ history' = h
  /\ \/ /\ S = {} \/ (~e.on /\ Quiet(S, h))
        /\ tensor' = t /\ effect' = e /\ stage' = "training"
     \/ /\ Fires(S, t, e, h)
        /\ \E k \in S :
             /\ tensor' = [t EXCEPT !.value = Transformed(k, t, h)]
             /\ effect' = [on |-> TRUE, by |-> k, start |-> n, original |-> t.value,
                           transformed |-> Transformed(k, t, h), replaced |-> FALSE,
                           updates |-> t.updates]
        /\ stage' = "training"
     \/ /\ S # {} /\ ~Fires(S, t, e, h) /\ (e.on \/ ~Quiet(S, h))
        /\ tensor' = Lifted(t, e, FALSE, n - 1) /\ effect' = NoEffect
        /\ stage' = IF e.on \/ Cardinality(S) > 1 THEN "clash" ELSE "raised"

Enable(S) ==
  /\ stage = "off" /\ S \subseteq Due(1)
  /\ Activate(S, 1, tensor, NoEffect, Observed(NoHistory, 1, tensor))
  /\ UNCHANGED <<mode, schedule, saved, loads>>

Expires == /\ effect.on /\ schedule[effect.by].iterations > 0
           /\ iter >= effect.start + schedule[effect.by].iterations - 1

(* An optimizer step, and on_step_complete after it.                       *)
Step(S) ==
  LET t == IF Expires THEN Restored(Trained(tensor), effect, FALSE, iter) ELSE Trained(tensor)
      e == IF Expires THEN NoEffect ELSE effect
  IN  /\ stage = "training" /\ iter < MaxIter
      /\ S \subseteq Due(iter + 1)
      /\ Activate(S, iter + 1, t, e, Observed(history, iter + 1, t))
      /\ UNCHANGED <<mode, schedule, saved, loads>>

(* notify_recovery and notify_replacement.                                 *)
Notify(boundary) ==
  /\ stage = "training" /\ effect.on /\ schedule[effect.by].until = boundary
  /\ tensor' = Restored(tensor, effect, boundary = "recovery", iter - 1)
  /\ effect' = NoEffect
  /\ UNCHANGED <<mode, schedule, stage, iter, history, saved, loads>>

(* close, or the cleanup of a session in which something was raised.       *)
Close ==
  /\ stage = "training"
  /\ tensor' = Lifted(tensor, effect, FALSE, iter - 1)
  /\ effect' = NoEffect
  /\ stage' = "closed"
  /\ UNCHANGED <<mode, schedule, iter, history, saved, loads>>

(* A checkpoint is captured with whatever the tensor holds.                *)
Save ==
  /\ stage = "training" /\ saved # tensor
  /\ saved' = tensor
  /\ UNCHANGED <<mode, schedule, stage, iter, tensor, effect, history, loads>>

(***************************************************************************)
(* A checkpoint is loaded, and _mark_state_replaced hears of it: a fault   *)
(* that should have lasted longer has failed.                              *)
(***************************************************************************)
Load ==
  /\ stage = "training" /\ loads < MaxLoads
  /\ loads' = loads + 1
  /\ tensor' = [saved EXCEPT !.excess = Minus(saved.value, Clean(saved.updates))]
  /\ effect' = IF effect.on /\ schedule[effect.by].iterations = 0
                 THEN [effect EXCEPT !.replaced = TRUE] ELSE NoEffect
  /\ UNCHANGED <<mode, schedule, stage, iter, history, saved>>

Next ==
  \/ \E S \in SUBSET (1 .. 2) : Enable(S) \/ Step(S)
  \/ \E boundary \in {"recovery", "replacement"} : Notify(boundary)
  \/ Close \/ Save \/ Load

Spec == Init /\ [][Next]_vars

-----------------------------------------------------------------------------
(* Of two incidents that validate_schedule has let pass, neither ever      *)
(* finds the tensor taken by the other, whichever of them fire and however *)
(* they end.                                                               *)
TargetIsFree == stage # "clash"

(***************************************************************************)
(* When a fault is over, the tensor has every update that training has     *)
(* made, or what was loaded and every update since, and nothing of the     *)
(* fault (restore in _mutate_state_tensor): but for what a checkpoint has  *)
(* brought back, or was left at a recovery that had loaded nothing.        *)
(***************************************************************************)
NoTraceOfFault ==
  ~effect.on => tensor.value = Plus(Clean(tensor.updates), tensor.excess)

(***************************************************************************)
(* A stale fault puts in the value of one update before, as long as no     *)
(* checkpoint has been loaded; the history does not skip a step and does   *)
(* not hold a fault's value, unless one was still there at the beginning   *)
(* of the iteration before (sync_history).                                 *)
(***************************************************************************)
StaleIsOneBehind ==
  LET before == effect.start - 1
  IN  effect.on /\ schedule[effect.by].kind = "stale" /\ loads = 0 =>
        \/ effect.transformed = Clean(effect.updates - 1)
        \/ \E k \in 1 .. 2 : \E n \in Triggers(schedule[k]) :
             n < before /\ before < n + schedule[k].iterations
=============================================================================
