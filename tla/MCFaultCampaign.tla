--------------------------- MODULE MCFaultCampaign ---------------------------
(***************************************************************************)
(* Two parts that share no state: small campaigns (FaultCampaign), and the *)
(* tensor that two incidents of a campaign aim at (Tensor).  A behaviour   *)
(* is one of one part.                                                     *)
(***************************************************************************)
EXTENDS FaultCampaign, TLC

VARIABLES part, mode, schedule, stage, iter, tensor, effect, history, saved, loads

Fault(at, ranks, limit, kind) ==
  [at |-> at, ranks |-> ranks, limit |-> limit, iterations |-> 1, until |-> "none",
   safe |-> TRUE, stale |-> FALSE, kind |-> kind]

\* A state fault of two iterations on both ranks, fired once, next to a
\* destructive one-rank fault that may fire twice.
Correlated ==
  [a |-> [Fault({1}, Ranks, 1, "state") EXCEPT !.iterations = 2],
   b |-> [Fault({2}, {1}, 2, "external") EXCEPT !.safe = FALSE]]

\* A hook that needs history, and a fault until recovery.
Lasting ==
  [a |-> [Fault({2}, Ranks, 0, "hook") EXCEPT !.stale = TRUE],
   b |-> [Fault({1}, {2}, 1, "state") EXCEPT !.iterations = 0, !.until = "recovery"]]

\* A fault for one matching call, and one that needs history and lasts to the end.
Brief ==
  [a |-> [Fault({1}, {1}, 1, "hook") EXCEPT !.iterations = 0, !.until = "matching_call"],
   b |-> [Fault({2}, Ranks, 1, "state") EXCEPT !.iterations = 0, !.until = "campaign_end",
                                              !.stale = TRUE]]

\* External faults, one for a single call and one until a replacement.
Outside ==
  [a |-> [Fault({1}, {1}, 1, "external") EXCEPT !.iterations = 0, !.until = "matching_call"],
   b |-> [Fault({2}, {2}, 1, "external") EXCEPT !.iterations = 0, !.until = "replacement"]]

\* Single faults, for restarts: a safe one that may fire once, on every rank,
\* and a destructive one that may fire twice.
Once  == [a |-> Fault({1}, Ranks, 1, "state")]
Twice == [a |-> [Fault({1}, {1}, 2, "external") EXCEPT !.safe = FALSE]]

Scope(c, jobs, iterations, failures) ==
  [campaign |-> c, jobs |-> jobs, iterations |-> iterations, mishaps |-> failures]

\* One job with two mishaps, and two jobs that may overlap.
Small ==
  {Scope(c, 1, 3, 2) : c \in {Correlated, Lasting, Brief, Outside}}
    \cup {Scope(Once, 2, 1, 2), Scope(Twice, 2, 2, 1)}

-----------------------------------------------------------------------------
At(S) == [at |-> S, start |-> 0, end |-> 0, every |-> 0]
From(first, last, step) == [at |-> {}, start |-> first, end |-> last, every |-> step]
Timings == {At({1}), At({2}), At({3}), At({1, 3}), At({2, 4}),
            From(1, 5, 2), From(2, 5, 3), From(1, 5, 3), From(1, 4, 1)}

TensorIncidents ==
  {timing @@ [iterations |-> n, until |-> "none", kind |-> k] :
     timing \in Timings, n \in 1 .. 2, k \in {"corrupt", "stale"}}
  \cup {At({2}) @@ [iterations |-> 0, until |-> u, kind |-> k] :
          u \in {"recovery", "replacement", "campaign_end"}, k \in {"corrupt", "destroy", "stale"}}

Tensor == INSTANCE StateFault WITH
  Schedules <- TensorIncidents \X TensorIncidents, Modes <- {"inplace", "resynchronized"},
  Enumerable <- 1, MaxIter <- 5, MaxLoads <- 1

ASSUME Tensor!StateFaultAssumption

(* What two incidents' windows are, for those that are examined one by one *)
(* and for long ranges; long lists of candidates are refused unexamined.   *)
Window(i, n) == n .. (IF i.iterations = 0 THEN 10 ELSE n + i.iterations - 1)
WindowsMeet(a, b) ==
  \E n \in Tensor!Triggers(a), m \in Tensor!Triggers(b) : Window(a, n) \cap Window(b, m) # {}

ASSUME \A a, b \in TensorIncidents :
  /\ WindowsMeet(a, b) => Tensor!WindowsMayOverlap(a, b)
  /\ a.iterations > 0 /\ b.iterations > 0 /\ Tensor!Ranged(a) /\ Tensor!Ranged(b) =>
       (Tensor!WindowsMayOverlap(a, b) <=> WindowsMeet(a, b))

tensorVars == <<mode, schedule, stage, iter, tensor, effect, history, saved, loads>>

AllInit ==
  /\ part \in {"campaign", "tensor"}
  /\ Init /\ Tensor!Init
  /\ part # "campaign" => scope = Scope(Once, 2, 1, 2) /\ chosen = {}
  /\ part # "tensor" => mode = "inplace" /\ schedule = CHOOSE pair \in TensorIncidents \X TensorIncidents :
                                             Tensor!Accepted(pair, "inplace")

AllNext ==
  \/ part = "campaign" /\ Next /\ UNCHANGED <<part, tensorVars>>
  \/ part = "tensor" /\ Tensor!Next /\ UNCHANGED <<part, vars>>

AllSpec == AllInit /\ [][AllNext]_<<part, vars, tensorVars>>

(* The tensor takes what the schedule says: never while it is taken or     *)
(* with a value that is not the one of the step before, and it keeps       *)
(* nothing of a fault that is over.                                        *)
TensorAsScheduled ==
  Tensor!TargetIsFree /\ Tensor!StaleIsOneBehind /\ Tensor!NoTraceOfFault
=============================================================================
