----------------------------- MODULE Consensus -----------------------------
(***************************************************************************)
(* C3, the consensus primitive of SCOUT (lm_resiliency/detection/c3.py).   *)
(* Every rank of a peer group contributes one value; every rank then       *)
(* applies the same deterministic rule to the gathered vector.  A vector   *)
(* is a function from a finite set of ranks to values, a bitmap is the set *)
(* of ranks whose bit is one.  A signature of a tensor or of a nested      *)
(* structure is represented by the value that was signed: the hash is      *)
(* taken to be injective, which is what the callers rely on.               *)
(*                                                                         *)
(* Timings are integers.  The rule divides only by four (the quartiles)    *)
(* and by two (the range fallback), so the comparisons are multiplied out. *)
(***************************************************************************)
EXTENDS Integers, FiniteSets, FiniteSetsExt

Agree == "agree"
Attributed == "attributed"
Inconclusive == "inconclusive"

Values(v) == {v[r] : r \in DOMAIN v}
Holders(v, x) == {r \in DOMAIN v : v[r] = x}

(* The value of more than half of the ranks; Counter.most_common(1) finds  *)
(* it whenever there is one.                                               *)
StrictMajority(v) ==
  {x \in Values(v) : Cardinality(Holders(v, x)) > Cardinality(DOMAIN v) \div 2}

(* classify_evidence in EXACT mode.                                        *)
ClassifyExact(v) ==
  IF Cardinality(Values(v)) = 1 THEN [status |-> Agree, bitmap |-> {}]
  ELSE IF StrictMajority(v) = {} THEN [status |-> Inconclusive, bitmap |-> {}]
  ELSE [status |-> Attributed,
        bitmap |-> {r \in DOMAIN v : v[r] \notin StrictMajority(v)}]

(* sorted(v)[k], counted from zero.                                        *)
OrderStatistic(v, k) ==
  CHOOSE x \in Values(v) :
    /\ Cardinality({r \in DOMAIN v : v[r] < x}) <= k
    /\ Cardinality({r \in DOMAIN v : v[r] <= x}) > k

UpperMedian(v) == OrderStatistic(v, Cardinality(DOMAIN v) \div 2)

(* Four times _linear_percentile at q quarters.                            *)
FourPercentile(v, q) ==
  LET position == (Cardinality(DOMAIN v) - 1) * q
      weight == position % 4
      lower == position \div 4
  IN  IF weight = 0 THEN 4 * OrderStatistic(v, lower)
      ELSE (4 - weight) * OrderStatistic(v, lower)
           + weight * OrderStatistic(v, lower + 1)

Distance(v) ==
  LET m == UpperMedian(v)
  IN  [r \in DOMAIN v |-> IF v[r] >= m THEN v[r] - m ELSE m - v[r]]

(* classify_evidence in STATISTICAL mode: the dispersion is the median     *)
(* absolute deviation, then the interquartile range, then the range.       *)
ClassifyStatistical(v, sigma) ==
  LET dist == Distance(v)
      mad == UpperMedian(dist)
      fourIqr == FourPercentile(v, 3) - FourPercentile(v, 1)
      range == OrderStatistic(v, Cardinality(DOMAIN v) - 1) - OrderStatistic(v, 0)
      Far(r) == IF mad > 0 THEN dist[r] > sigma * mad
                ELSE IF fourIqr > 0 THEN 4 * dist[r] > sigma * fourIqr
                ELSE range > 0 /\ 2 * dist[r] > range
      far == {r \in DOMAIN v : Far(r)}
  IN  [status |-> IF far = {} THEN Agree ELSE Attributed, bitmap |-> far]

(* Twice statistics.median, the median the callers scale by a ratio.       *)
TwoMedian(v) ==
  LET n == Cardinality(DOMAIN v)
  IN  OrderStatistic(v, (n - 1) \div 2) + OrderStatistic(v, n \div 2)
=============================================================================
