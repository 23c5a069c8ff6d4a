--------------------------- MODULE ReplayAnalysis ---------------------------
(***************************************************************************)
(* What SCOUT makes of the evidence of a layer replay: layer_replay.py     *)
(* (one round), replay_analysis.py (confirmation rounds), the aggregation  *)
(* of replay_harness.py, and temporal.py (timing history).                 *)
(*                                                                         *)
(* A result is a record: c3 maps the name of a comparison to its verdict,  *)
(* sdc is the set of ranks some comparison accuses, spatial and temporal   *)
(* are the accused stragglers, times the replay time of every rank.  Peer  *)
(* groups are sets of ranks; a bitmap is the set of its ones.              *)
(***************************************************************************)
EXTENDS Consensus, Sequences

CONSTANTS
  SlowRatio,      \* straggler_min_slowdown_ratio, temporal_slowdown_ratio
  SlowMargin,     \* straggler_min_slowdown_ms
  Sigma,          \* threshold_sigma
  MinSamples,     \* temporal_min_samples
  Window,         \* temporal_window_size
  MaxKeys         \* max_keys of the baseline store

-----------------------------------------------------------------------------
(* Verdicts of single comparisons.                                         *)

(* compare_expected_boolean: true is expected, whatever the peers say.     *)
ExpectedBoolean(v) ==
  LET false == {r \in DOMAIN v : ~v[r]}
  IN  IF false = {} THEN [status |-> Agree, bitmap |-> {}]
      ELSE IF 2 * Cardinality(DOMAIN v \ false) > Cardinality(DOMAIN v)
      THEN [status |-> Attributed, bitmap |-> false]
      ELSE [status |-> Inconclusive, bitmap |-> {}]

(* _slow_outlier_bitmap: outliers on the slow side, by a ratio and by a    *)
(* margin over the upper median.                                           *)
SlowOutliers(flagged, times) ==
  LET center == UpperMedian(times)
  IN  {r \in flagged : times[r] > SlowRatio * center /\ times[r] > center + SlowMargin}

SlowPeers(times) == SlowOutliers(ClassifyStatistical(times, Sigma).bitmap, times)

-----------------------------------------------------------------------------
(* replay_invocation: preconditions (parameters, broadcast input, RNG) and *)
(* outputs are compared exactly, the elapsed times statistically.          *)
ReplayRound(evidence, times) ==
  LET c3 == [name \in DOMAIN evidence |-> ClassifyExact(evidence[name])]
  IN  [c3 |-> c3,
       sources |-> [name \in DOMAIN c3 |-> c3[name].bitmap],
       sdc |-> UNION {c3[name].bitmap : name \in DOMAIN c3},
       spatial |-> SlowPeers(times), temporal |-> {}, group |-> FALSE, times |-> times]

(* statistics.median, doubled, of the i-th entries of a sequence.          *)
TwoMedianOf(seq) == TwoMedian([i \in 1..Len(seq) |-> seq[i]])

(* merge_replay_rounds.  The rounds merge their bitmaps; c3_results stays  *)
(* that of the first round, whose record is the one that is updated.       *)
MergeRounds(rounds, assessments, required) ==
  LET first == rounds[1]
      ranks == DOMAIN first.times
      Count(S(_)) == [r \in ranks |-> Cardinality({i \in DOMAIN rounds : r \in S(i)})]
      spatial == Count(LAMBDA i : rounds[i].spatial)
      temporal == Count(LAMBDA i : assessments[i].ranks)
  IN  [first EXCEPT
        !.sources = [name \in DOMAIN first.sources |->
                       UNION {rounds[i].sources[name] : i \in DOMAIN rounds}],
        !.sdc = UNION {rounds[i].sdc : i \in DOMAIN rounds},
        !.spatial = {r \in ranks : spatial[r] >= required},
        !.temporal = {r \in ranks : temporal[r] >= required},
        !.group = Cardinality({i \in DOMAIN assessments : assessments[i].group}) >= required,
        !.times = [r \in ranks |->
                     TwoMedianOf([i \in DOMAIN rounds |-> rounds[i].times[r]]) \div 2]]

HasTimingCandidate(round, assessment) ==
  round.spatial # {} \/ assessment.ranks # {} \/ assessment.group

(* _aggregate_shape_cycle over the results of a sweep, and the same over   *)
(* the recipes of a dense check (_aggregate_dense_recipe_results): names   *)
(* are prefixed, so that no verdict hides another.                         *)
Aggregate(results) ==
  LET names == {<<i, name>> : i \in DOMAIN results,
                              name \in UNION {DOMAIN results[i].c3 : i \in DOMAIN results}}
      own == {n \in names : n[2] \in DOMAIN results[n[1]].c3}
  IN  [c3 |-> [n \in own |-> results[n[1]].c3[n[2]]],
       sdc |-> UNION {results[i].sdc : i \in DOMAIN results},
       straggler |-> UNION {results[i].spatial \cup results[i].temporal : i \in DOMAIN results},
       group |-> \E i \in DOMAIN results : results[i].group]

(* merge_sdc_source_bitmaps: further comparisons join a result.            *)
AddComparisons(result, prefix, c3) ==
  [result EXCEPT
     !.c3 = [n \in DOMAIN result.c3 \cup {<<prefix, name>> : name \in DOMAIN c3} |->
               IF n \in DOMAIN result.c3 THEN result.c3[n] ELSE c3[n[2]]],
     !.sdc = @ \cup UNION {c3[name].bitmap : name \in DOMAIN c3}]

(* A mutant: a comparison that names nobody is taken for a clean one.      *)
NamesSomebody(result) == result.sdc # {}

(* replay_result_has_sdc, replay_result_has_fault and                      *)
(* replay_result_certifies_checkpoint.                                     *)
HasSDC(result) ==
  result.sdc # {} \/ \E n \in DOMAIN result.c3 : result.c3[n].status = Inconclusive
HasFault(result) == HasSDC(result) \/ result.straggler # {} \/ result.group
Certifies(result) == result.complete /\ ~HasSDC(result)

-----------------------------------------------------------------------------
(* TemporalBaselineStore: a sequence of baselines, the least recently      *)
(* observed first.  A window holds time vectors, one entry per clean check.*)
NoBaseline == [key |-> 0, window |-> <<>>]

BaselineOf(store, key) ==
  LET found == {i \in DOMAIN store : store[i].key = key}
  IN  IF found = {} THEN NoBaseline ELSE store[CHOOSE i \in found : TRUE]

(* _is_slow, with history twice its values: the median and the median      *)
(* absolute deviation scaled by sigma (1.4826 is left at 1).               *)
IsSlow(value, history) ==
  /\ Len(history) >= MinSamples
  /\ LET two == [i \in 1..Len(history) |-> 2 * history[i]]
         center == TwoMedianOf(history)
         dev == [i \in 1..Len(history) |-> IF two[i] >= center THEN two[i] - center
                                           ELSE center - two[i]]
     IN  /\ 2 * value > SlowRatio * center
         /\ 4 * value > 2 * center + Sigma * TwoMedianOf(dev)

Assess(store, key, times) ==
  LET window == BaselineOf(store, key).window
      group == [i \in 1..Len(window) |-> TwoMedian(window[i]) \div 2]
  IN  [ranks |-> {r \in DOMAIN times :
                    IsSlow(times[r], [i \in 1..Len(window) |-> window[i][r]])},
       group |-> IsSlow(TwoMedian(times) \div 2, group)]

Suffix(seq, n) == IF Len(seq) <= n THEN seq ELSE SubSeq(seq, Len(seq) - n + 1, Len(seq))

(* observe_clean: append, move to the end, drop the oldest key.            *)
ObserveClean(store, key, times) ==
  LET others == SelectSeq(store, LAMBDA b : b.key # key)
      window == Suffix(Append(BaselineOf(store, key).window, times), Window)
  IN  Suffix(Append(others, [key |-> key, window |-> window]), MaxKeys)
=============================================================================
