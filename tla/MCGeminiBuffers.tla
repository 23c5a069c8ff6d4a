--------------------------- MODULE MCGeminiBuffers ---------------------------
(***************************************************************************)
(* GeminiBuffers for TLC: ranks 1 and 2 are a pair, 3 and 4 another.       *)
(***************************************************************************)
EXTENDS GeminiBuffers, TLC

Pairs == [r \in Ranks |-> IF r % 2 = 1 THEN r + 1 ELSE r - 1]

(***************************************************************************)
(* With four ranks, the savings are ordered to keep the search small: a    *)
(* rank takes a step of its save only when no rank before it can; and when *)
(* a node is lost the others stop one after another.  Every behaviour of   *)
(* OrderedSpec is one of Spec.                                             *)
(***************************************************************************)
OrderedNext ==
  \E r \in Ranks :
    \/ /\ Save(r)
       /\ \A q \in 1 .. r - 1 : ~ENABLED Save(q)
    \/ ExchangeFails(r) \/ BreakLink(r)
    \/ /\ Stop(r)
       /\ \E q \in Ranks : at[q] = "dead"
       /\ \A q \in 1 .. r - 1 : at[q] \in {"exited", "dead"}
    \/ FlushSlots(r) \/ LoseNode(r)

OrderedSpec == Init /\ [][OrderedNext]_vars
=============================================================================
