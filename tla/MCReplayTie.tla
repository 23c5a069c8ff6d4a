----------------------------- MODULE MCReplayTie -----------------------------
(***************************************************************************)
(* Four peers, of which two may compute one wrong value together: every    *)
(* exact comparison that sees it is a tie, and names nobody.  One of the   *)
(* others may be slow, so that a round is confirmed by another.            *)
(***************************************************************************)
EXTENDS ReplayHarness

TwoOfFour == {{}, {2, 3}}
OneSlow == {[r \in Ranks |-> 10], [r \in Ranks |-> IF r = 1 THEN 30 ELSE 10]}
OneStep == [dense |-> 1, dynamic |-> 1]

(***************************************************************************)
(* "An inconclusive exact result blocks checkpoint certification even when *)
(* no culprit can be assigned" (docs/scout.md:69).  Here a wrong value is  *)
(* seen by an exact comparison, and never attributed.                      *)
(***************************************************************************)
InconclusiveBlocks == CertifiedMeansClean
=============================================================================
