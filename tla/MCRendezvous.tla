----------------------------- MODULE MCRendezvous -----------------------------
(***************************************************************************)
(* Rendezvous for TLC.  OnePolicy is the normal deployment; in             *)
(* OneMayDiffer one machine may have a worker configuration of its own.    *)
(***************************************************************************)
EXTENDS Rendezvous, TLC

OnePolicy    == {[n \in Nodes |-> "policy"]}
OneMayDiffer == OnePolicy \cup {[n \in Nodes |-> IF n = odd THEN "other" ELSE "policy"] :
                                 odd \in Nodes}

Symmetry == Permutations(Nodes)
=============================================================================
