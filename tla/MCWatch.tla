------------------------------- MODULE MCWatch -------------------------------
(***************************************************************************)
(* Two watchers that share no state: the lease by which the agents watch   *)
(* the coordinator of a plan (PlanLease), and the out-of-band hang daemons *)
(* of the ranks (StageWatch).  A behaviour is one of one part; the other   *)
(* stays as it is.                                                         *)
(***************************************************************************)
EXTENDS PlanLease, StageWatch

VARIABLE part

-----------------------------------------------------------------------------
(* Two plans of one coordinator, and three store calls that fail.          *)
ASSUME LeaseAssumption

TwoTicks == {2}

(* One step whose stage is data loading; the last of three ranks may stay  *)
(* in it for good, the others are quick.                                   *)
ThreeRanks == 0..2
OneTick == [k \in {"data_loading", "checkpoint_read", "checkpoint_write"} |-> 1]
DataLoading == [s \in 0..1 |-> "data_loading"]
LastStays == [r \in ThreeRanks |-> IF r = 2 THEN 5 ELSE 0]
OpsOf == [b \in BOOLEAN |-> IF b THEN 2 ELSE 4]

ASSUME Hang!HangAssumption

hangVars == <<tracker, at, daemon, memory, report, sampled, spent>>
watchVars == <<part, vars, hangVars>>

-----------------------------------------------------------------------------
(* The state of the part that does not run; no plan is ever committed.     *)
HangOff == Hang!Init /\ sampled
LeaseOff == Init

WatchInit ==
  \/ part = "hang" /\ Hang!Init /\ LeaseOff
  \/ part = "lease" /\ Init /\ HangOff

HangStep(A) == part = "hang" /\ A /\ UNCHANGED <<part, vars>>
LeaseStep(A) == part = "lease" /\ A /\ UNCHANGED <<part, hangVars>>

(* The clock of the lease comes to its bound.                              *)
Bounded == part = "lease" /\ UNCHANGED watchVars

WatchNext == HangStep(Hang!Next) \/ LeaseStep(Next) \/ Bounded

(* The fairness of HangDetection and that of PlanLease.                    *)
WatchSpec ==
  /\ WatchInit /\ [][WatchNext]_watchVars
  /\ \A r \in {0, 1} : WF_hangVars(HangStep(Hang!EndStage(r)))
  /\ \A r \in 0..2 : WF_hangVars(HangStep(Hang!DaemonStep(r)))
  /\ WF_hangVars(HangStep(Hang!RoundFails)) /\ WF_hangVars(HangStep(Hang!Tick))
  /\ []<>(part = "hang" => ~Hang!Met)
  /\ WF_vars(LeaseStep(StopLease \/ StartLease \/ InstallThread))
  /\ \A p \in Plans : WF_vars(LeaseStep(Thread(p)))

-----------------------------------------------------------------------------
(* Training that has stopped for good is reported (run and _observe_stall  *)
(* of the daemon), unless the daemon of the reporter is lost or closed.    *)
StoppedIsReported ==
  <>[][part = "hang" /\ \A r \in 0..2 :
         Hang!Progress(tracker'[r]) = Hang!Progress(tracker[r])]_hangVars
    => <>[](part = "hang" => Hang!Reported)
=============================================================================
