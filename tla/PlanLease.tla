------------------------------ MODULE PlanLease ------------------------------
(***************************************************************************)
(* The liveness lease of a committed plan, with time: the coordinator's    *)
(* renewal threads write it, an agent decides from it whether a manager    *)
(* stands behind the plan, and how long its workers may take to restart.   *)
(*                                                                         *)
(* One unit of time is the renewal interval.  The clock can advance        *)
(* between any two steps, so every thread can be arbitrarily slow; the     *)
(* coordinator and the agent measure durations only, so one clock stands   *)
(* for both monotonic clocks.                                              *)
(***************************************************************************)
EXTENDS Integers

CONSTANTS
  NumPlans,      \* plans one coordinator commits, one after the other
  MaxTime,       \* bound on the clock
  LeaseTimes,    \* remaining_seconds of a request
  FreshFor,      \* max(heartbeat_timeout, three renewal intervals)
  MaxFailures    \* bound on failing store calls

LeaseAssumption ==
  /\ NumPlans \in Nat \ {0}
  /\ MaxTime \in Nat
  /\ LeaseTimes \subseteq Nat \ {0}
  /\ FreshFor \in Nat \ {0}
  /\ MaxFailures \in Nat

Plans == 1 .. NumPlans

MaxConsecutiveFailures == 3
JoinTime == 2

VARIABLES
  now,
  committed,   \* the last plan publish_successor committed, 0 for none
  caller,      \* where the call that starts the lease of `committed` is
  current,     \* the plan of _lease_stop and _lease_thread, 0 for None
  stop,        \* stop[p]: the stop event of the thread of plan p is set
  error,       \* the plan whose renewals put an exception in _lease_error
  deadline,    \* deadline[p], on the coordinator's clock
  thread,      \* thread[p]: the renewal thread of plan p
  sequence,    \* the sequence key of plan p
  record,      \* the lease key of plan p
  failed,      \* failing store calls so far
  seen,        \* the agent's observation of the lease of its plan
  answer       \* what its last look at the lease returned

coordinatorVars == <<committed, caller, current, stop, error, deadline, thread, failed>>
storeVars == <<sequence, record>>
agentVars == <<seen, answer>>
vars == <<now, committed, caller, current, stop, error, deadline, thread, sequence,
          record, failed, seen, answer>>

AtLeastZero(t) == IF t > 0 THEN t ELSE 0
Least(a, b) == IF a < b THEN a ELSE b

(***************************************************************************)
(* A thread: where it is, when stop.wait returns, its consecutive          *)
(* failures, and the renewal it is writing.  `from` is the time at which   *)
(* the remaining time of that renewal was computed.                        *)
(***************************************************************************)
NoThread == [at |-> "none", due |-> 0, fails |-> 0, seq |-> 0, left |-> 0, from |-> 0]
NoCall   == [at |-> "idle", left |-> 0, due |-> 0]
NoRecord == [seq |-> 0, left |-> 0, from |-> 0, written |-> 0]
NoLook   == [plan |-> 0, seq |-> 0, fresh |-> 0, ends |-> 0, live |-> FALSE,
             at |-> 0, looked |-> 0, since |-> 0, record |-> NoRecord]
NotLive  == [plan |-> 0, live |-> FALSE, at |-> 0]

Init ==
  /\ now = 0
  /\ committed = 0
  /\ caller = NoCall
  /\ current = 0
  /\ stop = [p \in Plans |-> FALSE]
  /\ error = 0
  /\ deadline = [p \in Plans |-> 0]
  /\ thread = [p \in Plans |-> NoThread]
  /\ sequence = [p \in Plans |-> 0]
  /\ record = [p \in Plans |-> NoRecord]
  /\ failed = 0
  /\ seen = NoLook
  /\ answer = NotLive

Tick ==
  /\ now < MaxTime
  /\ now' = now + 1
  /\ UNCHANGED <<coordinatorVars, storeVars, agentVars>>

-----------------------------------------------------------------------------
(* publish_successor: a healthy coordinator commits the next plan. *)
Publish(left) ==
  /\ caller.at = "idle"
  /\ error = 0
  /\ committed < NumPlans
  /\ committed' = committed + 1
  /\ caller' = [at |-> "stop", left |-> left, due |-> 0]
  /\ UNCHANGED <<now, current, stop, error, deadline, thread, storeVars, failed, agentVars>>

(* _stop_plan_lease, up to the join of the old thread. *)
StopLease ==
  /\ caller.at = "stop"
  /\ stop' = IF current = 0 THEN stop ELSE [stop EXCEPT ![current] = TRUE]
  /\ current' = 0
  /\ caller' = [caller EXCEPT !.at = "join", !.due = now + JoinTime]
  /\ UNCHANGED <<now, committed, error, deadline, thread, storeVars, failed, agentVars>>

Ended(p) == p \in Plans => thread[p].at \in {"none", "done"}

(* The join returns, also after its timeout with the old thread still there. *)
StartLease ==
  /\ caller.at = "join"
  /\ Ended(committed - 1) \/ now >= caller.due
  /\ deadline' = [deadline EXCEPT ![committed] = now + caller.left]
  /\ caller' = [caller EXCEPT !.at = "renew"]
  /\ thread' = [thread EXCEPT ![committed].at = "first"]
  /\ UNCHANGED <<now, committed, current, stop, error, storeVars, failed, agentVars>>

(* The top of the loop of renew: the last renewal, or a wait for the next. *)
Resume(p, fails) ==
  IF deadline[p] <= now
  THEN [NoThread EXCEPT !.at = "final", !.fails = fails]
  ELSE [NoThread EXCEPT !.at = "wait", !.fails = fails,
                        !.due = now + Least(1, deadline[p] - now)]

(* Mutant: the exception of the first publication leaves no thread behind. *)
InstallNoRetry ==
  /\ caller.at = "install"
  /\ thread[committed].at = "first_done"
  /\ current' = committed
  /\ error' = 0
  /\ thread' = [thread EXCEPT ![committed] = Resume(committed, @.fails)]
  /\ caller' = NoCall
  /\ UNCHANGED <<now, committed, stop, deadline, storeVars, failed, agentVars>>

(* The thread is installed, with a clean error, and started. *)
InstallThread ==
  /\ caller.at = "install"
  /\ current' = committed
  /\ error' = 0
  /\ thread' = [thread EXCEPT ![committed] =
       IF @.at = "first_failed" /\ now < deadline[committed]
       THEN [@ EXCEPT !.at = "renew"]
       ELSE Resume(committed, @.fails)]
  /\ caller' = NoCall
  /\ UNCHANGED <<now, committed, stop, deadline, storeVars, failed, agentVars>>

-----------------------------------------------------------------------------
(* The points at which a thread, or the caller for it, renews the lease. *)
Renewing == {"first", "renew", "final"}
Writing(at) == CASE at = "first" -> "first_set" [] at = "renew" -> "renew_set"
                 [] at = "final" -> "final_set"

(* A renewal of plan p that announces seq and left. *)
Renewal(p, seq, left) ==
  [thread[p] EXCEPT !.at = Writing(@), !.seq = seq, !.from = now, !.left = left]

(* Mutant: the remaining time of the top of the loop is sent after the wait. *)
RenewAddBeforeWait(p) ==
  /\ thread[p].at \in Renewing
  /\ sequence' = [sequence EXCEPT ![p] = @ + 1]
  /\ thread' = [thread EXCEPT ![p] =
       Renewal(p, sequence[p] + 1, AtLeastZero(deadline[p] - thread[p].due + 1))]
  /\ UNCHANGED <<now, committed, caller, current, stop, error, deadline, record, failed,
                 agentVars>>

(***************************************************************************)
(* publish_remaining and renew_plan_lease: the remaining time is computed, *)
(* the sequence key is advanced, and the record is set in a second call.   *)
(***************************************************************************)
RenewAdd(p) ==
  /\ thread[p].at \in Renewing
  /\ sequence' = [sequence EXCEPT ![p] = @ + 1]
  /\ thread' = [thread EXCEPT ![p] =
       Renewal(p, sequence[p] + 1, AtLeastZero(deadline[p] - now))]
  /\ UNCHANGED <<now, committed, caller, current, stop, error, deadline, record, failed,
                 agentVars>>

(* The record is written; the failure count starts again. *)
RenewSet(p) ==
  LET t == thread[p] IN
  /\ t.at \in {"first_set", "renew_set", "final_set"}
  /\ record' = [record EXCEPT ![p] =
                  [seq |-> t.seq, left |-> t.left, from |-> t.from, written |-> now]]
  /\ \/ /\ t.at = "first_set"
        /\ caller' = [caller EXCEPT !.at = "install"]
        /\ thread' = [thread EXCEPT ![p] = [NoThread EXCEPT !.at = "first_done"]]
     \/ /\ t.at = "renew_set"
        /\ thread' = [thread EXCEPT ![p] = Resume(p, 0)]
        /\ UNCHANGED caller
     \/ /\ t.at = "final_set"
        /\ thread' = [thread EXCEPT ![p] = [NoThread EXCEPT !.at = "done"]]
        /\ UNCHANGED caller
  /\ UNCHANGED <<now, committed, current, stop, error, deadline, sequence, failed, agentVars>>

(* The third failure in a row of the current thread is an error. *)
ErrorAfter(p, fails) ==
  IF fails >= MaxConsecutiveFailures /\ current = p /\ ~stop[p] THEN p ELSE error

(***************************************************************************)
(* A store call raises.  The first publication is left to the thread, a    *)
(* later one is counted, the last one is ignored.                          *)
(***************************************************************************)
RenewFail(p) ==
  LET t == thread[p] IN
  /\ failed < MaxFailures
  /\ failed' = failed + 1
  /\ \/ /\ t.at \in {"first", "first_set"}
        /\ thread' = [thread EXCEPT ![p] =
                        [NoThread EXCEPT !.at = "first_failed", !.fails = 1]]
        /\ caller' = [caller EXCEPT !.at = "install"]
        /\ UNCHANGED error
     \/ /\ t.at \in {"renew", "renew_set"}
        /\ thread' = [thread EXCEPT ![p] = Resume(p, t.fails + 1)]
        /\ error' = ErrorAfter(p, t.fails + 1)
        /\ UNCHANGED caller
     \/ /\ t.at \in {"final", "final_set"}
        /\ thread' = [thread EXCEPT ![p] = [NoThread EXCEPT !.at = "done"]]
        /\ UNCHANGED <<caller, error>>
  /\ UNCHANGED <<now, committed, current, stop, deadline, storeVars, agentVars>>

(* stop.wait times out and the thread renews. *)
WakeUp(p) ==
  /\ thread[p].at = "wait"
  /\ ~stop[p]
  /\ now >= thread[p].due
  /\ thread' = [thread EXCEPT ![p].at = "renew"]
  /\ UNCHANGED <<now, committed, caller, current, stop, error, deadline, storeVars, failed,
                 agentVars>>

(* stop.wait finds the event set and the thread returns. *)
StopThread(p) ==
  /\ thread[p].at = "wait"
  /\ stop[p]
  /\ thread' = [thread EXCEPT ![p] = [NoThread EXCEPT !.at = "done"]]
  /\ UNCHANGED <<now, committed, caller, current, stop, error, deadline, storeVars, failed,
                 agentVars>>

(* close: the lease is stopped; nothing starts another. *)
Close ==
  /\ caller.at = "idle"
  /\ stop' = IF current = 0 THEN stop ELSE [stop EXCEPT ![current] = TRUE]
  /\ current' = 0
  /\ caller' = [NoCall EXCEPT !.at = "closed"]
  /\ UNCHANGED <<now, committed, error, deadline, thread, storeVars, failed, agentVars>>

(* The process of the coordinator dies with all its threads. *)
CrashCoordinator ==
  /\ caller.at # "dead"
  /\ caller' = [NoCall EXCEPT !.at = "dead"]
  /\ thread' = [p \in Plans |-> IF p <= committed THEN [NoThread EXCEPT !.at = "done"]
                                                  ELSE NoThread]
  /\ UNCHANGED <<now, committed, current, stop, error, deadline, storeVars, failed, agentVars>>

-----------------------------------------------------------------------------
(***************************************************************************)
(* _plan_lease_is_live for the committed plan: the first look, a newer     *)
(* record, the same record.  The two deadlines of an observation that is   *)
(* not live are never used and are left out.  For the properties, `at`,    *)
(* `since` and `looked` keep the times at which a live record was seen, of *)
(* the look before that, and of the last look.                             *)
(***************************************************************************)
LookAtLease ==
  LET p   == committed
      r   == record[p]
      old == IF seen.plan = p THEN seen ELSE NoLook
  IN
  /\ p > 0
  /\ r.seq > 0
  /\ \/ /\ old.plan = 0 \/ (r.seq > old.seq /\ r.left = 0)
        /\ seen' = [NoLook EXCEPT !.plan = p, !.seq = r.seq, !.looked = now]
        /\ answer' = NotLive
     \/ /\ old.plan # 0 /\ r.seq > old.seq /\ r.left > 0
        /\ seen' = [plan |-> p, seq |-> r.seq, fresh |-> now + Least(r.left, FreshFor),
                    ends |-> now + r.left, live |-> TRUE,
                    at |-> now, since |-> old.looked, looked |-> now, record |-> r]
        /\ answer' = [plan |-> p, live |-> TRUE, at |-> now]
     \/ /\ old.plan # 0 /\ r.seq = old.seq
        /\ seen' = [seen EXCEPT !.looked = now]
        /\ answer' = IF old.live /\ now < old.fresh
                     THEN [plan |-> p, live |-> TRUE, at |-> now] ELSE NotLive
  /\ UNCHANGED <<now, coordinatorVars, storeVars>>

Thread(p) == RenewAdd(p) \/ RenewSet(p) \/ WakeUp(p) \/ StopThread(p)

Next ==
  \/ Tick
  \/ \E left \in LeaseTimes : Publish(left)
  \/ StopLease \/ StartLease \/ InstallThread
  \/ \E p \in Plans : Thread(p) \/ RenewFail(p)
  \/ Close \/ CrashCoordinator
  \/ LookAtLease

Spec == Init /\ [][Next]_vars

(* The threads of a coordinator that lives are scheduled, and so is its caller. *)
FairSpec ==
  /\ Spec
  /\ WF_vars(StopLease \/ StartLease \/ InstallThread)
  /\ \A p \in Plans : WF_vars(Thread(p))

-----------------------------------------------------------------------------
Times == 0 .. MaxTime
Seqs  == Nat
Records == [seq : Seqs, left : Nat, from : Times, written : Times]

TypeOK ==
  /\ now \in Times
  /\ committed \in 0 .. NumPlans
  /\ caller \in [at : {"idle", "stop", "join", "renew", "install", "closed", "dead"},
                 left : LeaseTimes \cup {0}, due : Nat]
  /\ current \in 0 .. committed
  /\ stop \in [Plans -> BOOLEAN]
  /\ error \in 0 .. committed
  /\ deadline \in [Plans -> Nat]
  /\ thread \in [Plans ->
       [at : {"none", "first", "first_set", "first_failed", "first_done", "wait", "renew",
              "renew_set", "final", "final_set", "done"},
        due : Nat, fails : Nat, seq : Seqs, left : Nat, from : Times]]
  /\ sequence \in [Plans -> Seqs]
  /\ record \in [Plans -> Records]
  /\ failed \in 0 .. MaxFailures
  /\ seen \in [plan : 0 .. committed, seq : Seqs, fresh : Nat, ends : Nat, live : BOOLEAN,
               at : Times, looked : Times, since : Times, record : Records]
  /\ answer \in [plan : 0 .. committed, live : BOOLEAN, at : Times]

(***************************************************************************)
(* _plan_lease_is_live never answers TRUE on the word of a manager that is *)
(* long gone: the renewal it rests on was written after the agent's        *)
(* earlier look, and the answer is given within FreshFor of seeing it.  An *)
(* agent that looks every d units is therefore misled for less than        *)
(* d + FreshFor after the last renewal, however old the record is when it  *)
(* first looks.                                                            *)
(***************************************************************************)
LiveMeansRecentlyRenewed ==
  answer.live =>
    /\ answer.plan = seen.plan
    /\ seen.record.written >= seen.since
    /\ answer.at < seen.at + FreshFor

(***************************************************************************)
(* The deadline the agent hands to its workers (_plan_lease_deadline_ns)   *)
(* is never earlier than the coordinator's, and later by no more than the  *)
(* age of the renewal when the agent read it.                              *)
(***************************************************************************)
DeadlineIsKept ==
  seen.live =>
    /\ seen.ends >= deadline[seen.plan]
    /\ seen.ends <= deadline[seen.plan] + (seen.at - seen.record.from)

(***************************************************************************)
(* _lease_error belongs to the lease that is installed: a slow thread of   *)
(* an older plan, still renewing after the join gave up on it, does not    *)
(* make a coordinator with a healthy lease unusable.                       *)
(***************************************************************************)
ErrorIsOfCurrentLease == current # 0 => error \in {0, current}

(***************************************************************************)
(* An agent never sees the sequence number of a lease move back (it would  *)
(* raise): at most one thread writes a given lease.                        *)
(***************************************************************************)
SequenceMovesForward ==
  seen.plan # 0 => seen.seq <= record[seen.plan].seq

(* What agents and coordinators conclude from a lease is true. *)
LeaseTellsTheTruth ==
  /\ LiveMeansRecentlyRenewed
  /\ DeadlineIsKept
  /\ ErrorIsOfCurrentLease
  /\ SequenceMovesForward

(***************************************************************************)
(* The plan is committed and cannot be rolled back, so a failure of the    *)
(* first publication of its lease is made good by the thread without       *)
(* waiting: things do not stay for ever after one failure and with no      *)
(* record; the lease appears, a second attempt fails, or the coordinator   *)
(* is gone.                                                                *)
(***************************************************************************)
Unpublished(p) ==
  thread[p].fails = 1 /\ record[p].seq = 0 /\ thread[p].at # "done"

FirstLeaseIsRetried == \A p \in Plans : []<>~Unpublished(p)
=============================================================================
