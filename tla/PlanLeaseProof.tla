---------------------------- MODULE PlanLeaseProof ----------------------------
(***************************************************************************)
(* The lease of a plan, for every number of plans, every bound on time and *)
(* failures and all durations: an agent never takes a manager for alive on *)
(* the word of an old renewal, the deadline it hands on is the             *)
(* coordinator's, a coordinator is not held responsible for the renewals   *)
(* of an older plan, and the sequence of a lease does not move back.       *)
(*                                                                         *)
(* The inductive invariant follows a renewal on its way: what the thread   *)
(* has computed, what the record says, and what the agent has seen of it.  *)
(*                                                                         *)
(* The second part is about the other watcher, the hang daemons of the     *)
(* ranks (HangDetection): whom they name for a slow stage was slow.        *)
(***************************************************************************)
EXTENDS PlanLease, StageWatch, TLAPS, WellFoundedInduction

(* Where a thread can be.                                                  *)
Places ==
  {"none", "first", "first_set", "first_failed", "first_done", "wait", "renew",
   "renew_set", "final", "final_set", "done"}

(* A thread between the two store calls of a renewal.                      *)
SettingRecord == {"first_set", "renew_set", "final_set"}

(* No thread has renewed the lease of plan p, and its deadline is not set. *)
NotBegun(p) == p > committed \/ (p = committed /\ caller.at \in {"stop", "join"})

(* The remaining time of a renewal is that to the deadline of its plan.    *)
Remaining(p, renewal) == renewal.left = AtLeastZero(deadline[p] - renewal.from)

Carries(p) ==
  thread[p].at \in SettingRecord =>
    /\ Remaining(p, thread[p])
    /\ thread[p].from <= now
    /\ record[p].seq < thread[p].seq /\ thread[p].seq <= sequence[p]

Recorded(p) ==
  /\ record[p].seq <= sequence[p]
  /\ record[p].seq > 0 =>
       /\ Remaining(p, record[p])
       /\ record[p].from <= record[p].written /\ record[p].written <= now

PlanInv(p) ==
  /\ NotBegun(p) => thread[p].at = "none" /\ record[p].seq = 0
  /\ Carries(p)
  /\ Recorded(p)

(* A record that the agent has not seen was written after its last look.   *)
LookInv ==
  /\ seen.plan # 0 =>
       /\ 0 < seen.seq /\ seen.seq <= record[seen.plan].seq
       /\ seen.looked <= now
       /\ seen.seq < record[seen.plan].seq => seen.looked <= record[seen.plan].written
  /\ seen.live =>
       /\ seen.plan # 0
       /\ seen.since <= seen.record.written
       /\ seen.fresh <= seen.at + FreshFor
  /\ answer.live =>
       seen.live /\ answer.plan = seen.plan /\ answer.at < seen.at + FreshFor

(* The inductive invariant.                                                *)
LeaseInv ==
  /\ TypeOK
  /\ \A p \in Plans : PlanInv(p)
  /\ LookInv
  /\ DeadlineIsKept
  /\ ErrorIsOfCurrentLease

-----------------------------------------------------------------------------
(* The records of a thread, of the call, and of the agent's looks.         *)
ThreadType == [at : Places, due : Nat, fails : Nat, seq : Seqs, left : Nat, from : Times]
CallType ==
  [at : {"idle", "stop", "join", "renew", "install", "closed", "dead"},
   left : LeaseTimes \cup {0}, due : Nat]
LookType ==
  [plan : 0 .. committed, seq : Seqs, fresh : Nat, ends : Nat, live : BOOLEAN,
   at : Times, looked : Times, since : Times, record : Records]
AnswerType == [plan : 0 .. committed, live : BOOLEAN, at : Times]

(* TypeOK, with names for the sets of records.                             *)
LeaseTypes ==
  /\ now \in Times
  /\ committed \in 0 .. NumPlans
  /\ caller \in CallType
  /\ current \in 0 .. committed
  /\ stop \in [Plans -> BOOLEAN]
  /\ error \in 0 .. committed
  /\ deadline \in [Plans -> Nat]
  /\ thread \in [Plans -> ThreadType]
  /\ sequence \in [Plans -> Seqs]
  /\ record \in [Plans -> Records]
  /\ failed \in 0 .. MaxFailures
  /\ seen \in LookType
  /\ answer \in AnswerType

(* Both say the same, now and in the next state.                           *)
LEMMA Types == TypeOK <=> LeaseTypes
  BY DEF TypeOK, LeaseTypes, CallType, ThreadType, Places, LookType, AnswerType

LEMMA TypesNext == TypeOK' <=> LeaseTypes'
  BY DEF TypeOK, LeaseTypes, CallType, ThreadType, Places, LookType, AnswerType

(* The bounds and durations are numbers.                                   *)
LEMMA Durations ==
  ASSUME LeaseAssumption, LeaseTypes
  PROVE  /\ now \in Nat /\ now <= MaxTime /\ committed \in Nat
         /\ FreshFor \in Nat /\ FreshFor > 0 /\ LeaseTimes \subseteq Nat
         /\ 0 \in Times /\ now \in Times
  BY DEF LeaseAssumption, LeaseTypes, Times

(* The top of the loop of renew leaves a thread that waits or ends.        *)
LEMMA ResumeType ==
  ASSUME LeaseAssumption, LeaseTypes, NEW p \in Plans, NEW fails \in Nat
  PROVE  /\ Resume(p, fails) \in ThreadType
         /\ Resume(p, fails).at \in {"final", "wait"}
<1>1. deadline[p] \in Nat
  BY DEF LeaseTypes
<1>2. CASE deadline[p] <= now
  BY <1>1, <1>2, Durations DEF Resume, NoThread, ThreadType, Places, Seqs
<1>3. CASE ~(deadline[p] <= now)
  <2>1. now + Least(1, deadline[p] - now) \in Nat
    BY <1>1, <1>3, Durations DEF Least
  <2> QED BY <1>3, <2>1, Durations DEF Resume, NoThread, ThreadType, Places, Seqs
<1> QED BY <1>2, <1>3

(* A thread that has done its first renewal, failed in it, or returned.    *)
LEMMA Ends ==
  ASSUME LeaseAssumption, LeaseTypes
  PROVE  /\ NoThread \in ThreadType
         /\ [NoThread EXCEPT !.at = "done"] \in ThreadType
         /\ [NoThread EXCEPT !.at = "done"].at = "done"
         /\ [NoThread EXCEPT !.at = "first_done"] \in ThreadType
         /\ [NoThread EXCEPT !.at = "first_done"].at = "first_done"
         /\ [NoThread EXCEPT !.at = "first_failed", !.fails = 1] \in ThreadType
         /\ [NoThread EXCEPT !.at = "first_failed", !.fails = 1].at = "first_failed"
  BY Durations DEF NoThread, ThreadType, Places, Seqs

(* A renewal of a thread is typed, and its place is one of a second call.  *)
LEMMA RenewalType ==
  ASSUME LeaseAssumption, LeaseTypes, NEW p \in Plans, thread[p].at \in Renewing,
         NEW t, t = Renewal(p, sequence[p] + 1, AtLeastZero(deadline[p] - now))
  PROVE  /\ t \in ThreadType
         /\ t.at \in SettingRecord
         /\ t.seq = sequence[p] + 1 /\ t.from = now
         /\ t.left = AtLeastZero(deadline[p] - now)
<1>1. thread[p] \in ThreadType /\ sequence[p] \in Nat /\ deadline[p] \in Nat
  BY DEF LeaseTypes, Seqs
<1>2. AtLeastZero(deadline[p] - now) \in Nat
  BY <1>1, Durations DEF AtLeastZero
<1>3. Writing(thread[p].at) \in SettingRecord
  BY DEF Renewing, Writing, SettingRecord
<1>4. t = [thread[p] EXCEPT !.at = Writing(thread[p].at), !.seq = sequence[p] + 1,
                            !.from = now, !.left = AtLeastZero(deadline[p] - now)]
  BY DEF Renewal
<1>5. t = [at |-> Writing(thread[p].at), due |-> thread[p].due, fails |-> thread[p].fails,
           seq |-> sequence[p] + 1, left |-> AtLeastZero(deadline[p] - now), from |-> now]
  BY <1>1, <1>4 DEF ThreadType
<1> QED
  BY <1>1, <1>2, <1>3, <1>5, Durations DEF ThreadType, Places, SettingRecord, Seqs

-----------------------------------------------------------------------------
(* Every step keeps the types.                                             *)
LEMMA TypeStep ==
  ASSUME LeaseAssumption, TypeOK, [Next]_vars
  PROVE  TypeOK'
<1>1. LeaseTypes
  BY Types
<1> SUFFICES LeaseTypes'
  BY TypesNext
<1> USE DEF LeaseTypes
<1>2. CASE Tick
  <2>1. now' \in Times
    BY <1>1, <1>2, Durations DEF Tick, Times, LeaseAssumption
  <2> QED
    BY <1>1, <1>2, <2>1 DEF Tick, coordinatorVars, storeVars, agentVars, LookType, AnswerType
<1>3. ASSUME NEW left \in LeaseTimes, Publish(left) PROVE LeaseTypes'
  <2>1. committed' \in 0 .. NumPlans /\ 0 .. committed \subseteq 0 .. committed'
    BY <1>1, <1>3 DEF Publish, LeaseAssumption
  <2>2. caller' \in CallType
    BY <1>3 DEF Publish, CallType
  <2>3. seen \in LookType' /\ answer \in AnswerType'
    BY <1>1, <2>1 DEF LookType, AnswerType
  <2> QED
    BY <1>1, <1>3, <2>1, <2>2, <2>3 DEF Publish, storeVars, agentVars
<1>4. CASE StopLease
  <2>1. now + JoinTime \in Nat
    BY <1>1, Durations DEF JoinTime
  <2>2. caller' \in CallType
    BY <1>1, <1>4, <2>1 DEF StopLease, CallType
  <2>3. stop' \in [Plans -> BOOLEAN]
    BY <1>1, <1>4 DEF StopLease
  <2>4. current' \in 0 .. committed
    BY <1>1, <1>4, Durations DEF StopLease
  <2> QED
    BY <1>1, <1>4, <2>2, <2>3, <2>4 DEF StopLease, storeVars, agentVars, LookType, AnswerType
<1>5. CASE StartLease
  <2>1. now + caller.left \in Nat
    BY <1>1, Durations DEF CallType
  <2>2. thread' \in [Plans -> ThreadType]
    BY <1>1, <1>5 DEF StartLease, ThreadType, Places
  <2>3. caller' \in CallType
    BY <1>1, <1>5 DEF StartLease, CallType
  <2> QED
    BY <1>1, <1>5, <2>1, <2>2, <2>3 DEF StartLease, storeVars, agentVars, LookType, AnswerType
<1>6. CASE InstallThread
  <2>1. ASSUME NEW p \in Plans
        PROVE  /\ [thread[p] EXCEPT !.at = "renew"] \in ThreadType
               /\ Resume(p, thread[p].fails) \in ThreadType
    BY <1>1, ResumeType DEF ThreadType, Places
  <2>2. thread' \in [Plans -> ThreadType]
    <3>1. ASSUME NEW p \in Plans
          PROVE  thread'[p] \in ThreadType
      BY <1>1, <1>6, <2>1 DEF InstallThread
    <3> QED BY <1>1, <1>6, <3>1 DEF InstallThread
  <2>3. caller' \in CallType /\ error' \in 0 .. committed /\ current' \in 0 .. committed
    BY <1>1, <1>6, Durations DEF InstallThread, NoCall, CallType
  <2> QED
    BY <1>1, <1>6, <2>2, <2>3 DEF InstallThread, storeVars, agentVars, LookType, AnswerType
<1>7. ASSUME NEW p \in Plans, RenewAdd(p) PROVE LeaseTypes'
  <2>1. Renewal(p, sequence[p] + 1, AtLeastZero(deadline[p] - now)) \in ThreadType
    BY <1>1, <1>7, RenewalType DEF RenewAdd
  <2> QED
    BY <1>1, <1>7, <2>1 DEF RenewAdd, Seqs, agentVars, LookType, AnswerType
<1>8. ASSUME NEW p \in Plans, RenewSet(p) PROVE LeaseTypes'
  <2>1. thread' \in [Plans -> ThreadType]
    <3>1. Resume(p, 0) \in ThreadType
      BY <1>1, ResumeType
    <3>2. PICK t \in ThreadType : thread' = [thread EXCEPT ![p] = t]
      BY <1>1, <1>8, <3>1, Ends DEF RenewSet
    <3> QED BY <1>1, <3>2
  <2>2. record' \in [Plans -> Records]
    BY <1>1, <1>8, Durations DEF RenewSet, ThreadType, Records
  <2>3. caller' \in CallType
    BY <1>1, <1>8 DEF RenewSet, CallType
  <2> QED
    BY <1>1, <1>8, <2>1, <2>2, <2>3 DEF RenewSet, agentVars, LookType, AnswerType
<1>9. ASSUME NEW p \in Plans, RenewFail(p) PROVE LeaseTypes'
  <2>1. thread[p].fails + 1 \in Nat
    BY <1>1 DEF ThreadType
  <2>2. thread' \in [Plans -> ThreadType]
    <3>1. Resume(p, thread[p].fails + 1) \in ThreadType
      BY <1>1, <2>1, ResumeType
    <3>2. PICK t \in ThreadType : thread' = [thread EXCEPT ![p] = t]
      BY <1>1, <1>9, <3>1, Ends DEF RenewFail
    <3> QED BY <1>1, <3>2
  <2>3. error' \in 0 .. committed
    BY <1>1, <1>9 DEF RenewFail, ErrorAfter
  <2>4. caller' \in CallType
    BY <1>1, <1>9 DEF RenewFail, CallType
  <2>5. failed' \in 0 .. MaxFailures
    BY <1>1, <1>9 DEF RenewFail, LeaseAssumption
  <2> QED
    BY <1>1, <1>9, <2>2, <2>3, <2>4, <2>5
    DEF RenewFail, storeVars, agentVars, LookType, AnswerType
<1>10. ASSUME NEW p \in Plans, WakeUp(p) \/ StopThread(p) PROVE LeaseTypes'
  <2>1. thread' \in [Plans -> ThreadType]
    <3>1. CASE WakeUp(p)
      BY <1>1, <3>1 DEF WakeUp, ThreadType, Places
    <3>2. CASE StopThread(p)
      BY <1>1, <3>2, Ends DEF StopThread
    <3> QED BY <1>10, <3>1, <3>2
  <2> QED
    BY <1>1, <1>10, <2>1 DEF WakeUp, StopThread, storeVars, agentVars, LookType, AnswerType
<1>11. CASE Close
  <2>1. caller' \in CallType
    BY <1>11 DEF Close, NoCall, CallType
  <2>2. stop' \in [Plans -> BOOLEAN]
    BY <1>1, <1>11 DEF Close
  <2>3. current' \in 0 .. committed
    BY <1>1, <1>11, Durations DEF Close
  <2> QED
    BY <1>1, <1>11, <2>1, <2>2, <2>3 DEF Close, storeVars, agentVars, LookType, AnswerType
<1>12. CASE CrashCoordinator
  <2>1. thread' \in [Plans -> ThreadType]
    BY <1>1, <1>12, Ends DEF CrashCoordinator
  <2>2. caller' \in CallType
    BY <1>12 DEF CrashCoordinator, NoCall, CallType
  <2> QED
    BY <1>1, <1>12, <2>1, <2>2
    DEF CrashCoordinator, storeVars, agentVars, LookType, AnswerType
<1>13. CASE LookAtLease
  <2> DEFINE r == record[committed]
             old == IF seen.plan = committed THEN seen ELSE NoLook
  <2>1. committed \in Plans
    BY <1>1, <1>13 DEF LookAtLease, Plans
  <2>2. /\ r \in Records /\ r.seq \in Seqs /\ r.left \in Nat
        /\ NoRecord \in Records
    BY <1>1, <2>1, Durations DEF Records, NoRecord, Seqs
  <2>3. old.looked \in Times
    BY <1>1, Durations DEF LookType, NoLook
  <2>4. now + r.left \in Nat /\ now + Least(r.left, FreshFor) \in Nat
    BY <1>1, <2>2, Durations DEF Least
  <2>5. NotLive \in AnswerType /\ [plan |-> committed, live |-> TRUE, at |-> now] \in AnswerType
    BY <1>1, Durations DEF NotLive, AnswerType
  <2>6. answer' \in AnswerType
    BY <1>13, <2>5 DEF LookAtLease
  <2>7. seen' \in LookType
    <3>1. CASE seen' = [NoLook EXCEPT !.plan = committed, !.seq = r.seq, !.looked = now]
      <4>1. seen' = [plan |-> committed, seq |-> r.seq, fresh |-> 0, ends |-> 0,
                     live |-> FALSE, at |-> 0, looked |-> now, since |-> 0,
                     record |-> NoRecord]
        BY <3>1 DEF NoLook
      <4> QED BY <1>1, <2>2, <4>1, Durations DEF LookType
    <3>2. CASE seen' = [plan |-> committed, seq |-> r.seq,
                        fresh |-> now + Least(r.left, FreshFor), ends |-> now + r.left,
                        live |-> TRUE, at |-> now, since |-> old.looked, looked |-> now,
                        record |-> r]
      BY <1>1, <2>2, <2>3, <2>4, <3>2, Durations DEF LookType
    <3>3. CASE seen' = [seen EXCEPT !.looked = now]
      BY <1>1, <3>3, Durations DEF LookType
    <3> QED BY <1>13, <3>1, <3>2, <3>3 DEF LookAtLease
  <2> QED
    BY <1>1, <1>13, <2>6, <2>7
    DEF LookAtLease, coordinatorVars, storeVars, LookType, AnswerType
<1>14. CASE UNCHANGED vars
  BY <1>1, <1>14 DEF vars, LookType, AnswerType
<1> QED
  BY <1>2, <1>3, <1>4, <1>5, <1>6, <1>7, <1>8, <1>9, <1>10, <1>11, <1>12, <1>13, <1>14
  DEF Next, Thread

-----------------------------------------------------------------------------
(* A plan whose renewals, deadline and record are left alone.              *)
LEMMA PlanAtRest ==
  ASSUME LeaseAssumption, LeaseTypes, NEW p \in Plans, PlanInv(p),
         now' \in Nat, now <= now', NotBegun(p)' => NotBegun(p),
         deadline'[p] = deadline[p], sequence'[p] = sequence[p], record'[p] = record[p],
         \/ thread'[p] = thread[p]
         \/ ~NotBegun(p)' /\ thread'[p].at \notin SettingRecord
  PROVE  PlanInv(p)'
<1>1. thread[p].from \in Nat /\ record[p].written \in Nat /\ now \in Nat
  BY Durations DEF LeaseTypes, ThreadType, Records, Times
<1> QED BY <1>1 DEF PlanInv, Carries, Recorded, Remaining

(* A plan of which no renewal has been made is the next one, or the one    *)
(* whose lease the caller is about to start.                               *)
LEMMA Begun ==
  ASSUME LeaseTypes,
         \/ committed' = committed /\ caller'.at \notin {"stop", "join"}
         \/ UNCHANGED <<committed, caller>>
         \/ committed' = committed /\ caller.at = "stop"
         \/ committed' = committed + 1,
         NEW p \in Plans
  PROVE  NotBegun(p)' => NotBegun(p)
<1>1. committed \in Int /\ p \in Int
  BY DEF LeaseTypes, Plans
<1> QED BY <1>1 DEF NotBegun

(* Every step keeps what is known of the renewals of each plan.            *)
LEMMA PlanStep ==
  ASSUME LeaseAssumption, LeaseTypes, NEW p \in Plans, PlanInv(p), [Next]_vars
  PROVE  PlanInv(p)'
<1> USE DEF LeaseTypes
<1>1. now \in Nat /\ committed \in Nat
  BY Durations
<1>2. CASE Tick \/ UNCHANGED vars \/ LookAtLease
  <2>1. /\ now' \in Nat /\ now <= now'
        /\ UNCHANGED <<committed, caller, thread, deadline, sequence, record>>
    BY <1>1, <1>2 DEF Tick, vars, LookAtLease, coordinatorVars, storeVars, agentVars
  <2> QED BY <2>1, PlanAtRest, Begun
<1>3. ASSUME NEW left \in LeaseTimes, Publish(left) PROVE PlanInv(p)'
  <2>1. committed' = committed + 1 /\ UNCHANGED <<now, thread, deadline, sequence, record>>
    BY <1>3 DEF Publish, storeVars
  <2> QED BY <1>1, <2>1, PlanAtRest, Begun
<1>4. CASE StopLease \/ Close
  <2>1. /\ UNCHANGED <<now, committed, thread, deadline, sequence, record>>
        /\ caller.at = "stop" \/ caller'.at = "closed"
    BY <1>4 DEF StopLease, Close, storeVars, NoCall
  <2> QED BY <1>1, <2>1, PlanAtRest, Begun
<1>5. CASE StartLease
  <2>1. /\ UNCHANGED <<now, committed, sequence, record>>
        /\ caller'.at = "renew" /\ caller.at = "join"
        /\ thread' = [thread EXCEPT ![committed].at = "first"]
        /\ \A q \in Plans : q # committed => deadline'[q] = deadline[q] /\ thread'[q] = thread[q]
    BY <1>5 DEF StartLease, CallType, storeVars
  <2>2. CASE p = committed
    <3>1. thread'[p].at = "first"
      BY <2>1, <2>2 DEF ThreadType
    <3>2. record[p].seq = 0 /\ ~NotBegun(p)'
      BY <1>1, <2>1, <2>2 DEF PlanInv, NotBegun
    <3> QED BY <2>1, <3>1, <3>2 DEF PlanInv, Carries, Recorded, SettingRecord
  <2>3. CASE p # committed
    BY <1>1, <2>1, <2>3, PlanAtRest, Begun
  <2> QED BY <2>2, <2>3
<1>6. CASE InstallThread
  <2>1. /\ UNCHANGED <<now, committed, deadline, sequence, record>>
        /\ caller'.at = "idle" /\ caller.at = "install"
        /\ \A q \in Plans : q # committed => thread'[q] = thread[q]
    BY <1>6 DEF InstallThread, NoCall, storeVars
  <2>2. CASE p = committed
    <3>1. thread'[p].at \in {"renew", "final", "wait"}
      BY <1>6, <2>2, ResumeType DEF InstallThread, ThreadType
    <3>2. ~NotBegun(p)'
      BY <1>1, <2>1, <2>2 DEF NotBegun
    <3> QED BY <1>1, <2>1, <3>1, <3>2, PlanAtRest, Begun DEF SettingRecord
  <2>3. CASE p # committed
    BY <1>1, <2>1, <2>3, PlanAtRest, Begun
  <2> QED BY <2>2, <2>3
<1>7. ASSUME NEW q \in Plans, RenewAdd(q) PROVE PlanInv(p)'
  <2>1. UNCHANGED <<now, committed, caller, deadline, record>>
    BY <1>7 DEF RenewAdd
  <2>2. CASE p = q
    <3> DEFINE t == Renewal(p, sequence[p] + 1, AtLeastZero(deadline[p] - now))
    <3>1. thread'[p] = t /\ sequence'[p] = sequence[p] + 1 /\ thread[p].at \in Renewing
      BY <1>7, <2>2 DEF RenewAdd
    <3>2. /\ t.at \in SettingRecord /\ t.seq = sequence[p] + 1 /\ t.from = now
          /\ t.left = AtLeastZero(deadline[p] - now)
      BY <3>1, RenewalType
    <3>3. ~NotBegun(p)'
      BY <2>1, <3>1 DEF PlanInv, NotBegun, Renewing
    <3>4. sequence[p] \in Nat /\ record[p].seq \in Nat
      BY DEF Records, Seqs
    <3> HIDE DEF t
    <3> QED
      BY <1>1, <2>1, <3>1, <3>2, <3>3, <3>4 DEF PlanInv, Carries, Recorded, Remaining
  <2>3. CASE p # q
    <3>1. thread'[p] = thread[p] /\ sequence'[p] = sequence[p]
      BY <1>7, <2>3 DEF RenewAdd
    <3> QED BY <1>1, <2>1, <3>1, PlanAtRest, Begun
  <2> QED BY <2>2, <2>3
<1>8. ASSUME NEW q \in Plans, RenewSet(q) PROVE PlanInv(p)'
  <2>1. /\ UNCHANGED <<now, committed, deadline, sequence>>
        /\ caller' = caller \/ caller'.at = "install"
    BY <1>8 DEF RenewSet, CallType
  <2>2. NotBegun(p)' => NotBegun(p)
    BY <2>1, Begun
  <2>3. CASE p = q
    <3>1. /\ thread[p].at \in SettingRecord
          /\ record'[p] = [seq |-> thread[p].seq, left |-> thread[p].left,
                           from |-> thread[p].from, written |-> now]
      BY <1>8, <2>3 DEF RenewSet, SettingRecord
    <3>2. thread'[p].at \in {"first_done", "wait", "final", "done"}
      <4>1. Resume(p, 0).at \in {"final", "wait"}
        BY ResumeType
      <4>2. /\ [NoThread EXCEPT !.at = "first_done"].at = "first_done"
            /\ [NoThread EXCEPT !.at = "done"].at = "done"
        BY Ends
      <4> QED BY <1>8, <2>3, <4>1, <4>2 DEF RenewSet
    <3>3. ~NotBegun(p)
      BY <3>1 DEF PlanInv, SettingRecord
    <3>4. thread[p].seq \in Nat /\ thread[p].from \in Nat /\ sequence[p] \in Nat
      BY DEF ThreadType, Seqs, Times
    <3> QED
      BY <1>1, <2>1, <2>2, <3>1, <3>2, <3>3, <3>4
      DEF PlanInv, Carries, Recorded, Remaining, SettingRecord
  <2>4. CASE p # q
    <3>1. thread'[p] = thread[p] /\ record'[p] = record[p]
      BY <1>8, <2>4 DEF RenewSet
    <3> QED BY <1>1, <2>1, <2>2, <3>1, PlanAtRest
  <2> QED BY <2>3, <2>4
<1>9. ASSUME NEW q \in Plans, RenewFail(q) PROVE PlanInv(p)'
  <2>1. /\ UNCHANGED <<now, committed, deadline, sequence, record>>
        /\ caller' = caller \/ caller'.at = "install"
    BY <1>9 DEF RenewFail, CallType, storeVars
  <2>2. NotBegun(p)' => NotBegun(p)
    BY <2>1, Begun
  <2>3. CASE p = q
    <3>1. thread[p].fails + 1 \in Nat
      BY DEF ThreadType
    <3>2. thread'[p].at \in {"first_failed", "wait", "final", "done"}
      <4>1. Resume(p, thread[p].fails + 1).at \in {"final", "wait"}
        BY <3>1, ResumeType
      <4>2. /\ [NoThread EXCEPT !.at = "first_failed", !.fails = 1].at = "first_failed"
            /\ [NoThread EXCEPT !.at = "done"].at = "done"
        BY Ends
      <4> QED BY <1>9, <2>3, <4>1, <4>2 DEF RenewFail
    <3>3. ~NotBegun(p)
      BY <1>9, <2>3 DEF RenewFail, PlanInv
    <3> QED BY <1>1, <2>1, <2>2, <3>2, <3>3, PlanAtRest DEF SettingRecord
  <2>4. CASE p # q
    <3>1. thread'[p] = thread[p]
      BY <1>9, <2>4 DEF RenewFail
    <3> QED BY <1>1, <2>1, <2>2, <3>1, PlanAtRest
  <2> QED BY <2>3, <2>4
<1>10. ASSUME NEW q \in Plans, WakeUp(q) \/ StopThread(q) PROVE PlanInv(p)'
  <2>1. UNCHANGED <<now, committed, caller, deadline, sequence, record>>
    BY <1>10 DEF WakeUp, StopThread, storeVars
  <2>2. CASE p = q
    <3>1. thread'[p].at \in {"renew", "done"}
      BY <1>10, <2>2, Ends DEF WakeUp, StopThread, ThreadType
    <3>2. ~NotBegun(p)
      BY <1>10, <2>2 DEF WakeUp, StopThread, PlanInv
    <3> QED BY <1>1, <2>1, <3>1, <3>2, PlanAtRest, Begun DEF SettingRecord
  <2>3. CASE p # q
    <3>1. thread'[p] = thread[p]
      BY <1>10, <2>3 DEF WakeUp, StopThread
    <3> QED BY <1>1, <2>1, <3>1, PlanAtRest, Begun
  <2> QED BY <2>2, <2>3
<1>11. CASE CrashCoordinator
  <2>1. /\ UNCHANGED <<now, committed, deadline, sequence, record>> /\ caller'.at = "dead"
        /\ thread'[p] = IF p <= committed THEN [NoThread EXCEPT !.at = "done"] ELSE NoThread
    BY <1>11 DEF CrashCoordinator, NoCall, storeVars
  <2>2. CASE p <= committed
    <3>1. ~NotBegun(p)' /\ thread'[p].at = "done"
      BY <1>1, <2>1, <2>2, Ends DEF NotBegun, Plans
    <3>2. thread'[p].at \notin SettingRecord /\ (NotBegun(p)' => NotBegun(p))
      BY <3>1 DEF SettingRecord
    <3>3. now' = now /\ UNCHANGED <<deadline, sequence, record>>
      BY <2>1
    <3> QED BY <1>1, <3>1, <3>2, <3>3, PlanAtRest
  <2>3. CASE ~(p <= committed)
    <3>1. NotBegun(p) /\ thread'[p].at = "none"
      BY <1>1, <2>1, <2>3 DEF NotBegun, Plans, NoThread
    <3>2. record'[p] = record[p] /\ sequence'[p] = sequence[p]
      BY <2>1
    <3> QED BY <3>1, <3>2 DEF PlanInv, Carries, Recorded, SettingRecord
  <2> QED BY <2>2, <2>3
<1> QED
  BY <1>2, <1>3, <1>4, <1>5, <1>6, <1>7, <1>8, <1>9, <1>10, <1>11 DEF Next, Thread

-----------------------------------------------------------------------------
(* A record changes by a renewal that is made now, and the deadline of a   *)
(* plan with a record stays.                                               *)
LEMMA RecordMoves ==
  ASSUME LeaseAssumption, LeaseTypes, NEW p \in Plans, PlanInv(p), [Next]_vars
  PROVE  /\ \/ record'[p] = record[p]
            \/ record[p].seq < record'[p].seq /\ record'[p].written = now
         /\ record[p].seq > 0 => deadline'[p] = deadline[p]
<1> USE DEF LeaseTypes
<1>1. ASSUME NEW q \in Plans, RenewSet(q)
      PROVE  \/ record'[p] = record[p]
             \/ record[p].seq < record'[p].seq /\ record'[p].written = now
  <2>1. CASE p = q
    BY <1>1, <2>1 DEF RenewSet, PlanInv, Carries, SettingRecord
  <2>2. CASE p # q
    BY <1>1, <2>2 DEF RenewSet
  <2> QED BY <2>1, <2>2
<1>2. ASSUME NEW q \in Plans, RenewSet(q)
      PROVE  deadline' = deadline
  BY <1>2 DEF RenewSet
<1>3. CASE StartLease
  <2>1. record' = record
    BY <1>3 DEF StartLease, storeVars
  <2>2. p = committed => record[p].seq = 0
    BY <1>3 DEF StartLease, PlanInv, NotBegun
  <2>3. p # committed => deadline'[p] = deadline[p]
    BY <1>3 DEF StartLease
  <2> QED BY <2>1, <2>2, <2>3
<1>4. CASE /\ ~StartLease
           /\ ~\E q \in Plans : RenewSet(q)
  <2>1. record' = record /\ deadline' = deadline
    BY <1>4
    DEF Next, Thread, vars, storeVars, coordinatorVars, agentVars, Tick, Publish, StopLease,
        InstallThread, RenewAdd, RenewFail, WakeUp, StopThread, Close, CrashCoordinator,
        LookAtLease
  <2> QED BY <2>1
<1> QED BY <1>1, <1>2, <1>3, <1>4

(* What the agent knows of the lease, when it does not look.               *)
LEMMA NoNewLook ==
  ASSUME LeaseAssumption, LeaseTypes, \A p \in Plans : PlanInv(p), LookInv, DeadlineIsKept,
         [Next]_vars, UNCHANGED agentVars
  PROVE  LookInv' /\ DeadlineIsKept'
<1>1. UNCHANGED <<seen, answer>>
  BY DEF agentVars
<1>2. seen.plan # 0 => seen.plan \in Plans
  BY DEF LeaseTypes, LookType, Plans, LeaseAssumption
<1>3. seen.plan # 0 =>
        /\ \/ record'[seen.plan] = record[seen.plan]
           \/ /\ record[seen.plan].seq < record'[seen.plan].seq
              /\ record'[seen.plan].written = now
        /\ record[seen.plan].seq > 0 => deadline'[seen.plan] = deadline[seen.plan]
  BY <1>2, RecordMoves
<1>4. now' \in Nat /\ now <= now' /\ now \in Nat
  BY Durations
  DEF Next, Thread, vars, Tick, Publish, StopLease, StartLease, InstallThread, RenewAdd,
      RenewSet, RenewFail, WakeUp, StopThread, Close, CrashCoordinator, LookAtLease
<1>5. /\ seen.seq \in Nat /\ seen.looked \in Nat
      /\ seen.plan # 0 => record[seen.plan].seq \in Nat
  BY <1>2 DEF LeaseTypes, LookType, Records, Seqs, Times
<1>6. seen.plan # 0 => record'[seen.plan].seq \in Nat
  <2>1. LeaseTypes'
    BY TypeStep, Types, TypesNext
  <2> QED BY <1>2, <2>1 DEF LeaseTypes, Records, Seqs
<1>7. LookInv'
  BY <1>1, <1>3, <1>4, <1>5, <1>6 DEF LookInv
<1>8. seen.live => deadline'[seen.plan] = deadline[seen.plan]
  BY <1>3, <1>5 DEF LookInv
<1> QED BY <1>1, <1>7, <1>8 DEF DeadlineIsKept

(* A look at the lease.                                                    *)
LEMMA NewLook ==
  ASSUME LeaseAssumption, LeaseTypes, \A p \in Plans : PlanInv(p), LookInv, DeadlineIsKept,
         LookAtLease
  PROVE  LookInv' /\ DeadlineIsKept'
<1> DEFINE r == record[committed]
           old == IF seen.plan = committed THEN seen ELSE NoLook
<1>1. committed \in Plans /\ committed # 0 /\ r.seq > 0
  BY DEF LeaseTypes, LookAtLease, Plans
<1>2. UNCHANGED <<now, record, deadline>>
  BY DEF LookAtLease, coordinatorVars, storeVars
<1>3. /\ now \in Nat /\ FreshFor \in Nat /\ FreshFor > 0
      /\ r.seq \in Nat /\ r.left \in Nat /\ r.from \in Nat /\ r.written \in Nat
      /\ deadline[committed] \in Nat
      /\ seen.seq \in Nat /\ seen.looked \in Nat /\ seen.fresh \in Nat /\ seen.at \in Nat
      /\ seen.since \in Nat /\ seen.live \in BOOLEAN
  BY <1>1, Durations DEF LeaseTypes, LookType, Records, Seqs, Times
<1>4. Recorded(committed)
  BY <1>1 DEF PlanInv
<1>5. old.plan # 0 => seen.plan = committed /\ old = seen
  BY DEF NoLook
<1>6. CASE /\ seen' = [NoLook EXCEPT !.plan = committed, !.seq = r.seq, !.looked = now]
           /\ answer' = NotLive
  <2>1. /\ seen'.plan = committed /\ seen'.seq = r.seq /\ seen'.looked = now
        /\ seen'.live = FALSE /\ answer'.live = FALSE
    BY <1>6 DEF NoLook, NotLive
  <2> QED BY <1>1, <1>2, <1>3, <2>1 DEF LookInv, DeadlineIsKept
<1>7. CASE /\ old.plan # 0 /\ r.seq > old.seq /\ r.left > 0
           /\ seen' = [plan |-> committed, seq |-> r.seq,
                       fresh |-> now + Least(r.left, FreshFor), ends |-> now + r.left,
                       live |-> TRUE, at |-> now, since |-> old.looked, looked |-> now,
                       record |-> r]
           /\ answer' = [plan |-> committed, live |-> TRUE, at |-> now]
  <2>1. /\ seen'.plan = committed /\ seen'.seq = r.seq /\ seen'.looked = now
        /\ seen'.live /\ seen'.at = now /\ seen'.since = old.looked /\ seen'.record = r
        /\ seen'.fresh = now + Least(r.left, FreshFor) /\ seen'.ends = now + r.left
        /\ answer'.plan = committed /\ answer'.at = now
    BY <1>7
  <2>2. old.looked <= r.written
    BY <1>5, <1>7 DEF LookInv
  <2>3. Least(r.left, FreshFor) <= FreshFor /\ Least(r.left, FreshFor) \in Nat
    BY <1>3 DEF Least
  <2>4. LookInv'
    BY <1>1, <1>2, <1>3, <2>1, <2>2, <2>3 DEF LookInv
  <2>5. r.left = deadline[committed] - r.from /\ r.from <= now
    BY <1>1, <1>3, <1>4, <1>7 DEF Recorded, Remaining, AtLeastZero
  <2>6. DeadlineIsKept'
    BY <1>1, <1>2, <1>3, <2>1, <2>5 DEF DeadlineIsKept
  <2> QED BY <2>4, <2>6
<1>8. CASE /\ old.plan # 0 /\ r.seq = old.seq
           /\ seen' = [seen EXCEPT !.looked = now]
           /\ answer' = IF old.live /\ now < old.fresh
                        THEN [plan |-> committed, live |-> TRUE, at |-> now] ELSE NotLive
  <2>1. seen.plan = committed /\ old = seen
    BY <1>5, <1>8
  <2>2. /\ seen'.plan = seen.plan /\ seen'.seq = seen.seq /\ seen'.looked = now
        /\ seen'.live = seen.live /\ seen'.at = seen.at /\ seen'.since = seen.since
        /\ seen'.record = seen.record /\ seen'.fresh = seen.fresh /\ seen'.ends = seen.ends
    BY <1>8 DEF LeaseTypes, LookType
  <2>3. answer'.live =>
          seen.live /\ now < seen.fresh /\ answer'.plan = seen.plan /\ answer'.at = now
    BY <1>8, <2>1 DEF NotLive
  <2>4. LookInv'
    BY <1>1, <1>2, <1>3, <1>8, <2>1, <2>2, <2>3 DEF LookInv
  <2> QED BY <1>2, <2>2, <2>4 DEF DeadlineIsKept
<1> QED BY <1>6, <1>7, <1>8 DEF LookAtLease

(* The error is that of the installed thread, or there is none.            *)
LEMMA ErrorStep ==
  ASSUME LeaseTypes, ErrorIsOfCurrentLease, [Next]_vars
  PROVE  ErrorIsOfCurrentLease'
<1>1. CASE StopLease \/ Close \/ InstallThread
  BY <1>1 DEF StopLease, Close, InstallThread, ErrorIsOfCurrentLease
<1>2. ASSUME NEW p \in Plans, RenewFail(p) PROVE ErrorIsOfCurrentLease'
  <2>1. current' = current /\ (error' = error \/ (error' = p /\ current = p))
    BY <1>2 DEF RenewFail, ErrorAfter
  <2> QED BY <2>1 DEF ErrorIsOfCurrentLease
<1>3. CASE UNCHANGED <<current, error>>
  BY <1>3 DEF ErrorIsOfCurrentLease
<1> QED
  BY <1>1, <1>2, <1>3
  DEF Next, Thread, vars, coordinatorVars, Tick, Publish, StartLease, RenewAdd, RenewSet,
      WakeUp, StopThread, CrashCoordinator, LookAtLease

-----------------------------------------------------------------------------
(* The invariant holds at first, and every step keeps it.                  *)
LEMMA LeaseInit == LeaseAssumption /\ Init => LeaseInv
<1> SUFFICES ASSUME LeaseAssumption, Init PROVE LeaseInv
  OBVIOUS
<1>1. TypeOK
  BY DEF LeaseAssumption, Init, TypeOK, NoThread, NoCall, NoRecord, NoLook, NotLive, Times,
     Seqs, Records
<1>2. ASSUME NEW p \in Plans PROVE PlanInv(p)
  BY DEF Init, PlanInv, Carries, Recorded, SettingRecord, NoThread, NoRecord
<1>3. LookInv /\ DeadlineIsKept /\ ErrorIsOfCurrentLease
  BY DEF Init, LookInv, DeadlineIsKept, ErrorIsOfCurrentLease, NoLook, NotLive
<1> QED BY <1>1, <1>2, <1>3 DEF LeaseInv

LEMMA LeaseStep == LeaseAssumption /\ LeaseInv /\ [Next]_vars => LeaseInv'
<1> SUFFICES ASSUME LeaseAssumption, LeaseInv, [Next]_vars PROVE LeaseInv'
  OBVIOUS
<1>1. LeaseTypes
  BY Types DEF LeaseInv
<1>2. TypeOK'
  BY TypeStep DEF LeaseInv
<1>3. \A p \in Plans : PlanInv(p)'
  BY <1>1, PlanStep DEF LeaseInv
<1>4. LookInv' /\ DeadlineIsKept'
  <2>1. LookAtLease \/ UNCHANGED agentVars
    BY DEF Next, Thread, vars, agentVars, Tick, Publish, StopLease, StartLease, InstallThread,
       RenewAdd, RenewSet, RenewFail, WakeUp, StopThread, Close, CrashCoordinator
  <2> QED BY <1>1, <2>1, NewLook, NoNewLook DEF LeaseInv
<1>5. ErrorIsOfCurrentLease'
  BY <1>1, ErrorStep DEF LeaseInv
<1>6. Plans' = Plans
  BY DEF Plans
<1> QED BY <1>2, <1>3, <1>4, <1>5, <1>6 DEF LeaseInv

(* The invariant holds in every reachable state.                           *)
THEOREM LeaseInvariant ==
  ASSUME LeaseAssumption
  PROVE  Spec => []LeaseInv
<1>1. Init => LeaseInv
  BY LeaseInit
<1>2. LeaseInv /\ [Next]_vars => LeaseInv'
  BY LeaseStep
<1> QED BY <1>1, <1>2, PTL DEF Spec

(***************************************************************************)
(* What an agent and a coordinator conclude from a lease is true:          *)
(* _plan_lease_is_live rests on a recent renewal, the deadline for the     *)
(* workers is the coordinator's, _lease_error is of the current lease, and *)
(* the sequence, at whose receding the agent raises, never recedes.        *)
(***************************************************************************)
THEOREM LeaseTellsTheTruthAlways ==
  ASSUME LeaseAssumption
  PROVE  Spec => []LeaseTellsTheTruth
<1>1. LeaseInv => LiveMeansRecentlyRenewed
  <2> SUFFICES ASSUME LeaseInv, answer.live
               PROVE  /\ answer.plan = seen.plan
                      /\ seen.record.written >= seen.since
                      /\ answer.at < seen.at + FreshFor
    BY DEF LiveMeansRecentlyRenewed
  <2>1. seen.record.written \in Nat /\ seen.since \in Nat
    BY Types DEF LeaseInv, LeaseTypes, LookType, Records, Times
  <2> QED BY <2>1 DEF LeaseInv, LookInv
<1>2. LeaseInv => DeadlineIsKept /\ ErrorIsOfCurrentLease
  BY DEF LeaseInv
<1>3. LeaseInv => SequenceMovesForward
  BY DEF LeaseInv, LookInv, SequenceMovesForward
<1>4. LeaseInv => LeaseTellsTheTruth
  BY <1>1, <1>2, <1>3 DEF LeaseTellsTheTruth
<1> QED BY <1>4, LeaseInvariant, PTL

-----------------------------------------------------------------------------
(* The other watcher: the hang daemons of the ranks (HangDetection), for   *)
(* any number of ranks, thresholds, steps and kinds of stages.  The        *)
(* invariant follows an occurrence of a stage from the tracker into the    *)
(* snapshots of two rounds: whom the first names was too long in it when   *)
(* the second reads it again.                                              *)

SampledStages == Hang!Kinds \cup {Hang!NoStage}

TrackerType ==
  [step : Nat, op : Nat, meta : Nat, stage : SampledStages, seq : Nat,
   elapsed : 0 .. MaxElapsed, doneStage : SampledStages, doneSeq : Nat,
   duration : 0 .. MaxElapsed, counts : [Hang!Kinds -> Nat]]

ProgressType == Int \X Int
DaemonType ==
  [pc : {"wait", "round", "dead", "failed", "closed"}, last : ProgressType, idle : Nat,
   snap : TrackerType]
EventType == [kind : SampledStages, seq : Nat, culprits : SUBSET Ranks]
MemoryType ==
  [stalled : Nat, reported : ProgressType, candidate : EventType, confirmations : Nat,
   reportedStage : EventType]

HangTypes ==
  /\ tracker \in [Ranks -> TrackerType]
  /\ at \in [Ranks -> {"run", "stage", "layer", "enter", "collective", "boundary",
                       "failed", "closed"}]
  /\ daemon \in [Ranks -> DaemonType]
  /\ memory \in MemoryType
  /\ spent \in [Ranks -> [0 .. MaxStep -> 0 .. MaxElapsed]]

(* The occurrences of a kind are numbered as they begin.                   *)
Numbered(t) ==
  /\ t.stage # Hang!NoStage => t.seq <= t.counts[t.stage]
  /\ t.doneStage # Hang!NoStage =>
       t.doneSeq <= t.counts[t.doneStage] /\ (t.stage = t.doneStage => t.doneSeq < t.seq)

(* The duration of a finished stage is time that the rank spent in one.    *)
DoneIsReal(r, t) ==
  t.doneStage # Hang!NoStage =>
    \E s \in 0 .. MaxStep : StageKind[s] = t.doneStage /\ spent[r][s] >= t.duration

(* What a tracker t shows since the snapshot s was taken of it.            *)
Since(s, t) ==
  /\ \A k \in Hang!Kinds : s.counts[k] <= t.counts[k]
  /\ s.stage # Hang!NoStage /\ t.stage = s.stage /\ t.seq = s.seq => s.elapsed = t.elapsed
  /\ s.doneStage # Hang!NoStage /\ t.stage = s.doneStage => s.doneSeq < t.seq

(* The clock of a stage runs while the rank is in it.                      *)
ClockRuns(r) ==
  /\ at[r] # "stage" => tracker[r].stage = Hang!NoStage
  /\ at[r] = "stage" =>
       /\ tracker[r].step <= MaxStep /\ tracker[r].stage = StageKind[tracker[r].step]
       /\ spent[r][tracker[r].step] = tracker[r].elapsed
  /\ \A s \in 0 .. MaxStep :
       s > tracker[r].step \/ (s = tracker[r].step /\ at[r] = "run") => spent[r][s] = 0

Tracked(r) == ClockRuns(r) /\ Numbered(tracker[r]) /\ DoneIsReal(r, tracker[r])

Snapped(d) ==
  daemon[d].pc = "round" =>
    /\ Numbered(daemon[d].snap) /\ DoneIsReal(d, daemon[d].snap)
    /\ Since(daemon[d].snap, tracker[d])

(* Rank r was too long in some stage of the kind.                          *)
Slow(r, kind) ==
  \E s \in 0 .. MaxStep : StageKind[s] = kind /\ spent[r][s] > StageThreshold[kind]

Shows(t, event) == t.stage = event.kind /\ t.seq = event.seq

(* A rank that a round named is still in that occurrence only if it was    *)
(* too long in it already.                                                 *)
Suspected(r, event) ==
  /\ event.seq <= tracker[r].counts[event.kind]
  /\ Shows(tracker[r], event) => Slow(r, event.kind)
  /\ daemon[r].pc = "round" /\ Shows(daemon[r].snap, event) => Slow(r, event.kind)

CandidateInv ==
  memory.candidate.culprits # {} =>
    /\ memory.candidate.kind \in Hang!Kinds
    /\ \A r \in memory.candidate.culprits : Suspected(r, memory.candidate)

HangInv ==
  /\ HangTypes
  /\ \A r \in Ranks : Tracked(r) /\ Snapped(r)
  /\ CandidateInv
  /\ Hang!StageCulpritIsSlow

-----------------------------------------------------------------------------
LEMMA Assumed ==
  ASSUME Hang!HangAssumption
  PROVE  /\ \E n \in Int : Ranks = 0 .. n
         /\ 0 \in Ranks
         /\ Stall \in Nat /\ Confirmations \in Nat /\ MaxElapsed \in Nat /\ MaxStep \in Nat
         /\ StageThreshold \in [Hang!Kinds -> Nat]
         /\ \A s \in 0 .. MaxStep : StageKind[s] \in Hang!Kinds
  BY DEF Hang!HangAssumption

(* A set of numbers that has a bound has a greatest element.               *)
LEMMA Longest ==
  ASSUME NEW n \in Nat, NEW S, S \subseteq 0 .. n, S # {}
  PROVE  \E x \in S : \A y \in S : y <= x
<1> DEFINE T == {n - x : x \in S}
<1>1. T \subseteq Nat /\ T # {}
  <2>1. \A x \in S : n - x \in Nat
    <3> TAKE x \in S
    <3>1. x \in Int /\ x <= n
      OBVIOUS
    <3> QED BY <3>1
  <2>2. PICK x \in S : TRUE
    OBVIOUS
  <2>3. n - x \in T
    OBVIOUS
  <2> QED BY <2>1, <2>3
<1>2. PICK k \in T : \A y \in T : ~ (<<y, k>> \in OpToRel(<, Nat))
  <2> HIDE DEF T
  <2> QED BY <1>1, NatLessThanWellFounded, WFMin
<1>3. k \in Nat /\ \A y \in T : ~ (y < k)
  BY <1>1, <1>2 DEF OpToRel
<1>4. PICK x \in S : k = n - x
  OBVIOUS
<1>5. ASSUME NEW y \in S PROVE y <= x
  <2>1. n - y \in T
    OBVIOUS
  <2> QED BY <2>1, <1>3, <1>4
<1> QED BY <1>4, <1>5

(* The first of the stages that are active the longest.                    *)
LEMMA LongestStageIsActive ==
  ASSUME Hang!HangAssumption, HangTypes, Hang!StageCandidates # {}
  PROVE  Hang!LongestStage \in Hang!StageCandidates
<1> DEFINE times == {Hang!Row(r).elapsed : r \in Hang!StageCandidates}
<1>1. times \subseteq 0 .. MaxElapsed /\ times # {}
  <2>1. \A r \in Hang!StageCandidates : Hang!Row(r).elapsed \in 0 .. MaxElapsed
    BY DEF Hang!StageCandidates, Hang!Row, HangTypes, DaemonType, TrackerType
  <2>2. PICK r \in Hang!StageCandidates : TRUE
    OBVIOUS
  <2>3. Hang!Row(r).elapsed \in times
    OBVIOUS
  <2> QED BY <2>1, <2>3
<1>2. PICK t \in times : \A u \in times : u <= t
  <2> HIDE DEF times
  <2> QED BY <1>1, Assumed, Longest
<1> DEFINE longest == {r \in Hang!StageCandidates : Hang!Row(r).elapsed = t}
<1>3. PICK n \in Int : Ranks = 0 .. n
  BY Assumed
<1>4. n \in Nat /\ longest \subseteq 0 .. n /\ longest # {}
  BY <1>3 DEF Hang!StageCandidates
<1>5. PICK r \in longest : \A q \in longest : q <= r
  <2> HIDE DEF longest
  <2> QED BY <1>4, Longest
<1>6. /\ r \in Hang!StageCandidates
      /\ \A q \in Hang!StageCandidates :
           \/ Hang!Row(q).elapsed < Hang!Row(r).elapsed
           \/ Hang!Row(q).elapsed = Hang!Row(r).elapsed /\ q <= r
  <2> SUFFICES ASSUME NEW q \in Hang!StageCandidates
               PROVE  \/ Hang!Row(q).elapsed < Hang!Row(r).elapsed
                      \/ Hang!Row(q).elapsed = Hang!Row(r).elapsed /\ q <= r
    OBVIOUS
  <2>1. Hang!Row(q).elapsed \in times /\ Hang!Row(q).elapsed \in Int /\ t \in Int
    BY <1>1
  <2>2. Hang!Row(r).elapsed = t
    OBVIOUS
  <2>3. CASE Hang!Row(q).elapsed = t
    BY <2>2, <2>3, <1>5
  <2> QED BY <2>1, <2>2, <2>3, <1>2
<1> QED BY <1>6 DEF Hang!LongestStage

(* A rank named by a round was too long in the occurrence it shows.        *)
LEMMA Verdict ==
  ASSUME Hang!HangAssumption, HangTypes, Hang!StageVerdict.culprits # {}
  PROVE  /\ Hang!StageVerdict \in EventType /\ Hang!StageVerdict.kind \in Hang!Kinds
         /\ \A r \in Hang!StageVerdict.culprits :
              /\ r \in Ranks
              /\ Hang!MatchingDuration(r, Hang!StageVerdict.kind, Hang!StageVerdict.seq)
                   > StageThreshold[Hang!StageVerdict.kind]
<1>1. Hang!StageCandidates # {}
  BY DEF Hang!StageVerdict, Hang!NoStageEvent
<1> DEFINE longest == Hang!Row(Hang!LongestStage)
           value == [r \in Ranks |-> Hang!MatchingDuration(r, longest.stage, longest.seq)]
           flagged == Hang!ClassifyStatistical(value, Hang!Sigma).bitmap
<1>2. /\ Hang!StageVerdict.kind = longest.stage /\ Hang!StageVerdict.seq = longest.seq
      /\ Hang!StageVerdict.culprits =
           {r \in flagged : /\ value[r] > StageThreshold[longest.stage]
                            /\ 2 * value[r] > Ratio * Hang!TwoMedian(value)}
      /\ Hang!StageVerdict = [kind |-> longest.stage, seq |-> longest.seq,
                         culprits |-> Hang!StageVerdict.culprits]
  BY <1>1 DEF Hang!StageVerdict
<1>3. flagged \subseteq Ranks
  BY DEF Hang!ClassifyStatistical
<1>4. longest.stage \in Hang!Kinds /\ longest.seq \in Nat
  BY <1>1, LongestStageIsActive
     DEF Hang!StageCandidates, Hang!Row, HangTypes, DaemonType, TrackerType, SampledStages,
         Hang!NoStage
<1> HIDE DEF longest, flagged
<1> QED BY <1>2, <1>3, <1>4 DEF EventType, SampledStages

-----------------------------------------------------------------------------
(* u is what a tracker may hold next when it holds t.                      *)
Follows(t, u) ==
  /\ \A k \in Hang!Kinds : t.counts[k] <= u.counts[k]
  /\ u.stage # Hang!NoStage =>
       \/ u.stage = t.stage /\ u.seq = t.seq /\ u.elapsed = t.elapsed
       \/ u.seq > t.counts[u.stage]

LEMMA SinceStays ==
  ASSUME NEW s \in TrackerType, NEW t \in TrackerType, NEW u \in TrackerType,
         Since(s, t), Numbered(s), Follows(t, u)
  PROVE  Since(s, u)
<1>1. ASSUME NEW k \in Hang!Kinds
      PROVE  s.counts[k] \in Nat /\ t.counts[k] \in Nat /\ u.counts[k] \in Nat
             /\ s.counts[k] <= t.counts[k] /\ t.counts[k] <= u.counts[k]
  BY <1>1 DEF TrackerType, Since, Follows
<1>2. s.seq \in Nat /\ u.seq \in Nat /\ s.doneSeq \in Nat
      /\ {s.stage, u.stage, s.doneStage} \subseteq Hang!Kinds \cup {Hang!NoStage}
  BY DEF TrackerType, SampledStages
<1>3. CASE u.stage # Hang!NoStage /\ u.seq > t.counts[u.stage]
  BY <1>1, <1>2, <1>3 DEF Since, Numbered
<1>4. CASE u.stage # Hang!NoStage /\ u.stage = t.stage /\ u.seq = t.seq /\ u.elapsed = t.elapsed
  BY <1>1, <1>2, <1>4 DEF Since
<1>5. CASE u.stage = Hang!NoStage
  BY <1>1, <1>2, <1>5 DEF Since
<1> QED BY <1>3, <1>4, <1>5 DEF Follows

LEMMA SinceStart ==
  ASSUME NEW t \in TrackerType, Numbered(t)
  PROVE  Since(t, t)
  BY DEF Since, Numbered, TrackerType

LEMMA FreshTracker == ASSUME Hang!HangAssumption PROVE Hang!NewTracker \in TrackerType
  BY Assumed DEF Hang!NewTracker, TrackerType, SampledStages, Hang!NoFingerprint

LEMMA GoneType ==
  ASSUME Hang!HangAssumption, NEW pc \in {"dead", "failed", "closed"}
  PROVE  Hang!GoneDaemon(pc) \in DaemonType /\ Hang!GoneDaemon(pc).pc = pc
  BY FreshTracker DEF Hang!GoneDaemon, Hang!NewDaemon, DaemonType, ProgressType

LEMMA NoEvent == Hang!NoStageEvent \in EventType /\ Hang!NoStageEvent.culprits = {}
  BY DEF Hang!NoStageEvent, EventType, SampledStages

LEMMA Forgets ==
  Hang!NewMemory \in MemoryType /\ Hang!NewMemory.candidate = Hang!NoStageEvent
  BY NoEvent DEF Hang!NewMemory, MemoryType, ProgressType, Hang!NoProgress

-----------------------------------------------------------------------------
(* What an action does that reads no clock and ends no round.              *)
FollowsOn(q) ==
  /\ Follows(tracker[q], tracker'[q])
  /\ Tracked(q)'
  /\ daemon'[q].pc = "round" =>
       \/ daemon'[q].snap = tracker'[q]
       \/ daemon[q].pc = "round" /\ daemon'[q].snap = daemon[q].snap

CandidateStays == memory'.candidate \in {memory.candidate, Hang!NoStageEvent}

LEMMA SnappedStays ==
  ASSUME HangTypes, HangTypes', spent' = spent, NEW q \in Ranks, Snapped(q), FollowsOn(q)
  PROVE  Snapped(q)'
<1> SUFFICES ASSUME daemon'[q].pc = "round"
             PROVE  /\ Numbered(daemon'[q].snap) /\ DoneIsReal(q, daemon[q].snap)'
                    /\ Since(daemon'[q].snap, tracker'[q])
  BY DEF Snapped
<1>1. /\ tracker[q] \in TrackerType /\ tracker'[q] \in TrackerType
      /\ daemon[q].snap \in TrackerType /\ daemon'[q].snap \in TrackerType
  BY DEF HangTypes, DaemonType
<1>2. CASE daemon'[q].snap = tracker'[q]
  BY <1>1, <1>2, SinceStart DEF FollowsOn, Tracked, DoneIsReal
<1>3. CASE daemon[q].pc = "round" /\ daemon'[q].snap = daemon[q].snap
  <2>1. /\ Numbered(daemon[q].snap) /\ DoneIsReal(q, daemon[q].snap)
        /\ Since(daemon[q].snap, tracker[q])
    BY <1>3 DEF Snapped
  <2>2. Since(daemon[q].snap, tracker'[q])
    BY <1>1, <2>1, SinceStays DEF FollowsOn
  <2>3. DoneIsReal(q, daemon[q].snap)'
    BY <1>3, <2>1 DEF DoneIsReal
  <2> QED BY <1>3, <2>1, <2>2, <2>3
<1> QED BY <1>2, <1>3 DEF FollowsOn

LEMMA SuspectedStays ==
  ASSUME HangTypes, HangTypes', spent' = spent, NEW q \in Ranks, FollowsOn(q),
         NEW event \in EventType, event.kind \in Hang!Kinds, Suspected(q, event)
  PROVE  /\ event.seq <= tracker'[q].counts[event.kind]
         /\ Shows(tracker'[q], event) => Slow(q, event.kind)'
         /\ daemon'[q].pc = "round" /\ Shows(daemon'[q].snap, event) =>
              Slow(q, event.kind)'
<1>1. /\ tracker[q].counts[event.kind] \in Nat /\ tracker'[q].counts[event.kind] \in Nat
      /\ event.seq \in Nat /\ tracker'[q].seq \in Nat /\ event.kind # Hang!NoStage
  <2>1. tracker[q] \in TrackerType /\ tracker'[q] \in TrackerType
    BY DEF HangTypes
  <2> QED BY <2>1 DEF TrackerType, EventType, Hang!Kinds, Hang!NoStage
<1>2. event.seq <= tracker[q].counts[event.kind]
      /\ tracker[q].counts[event.kind] <= tracker'[q].counts[event.kind]
  BY DEF Suspected, FollowsOn, Follows
<1>3. Slow(q, event.kind) => Slow(q, event.kind)'
  BY DEF Slow
<1>4. ASSUME Shows(tracker'[q], event)
      PROVE  Slow(q, event.kind)'
  <2>1. Shows(tracker[q], event)
    BY <1>1, <1>2, <1>4 DEF Shows, FollowsOn, Follows
  <2> QED BY <2>1, <1>3 DEF Suspected
<1>5. ASSUME daemon'[q].pc = "round", Shows(daemon'[q].snap, event)
      PROVE  Slow(q, event.kind)'
  BY <1>3, <1>4, <1>5 DEF Suspected, FollowsOn
<1> QED BY <1>1, <1>2, <1>4, <1>5

LEMMA Keeps ==
  ASSUME HangInv, HangTypes', spent' = spent, \A q \in Ranks : FollowsOn(q),
         CandidateStays, report'.stage.culprits = {}
  PROVE  HangInv'
<1>1. \A q \in Ranks : Tracked(q)' /\ Snapped(q)'
  BY SnappedStays DEF HangInv, FollowsOn
<1>2. CandidateInv'
  <2> SUFFICES ASSUME memory'.candidate.culprits # {}
               PROVE  /\ memory'.candidate.kind \in Hang!Kinds
                      /\ \A r \in memory'.candidate.culprits :
                           Suspected(r, memory.candidate)'
    BY DEF CandidateInv
  <2>0. PICK event \in EventType : event = memory.candidate
    BY DEF HangInv, HangTypes, MemoryType
  <2>1. memory'.candidate = event
    BY <2>0, NoEvent DEF CandidateStays
  <2>2. event \in EventType /\ event.kind \in Hang!Kinds /\ event.culprits \subseteq Ranks
    BY <2>0, <2>1 DEF HangInv, CandidateInv, EventType
  <2>3. ASSUME NEW r \in event.culprits
        PROVE  Suspected(r, memory.candidate)'
    <3>1. r \in Ranks /\ Suspected(r, event)
      BY <2>0, <2>1, <2>2, <2>3 DEF HangInv, CandidateInv
    <3>2. /\ event.seq <= tracker'[r].counts[event.kind]
          /\ Shows(tracker'[r], event) => Slow(r, event.kind)'
          /\ daemon'[r].pc = "round" /\ Shows(daemon'[r].snap, event) =>
               Slow(r, event.kind)'
      BY <2>2, <3>1, SuspectedStays DEF HangInv
    <3> QED BY <3>2, <2>0, <2>1 DEF Suspected, Slow, Shows
  <2> QED BY <2>0, <2>1, <2>2, <2>3
<1>3. Hang!StageCulpritIsSlow'
  BY DEF Hang!StageCulpritIsSlow
<1> QED BY <1>1, <1>2, <1>3 DEF HangInv

-----------------------------------------------------------------------------
(* What an action does to the daemon of one rank.                          *)
OneDaemon(d) ==
  /\ daemon' \in [Ranks -> DaemonType] /\ memory' \in MemoryType /\ CandidateStays
  /\ \A q \in Ranks \ {d} : daemon'[q] = daemon[q]

LEMMA MemoryLost ==
  ASSUME HangTypes, NEW ds, memory' = Hang!MemoryWithout(ds)
  PROVE  memory' \in MemoryType /\ CandidateStays
  BY Forgets DEF Hang!MemoryWithout, HangTypes, CandidateStays

LEMMA EnterRoundStep ==
  ASSUME Hang!HangAssumption, HangTypes, NEW d \in Ranks, NEW t \in TrackerType,
         Hang!EnterRound(d, t)
  PROVE  OneDaemon(d) /\ (daemon'[d].pc = "round" => daemon'[d].snap = t)
<1>1. CASE Hang!Gone # {}
  <2>1. /\ daemon' = [daemon EXCEPT ![d] = Hang!GoneDaemon("dead")]
        /\ memory' = Hang!MemoryWithout({d})
    BY <1>1 DEF Hang!EnterRound
  <2> QED BY <2>1, GoneType, MemoryLost DEF OneDaemon, HangTypes
<1>2. CASE Hang!Gone = {}
  <2> DEFINE x == [daemon[d] EXCEPT !.pc = "round", !.snap = t]
  <2>1. daemon[d] \in DaemonType /\ memory \in MemoryType
    BY DEF HangTypes
  <2>2. x \in DaemonType /\ x.snap = t
    BY <2>1 DEF DaemonType
  <2>3. daemon' = [daemon EXCEPT ![d] = x]
    BY <1>2 DEF Hang!EnterRound, HangTypes
  <2>4. memory' \in MemoryType /\ memory'.candidate = memory.candidate
    <3>1. CASE memory' = memory
      BY <2>1, <3>1
    <3>2. ASSUME NEW n \in Nat, memory' = [memory EXCEPT !.stalled = n]
          PROVE  memory' \in MemoryType /\ memory'.candidate = memory.candidate
      BY <2>1, <3>2 DEF MemoryType
    <3>3. daemon[d].idle \in Nat
      BY <2>1 DEF DaemonType
    <3> QED BY <1>2, <3>1, <3>2, <3>3 DEF Hang!EnterRound
  <2> HIDE DEF x
  <2> QED BY <2>2, <2>3, <2>4 DEF OneDaemon, HangTypes, CandidateStays
<1> QED BY <1>1, <1>2

LEMMA PublishStep ==
  ASSUME Hang!HangAssumption, HangTypes, NEW r \in Ranks, NEW t \in TrackerType,
         Hang!Publish(r, t)
  PROVE  /\ OneDaemon(r) /\ tracker' = [tracker EXCEPT ![r] = t] /\ spent' = spent
         /\ daemon'[r].pc = "round" =>
              daemon'[r].snap = t \/ (daemon[r].pc = "round" /\ daemon'[r] = daemon[r])
         /\ report'.stage.culprits = {}
<1>1. tracker' = [tracker EXCEPT ![r] = t] /\ spent' = spent /\ report' = Hang!NoReport
  BY DEF Hang!Publish
<1>2. report'.stage.culprits = {}
  BY <1>1, NoEvent DEF Hang!NoReport
<1>3. CASE daemon[r].pc = "wait" /\ daemon' = [daemon EXCEPT ![r] = Hang!Observe(r, t)]
           /\ memory' = Hang!Forget(r, t)
  <2>1. Hang!Progress(t) \in ProgressType /\ Hang!NoProgress \in ProgressType
    BY DEF Hang!Progress, ProgressType, TrackerType, Hang!NoProgress
  <2>2. daemon[r] \in DaemonType /\ memory \in MemoryType
    BY DEF HangTypes
  <2>3. Hang!Observe(r, t) \in DaemonType /\ Hang!Observe(r, t).pc = "wait"
    BY <1>3, <2>1, <2>2 DEF Hang!Observe, DaemonType
  <2>4. memory' \in MemoryType /\ memory'.candidate = memory.candidate
    BY <1>3, <2>1, <2>2 DEF Hang!Forget, MemoryType
  <2> QED BY <1>1, <1>2, <1>3, <2>3, <2>4 DEF OneDaemon, HangTypes, CandidateStays
<1>4. CASE Hang!EnterRound(r, t)
  BY <1>1, <1>2, <1>4, EnterRoundStep
<1>5. CASE UNCHANGED <<daemon, memory>>
  BY <1>1, <1>2, <1>5 DEF OneDaemon, HangTypes, CandidateStays
<1> QED BY <1>3, <1>4, <1>5 DEF Hang!Publish

WatchPlaces == {"run", "stage", "layer", "enter", "collective", "boundary", "failed", "closed"}

LEMMA TrainedStep ==
  ASSUME Hang!HangAssumption, HangInv, NEW r \in Ranks, NEW t \in TrackerType, Hang!Publish(r, t),
         NEW place \in WatchPlaces, at' = [at EXCEPT ![r] = place],
         Follows(tracker[r], t), Numbered(t), DoneIsReal(r, t), ClockRuns(r)'
  PROVE  HangInv'
<1>1. /\ OneDaemon(r) /\ tracker' = [tracker EXCEPT ![r] = t] /\ spent' = spent
      /\ daemon'[r].pc = "round" =>
           daemon'[r].snap = t \/ (daemon[r].pc = "round" /\ daemon'[r] = daemon[r])
      /\ report'.stage.culprits = {}
  BY PublishStep DEF HangInv
<1>2. HangTypes'
  BY <1>1 DEF HangInv, HangTypes, OneDaemon, WatchPlaces
<1>3. tracker'[r] = t
  BY <1>1 DEF HangInv, HangTypes
<1>4. FollowsOn(r)
  <2>1. DoneIsReal(r, tracker[r])'
    BY <1>1, <1>3 DEF DoneIsReal
  <2> QED BY <1>1, <1>3, <2>1 DEF FollowsOn, Tracked
<1>5. ASSUME NEW q \in Ranks \ {r} PROVE FollowsOn(q)
  <2>1. tracker'[q] = tracker[q] /\ at'[q] = at[q] /\ daemon'[q] = daemon[q]
    BY <1>1 DEF HangInv, HangTypes, OneDaemon
  <2>2. Tracked(q)'
    BY <1>1, <2>1 DEF HangInv, Tracked, ClockRuns, DoneIsReal
  <2>3. \A k \in Hang!Kinds : tracker[q].counts[k] \in Nat
    BY DEF HangInv, HangTypes, TrackerType
  <2> QED BY <2>1, <2>2, <2>3 DEF FollowsOn, Follows
<1> QED BY <1>1, <1>2, <1>4, <1>5, Keeps DEF OneDaemon

-----------------------------------------------------------------------------
(* What each step of training publishes.                                   *)
LEMMA StageTypes ==
  ASSUME Hang!HangAssumption, NEW t \in TrackerType
  PROVE  /\ \A kind \in Hang!Kinds : Hang!StageStarted(t, kind) \in TrackerType
         /\ Hang!StageFinished(t) \in TrackerType
<1>1. /\ t.step \in Nat /\ t.op + 1 \in Nat /\ t.seq \in Nat
      /\ t.stage \in SampledStages /\ t.doneStage \in SampledStages /\ t.doneSeq \in Nat
      /\ t.elapsed \in 0 .. MaxElapsed /\ t.duration \in 0 .. MaxElapsed
      /\ t.counts \in [Hang!Kinds -> Nat]
  BY DEF TrackerType
<1>2. /\ 0 \in 0 .. MaxElapsed /\ Hang!NoFingerprint \in Nat
      /\ Hang!NoStage \in SampledStages /\ t.meta \in Nat
  BY Assumed DEF Hang!NoFingerprint, SampledStages, TrackerType
<1>3. ASSUME NEW stage \in SampledStages, NEW seq \in Nat, NEW op \in Nat,
             NEW elapsed \in 0 .. MaxElapsed
      PROVE  [t EXCEPT !.doneStage = stage, !.doneSeq = seq, !.duration = elapsed,
                       !.stage = Hang!NoStage, !.seq = 0, !.elapsed = 0, !.op = op]
               \in TrackerType
  BY <1>2, ZenonT(30), SMTT(60) DEF TrackerType
<1>4. ASSUME NEW kind \in Hang!Kinds PROVE Hang!StageStarted(t, kind) \in TrackerType
  <2> DEFINE counts == [t.counts EXCEPT ![kind] = @ + 1]
             seq == t.counts[kind] + 1
             op == t.op + 1
  <2>1. counts \in [Hang!Kinds -> Nat] /\ seq \in Nat /\ op \in Nat /\ kind \in SampledStages
    BY <1>1 DEF SampledStages
  <2>2. Hang!StageStarted(t, kind) =
          [t EXCEPT !.stage = kind, !.seq = seq, !.elapsed = 0, !.counts = counts,
                    !.meta = Hang!NoFingerprint, !.op = op]
    BY DEF Hang!StageStarted, TrackerType
  <2> HIDE DEF counts, seq, op
  <2> QED BY <1>2, <2>1, <2>2 DEF TrackerType
<1>5. Hang!StageFinished(t) \in TrackerType
  <2> DEFINE op == t.op + 1
             stage == t.stage
             seq == t.seq
             elapsed == t.elapsed
  <2>1. Hang!StageFinished(t) =
        [t EXCEPT !.doneStage = stage, !.doneSeq = seq, !.duration = elapsed,
                  !.stage = Hang!NoStage, !.seq = 0, !.elapsed = 0, !.op = op]
    BY DEF Hang!StageFinished, TrackerType
  <2>2. op \in Nat /\ stage \in SampledStages /\ seq \in Nat /\ elapsed \in 0 .. MaxElapsed
    BY <1>1
  <2> HIDE DEF op, stage, seq, elapsed
  <2>3. [t EXCEPT !.doneStage = stage, !.doneSeq = seq, !.duration = elapsed,
                  !.stage = Hang!NoStage, !.seq = 0, !.elapsed = 0, !.op = op] \in TrackerType
    BY <1>3, <2>2, Zenon
  <2> QED BY <2>1, <2>3, Zenon
<1> QED BY <1>4, <1>5

LEMMA BeginStageStep ==
  ASSUME Hang!HangAssumption, HangInv, NEW r \in Ranks, Hang!BeginStage(r)
  PROVE  HangInv'
<1> DEFINE t == tracker[r]
           kind == StageKind[t.step]
           u == Hang!StageStarted(t, kind)
<1>1. at[r] = "run" /\ at' = [at EXCEPT ![r] = "stage"] /\ Hang!Publish(r, u) /\ t.step <= MaxStep
  BY DEF Hang!BeginStage
<1>2. t \in TrackerType /\ t.step \in 0 .. MaxStep /\ kind \in Hang!Kinds /\ kind # Hang!NoStage
  <2>1. t \in TrackerType
    BY DEF HangInv, HangTypes
  <2>2. t.step \in Nat
    BY <2>1 DEF TrackerType
  <2>3. t.step \in 0 .. MaxStep
    BY <1>1, <2>2, Assumed
  <2>4. kind \in Hang!Kinds
    BY <2>3, Assumed
  <2> QED BY <2>1, <2>3, <2>4 DEF Hang!Kinds, Hang!NoStage
<1>3. \A k \in Hang!Kinds : t.counts[k] \in Nat
  BY <1>2 DEF TrackerType
<1> HIDE DEF t, kind
<1>4. /\ u.step = t.step /\ u.op = t.op + 1 /\ u.meta = Hang!NoFingerprint /\ u.stage = kind
      /\ u.seq = t.counts[kind] + 1 /\ u.elapsed = 0 /\ u.doneStage = t.doneStage
      /\ u.doneSeq = t.doneSeq /\ u.duration = t.duration
      /\ u.counts = [t.counts EXCEPT ![kind] = @ + 1]
  BY <1>2 DEF Hang!StageStarted, TrackerType
<1>5. u \in TrackerType
  BY <1>2, StageTypes
<1>6. /\ u.counts[kind] = t.counts[kind] + 1
      /\ \A k \in Hang!Kinds : k # kind => u.counts[k] = t.counts[k]
  BY <1>2, <1>4 DEF TrackerType
<1>7. Numbered(t) /\ DoneIsReal(r, t) /\ ClockRuns(r)
  BY DEF HangInv, Tracked, t
<1>8. Follows(t, u)
  BY <1>2, <1>3, <1>4, <1>6 DEF Follows
<1>9. Numbered(u)
  <2>1. t.doneSeq \in Nat /\ t.doneStage \in Hang!Kinds \cup {Hang!NoStage}
    BY <1>2 DEF TrackerType, SampledStages
  <2> QED BY <1>2, <1>3, <1>4, <1>6, <1>7, <2>1 DEF Numbered
<1>10. DoneIsReal(r, u)
  BY <1>4, <1>7 DEF DoneIsReal
<1>11. ClockRuns(r)'
  <2>1. spent[r][t.step] = 0
    BY <1>1, <1>2, <1>7 DEF ClockRuns, t
  <2>2. tracker' = [tracker EXCEPT ![r] = u] /\ spent' = spent
    BY <1>1, <1>5, PublishStep DEF HangInv
  <2>3. tracker'[r] = u /\ at'[r] = "stage"
    BY <1>1, <2>2 DEF HangInv, HangTypes
  <2>4. \A s \in 0 .. MaxStep : s > t.step => spent[r][s] = 0
    BY <1>7 DEF ClockRuns, t
  <2>5. kind = StageKind[t.step]
    BY DEF kind
  <2> HIDE DEF u
  <2> QED BY <1>1, <1>4, <2>1, <2>2, <2>3, <2>4, <2>5 DEF ClockRuns
<1> HIDE DEF u
<1> QED BY <1>1, <1>5, <1>8, <1>9, <1>10, <1>11, TrainedStep DEF WatchPlaces, t

LEMMA EndStageStep ==
  ASSUME Hang!HangAssumption, HangInv, NEW r \in Ranks, Hang!EndStage(r)
  PROVE  HangInv'
<1> DEFINE t == tracker[r]
           u == Hang!StageFinished(t)
<1>1. at[r] = "stage" /\ at' = [at EXCEPT ![r] = "layer"] /\ Hang!Publish(r, u)
  BY DEF Hang!EndStage
<1>2. t \in TrackerType
  BY DEF HangInv, HangTypes
<1>3. \A k \in Hang!Kinds : t.counts[k] \in Nat
  BY <1>2 DEF TrackerType
<1>4. Numbered(t) /\ DoneIsReal(r, t) /\ ClockRuns(r)
  BY DEF HangInv, Tracked
<1>5. /\ t.step \in 0 .. MaxStep /\ t.stage = StageKind[t.step] /\ t.stage \in Hang!Kinds
      /\ spent[r][t.step] = t.elapsed
  BY <1>1, <1>2, <1>4, Assumed DEF ClockRuns, TrackerType
<1> HIDE DEF t
<1>6. u \in TrackerType
  BY <1>2, StageTypes
<1>7. /\ u.step = t.step /\ u.stage = Hang!NoStage /\ u.doneStage = t.stage /\ u.doneSeq = t.seq
      /\ u.duration = t.elapsed /\ u.counts = t.counts
  BY <1>2 DEF Hang!StageFinished, TrackerType
<1> HIDE DEF u
<1>8. Follows(t, u)
  BY <1>3, <1>7 DEF Follows
<1>9. Numbered(u)
  BY <1>4, <1>5, <1>7 DEF Numbered, Hang!Kinds, Hang!NoStage
<1>10. DoneIsReal(r, u)
  BY <1>2, <1>5, <1>7 DEF DoneIsReal, TrackerType
<1>11. ClockRuns(r)'
  <2>1. tracker' = [tracker EXCEPT ![r] = u] /\ spent' = spent
    BY <1>1, <1>6, PublishStep DEF HangInv
  <2>2. tracker'[r] = u /\ at'[r] = "layer"
    BY <1>1, <2>1 DEF HangInv, HangTypes
  <2>3. \A s \in 0 .. MaxStep : s > t.step => spent[r][s] = 0
    BY <1>4 DEF ClockRuns, t
  <2> QED BY <1>7, <2>1, <2>2, <2>3 DEF ClockRuns
<1> QED BY <1>1, <1>6, <1>8, <1>9, <1>10, <1>11, TrainedStep DEF WatchPlaces, t

(* Outside a stage the tracker changes its progress only.                  *)
SameStages(t, u) ==
  /\ u.stage = t.stage /\ u.seq = t.seq /\ u.elapsed = t.elapsed
  /\ u.doneStage = t.doneStage /\ u.doneSeq = t.doneSeq /\ u.duration = t.duration
  /\ u.counts = t.counts

LEMMA QuietStep ==
  ASSUME Hang!HangAssumption, HangInv, NEW r \in Ranks, NEW place \in WatchPlaces,
         at[r] # "stage", place # "stage", at' = [at EXCEPT ![r] = place],
         NEW u \in TrackerType, Hang!Publish(r, u), SameStages(tracker[r], u),
         u.step >= tracker[r].step, place = "run" => u.step > tracker[r].step
  PROVE  HangInv'
<1> DEFINE t == tracker[r]
           step == u.step
<1>1. t \in TrackerType
  BY DEF HangInv, HangTypes
<1>2. Numbered(t) /\ DoneIsReal(r, t) /\ ClockRuns(r)
  BY DEF HangInv, Tracked
<1>3. u \in TrackerType
  OBVIOUS
<1>4. /\ u.stage = t.stage /\ u.seq = t.seq /\ u.elapsed = t.elapsed
      /\ u.doneStage = t.doneStage /\ u.doneSeq = t.doneSeq /\ u.duration = t.duration
      /\ u.counts = t.counts
  BY DEF SameStages
<1>5. Hang!Publish(r, u)
  OBVIOUS
<1>6. t.step \in Nat /\ step \in Nat /\ \A k \in Hang!Kinds : t.counts[k] \in Nat
  BY <1>1 DEF TrackerType
<1>7. step >= t.step /\ (place = "run" => step > t.step)
  OBVIOUS
<1>8. Follows(t, u) /\ Numbered(u) /\ DoneIsReal(r, u)
  BY <1>2, <1>4, <1>6 DEF Follows, Numbered, DoneIsReal
<1>9. ClockRuns(r)'
  <2>1. tracker' = [tracker EXCEPT ![r] = u] /\ spent' = spent
    BY <1>5, <1>3, PublishStep DEF HangInv
  <2>2. tracker'[r] = u /\ at'[r] = place
    BY <2>1 DEF HangInv, HangTypes
  <2>3. t.stage = Hang!NoStage /\ \A s \in 0 .. MaxStep : s > t.step => spent[r][s] = 0
    BY <1>2 DEF ClockRuns
  <2>4. ASSUME NEW s \in 0 .. MaxStep,
               s > step \/ (s = step /\ place = "run")
        PROVE  spent[r][s] = 0
    <3>1. s > t.step
      BY <1>6, <1>7, <2>4
    <3> QED BY <3>1, <2>3
  <2> QED BY <1>4, <2>1, <2>2, <2>3, <2>4 DEF ClockRuns
<1> QED BY <1>3, <1>5, <1>8, <1>9, TrainedStep

LEMMA ProgressOnly ==
  ASSUME NEW t \in TrackerType, NEW meta \in Nat
  PROVE  /\ Hang!Advance(t, meta) \in TrackerType /\ Hang!StepBoundary(t) \in TrackerType
         /\ SameStages(t, Hang!Advance(t, meta)) /\ SameStages(t, Hang!StepBoundary(t))
         /\ t.step \in Nat /\ Hang!Advance(t, meta).step = t.step
         /\ Hang!StepBoundary(t).step = t.step + 1
<1>1. /\ t.step \in Nat /\ t.step + 1 \in Nat /\ t.op + 1 \in Nat
      /\ 0 \in Nat /\ Hang!NoFingerprint \in Nat
  BY DEF TrackerType, Hang!NoFingerprint
<1>2. ASSUME NEW step \in Nat, NEW op \in Nat, NEW m \in Nat
      PROVE  [t EXCEPT !.step = step, !.op = op, !.meta = m] \in TrackerType
  BY DEF TrackerType
<1>3. Hang!Advance(t, meta) \in TrackerType
  <2>1. PICK op \in Nat : op = t.op + 1
    BY <1>1
  <2>2. Hang!Advance(t, meta) = [t EXCEPT !.op = op, !.meta = meta]
    BY <2>1 DEF Hang!Advance, TrackerType
  <2> QED BY <2>2 DEF TrackerType
<1>4. Hang!StepBoundary(t) \in TrackerType
  <2>1. PICK step \in Nat : step = t.step + 1
    BY <1>1
  <2>2. PICK none \in Nat, first \in Nat : none = Hang!NoFingerprint /\ first = 0
    BY <1>1
  <2>3. Hang!StepBoundary(t) = [t EXCEPT !.step = step, !.op = first, !.meta = none]
    BY <2>1, <2>2 DEF Hang!StepBoundary, TrackerType
  <2>4. [t EXCEPT !.step = step, !.op = first, !.meta = none] \in TrackerType
    BY <1>2
  <2> QED BY <2>3, <2>4
<1>5. SameStages(t, Hang!Advance(t, meta)) /\ Hang!Advance(t, meta).step = t.step
  BY DEF Hang!Advance, TrackerType, SameStages
<1>6. SameStages(t, Hang!StepBoundary(t)) /\ Hang!StepBoundary(t).step = t.step + 1
  BY DEF Hang!StepBoundary, TrackerType, SameStages
<1> QED BY <1>1, <1>3, <1>4, <1>5, <1>6

LEMMA AdvanceStep ==
  ASSUME Hang!HangAssumption, HangInv, NEW r \in Ranks,
         NEW place \in WatchPlaces \ {"run", "stage"},
         at[r] # "stage", at' = [at EXCEPT ![r] = place], NEW meta \in Nat,
         Hang!Publish(r, Hang!Advance(tracker[r], meta))
  PROVE  HangInv'
<1>1. tracker[r] \in TrackerType
  BY DEF HangInv, HangTypes
<1>2. PICK u \in TrackerType : u = Hang!Advance(tracker[r], meta)
  BY <1>1, ProgressOnly
<1>3. Hang!Publish(r, u) /\ SameStages(tracker[r], u) /\ u.step >= tracker[r].step
  BY <1>1, <1>2, ProgressOnly
<1>4. place \in WatchPlaces /\ place # "stage" /\ place # "run"
  OBVIOUS
<1> QED BY <1>3, <1>4, QuietStep

LEMMA StepDoneStep ==
  ASSUME Hang!HangAssumption, HangInv, NEW r \in Ranks, Hang!StepDone(r)
  PROVE  HangInv'
<1>1. tracker[r] \in TrackerType
  BY DEF HangInv, HangTypes
<1>2. PICK u \in TrackerType : u = Hang!StepBoundary(tracker[r])
  BY <1>1, ProgressOnly
<1>3. Hang!Publish(r, u) /\ SameStages(tracker[r], u) /\ u.step > tracker[r].step
      /\ u.step >= tracker[r].step
  BY <1>1, <1>2, ProgressOnly DEF Hang!StepDone
<1>4. /\ "run" \in WatchPlaces /\ "run" # "stage" /\ at[r] # "stage"
      /\ at' = [at EXCEPT ![r] = "run"]
  BY DEF Hang!StepDone, WatchPlaces
<1> QED BY <1>3, <1>4, QuietStep

LEMMA LayerBoundaryStep ==
  ASSUME Hang!HangAssumption, HangInv, NEW r \in Ranks, Hang!LayerBoundary(r)
  PROVE  HangInv'
  BY AdvanceStep DEF Hang!LayerBoundary, WatchPlaces, Hang!NoFingerprint

LEMMA EnterCollectiveStep ==
  ASSUME Hang!HangAssumption, HangInv, NEW r \in Ranks, Hang!EnterCollective(r)
  PROVE  HangInv'
<1>1. PICK fingerprint \in {Hang!GoodFingerprint, Hang!OddFingerprint} :
        Hang!Publish(r, Hang!Advance(tracker[r], fingerprint))
  BY DEF Hang!EnterCollective
<1>2. fingerprint \in Nat
  BY DEF Hang!GoodFingerprint, Hang!OddFingerprint
<1> QED BY <1>1, <1>2, AdvanceStep DEF Hang!EnterCollective, WatchPlaces

LEMMA ExitCollectiveStep ==
  ASSUME Hang!HangAssumption, HangInv, NEW r \in Ranks, Hang!ExitCollective(r)
  PROVE  HangInv'
  BY AdvanceStep DEF Hang!ExitCollective, WatchPlaces, Hang!NoFingerprint

-----------------------------------------------------------------------------
(* What leaves the trackers alone.                                         *)
LeavesTrackers(ds) ==
  /\ tracker' = tracker /\ spent' = spent /\ CandidateStays
  /\ report'.stage.culprits = {}
  /\ \A q \in Ranks : \/ at'[q] = at[q]
                      \/ at[q] # "stage" /\ at'[q] \in {"failed", "closed"}
  /\ \A q \in Ranks : daemon'[q].pc = "round" =>
       \/ q \in ds /\ daemon'[q].snap = tracker[q]
       \/ daemon[q].pc = "round" /\ daemon'[q].snap = daemon[q].snap

LEMMA Untracked ==
  ASSUME HangInv, HangTypes', NEW ds, LeavesTrackers(ds)
  PROVE  HangInv'
<1>0. tracker' = tracker /\ spent' = spent /\ CandidateStays /\ report'.stage.culprits = {}
  BY DEF LeavesTrackers
<1>1. ASSUME NEW q \in Ranks PROVE FollowsOn(q)
  <2>1. Tracked(q)'
    BY <1>0 DEF HangInv, LeavesTrackers, Tracked, ClockRuns, DoneIsReal
  <2>2. \A k \in Hang!Kinds : tracker[q].counts[k] \in Nat
    BY DEF HangInv, HangTypes, TrackerType
  <2> QED BY <1>0, <2>1, <2>2 DEF FollowsOn, Follows, LeavesTrackers
<1> QED BY <1>0, <1>1, Keeps

LEMMA StepFailsStep ==
  ASSUME Hang!HangAssumption, HangInv, NEW r \in Ranks, Hang!StepFails(r)
  PROVE  HangInv'
<1>1. HangTypes' /\ CandidateStays /\ report'.stage.culprits = {}
  BY NoEvent DEF Hang!StepFails, HangInv, HangTypes, CandidateStays, Hang!NoReport
<1>2. \A q \in Ranks : at'[q] = at[q] \/ (at[q] # "stage" /\ at'[q] \in {"failed", "closed"})
  BY DEF Hang!StepFails, HangInv, HangTypes
<1>3. LeavesTrackers({})
  BY <1>1, <1>2 DEF LeavesTrackers, Hang!StepFails
<1> QED BY <1>1, <1>3, Untracked

LEMMA CloseStep ==
  ASSUME Hang!HangAssumption, HangInv, NEW r \in Ranks, Hang!Close(r)
  PROVE  HangInv'
<1>1. memory' \in MemoryType /\ CandidateStays
  BY MemoryLost DEF Hang!Close, HangInv
<1>2. HangTypes' /\ report'.stage.culprits = {}
  BY <1>1, NoEvent, GoneType DEF Hang!Close, HangInv, HangTypes, Hang!NoReport
<1>3. \A q \in Ranks : at'[q] = at[q] \/ (at[q] # "stage" /\ at'[q] \in {"failed", "closed"})
  BY DEF Hang!Close, HangInv, HangTypes
<1>4. \A q \in Ranks : daemon'[q].pc = "round" => daemon'[q] = daemon[q]
  BY GoneType DEF Hang!Close, HangInv, HangTypes
<1>5. LeavesTrackers({})
  BY <1>1, <1>2, <1>3, <1>4 DEF LeavesTrackers, Hang!Close
<1> QED BY <1>2, <1>5, Untracked

LEMMA TimedOutStep ==
  ASSUME Hang!HangAssumption, HangInv, NEW d \in Ranks, Hang!TimedOut(d)
  PROVE  HangInv'
<1>1. tracker[d] \in TrackerType
  BY DEF HangInv, HangTypes
<1>2. OneDaemon(d) /\ (daemon'[d].pc = "round" => daemon'[d].snap = tracker[d])
  BY <1>1, EnterRoundStep DEF Hang!TimedOut, HangInv
<1>3. HangTypes' /\ report'.stage.culprits = {}
  BY <1>2, NoEvent DEF Hang!TimedOut, HangInv, HangTypes, Hang!NoReport, OneDaemon
<1>4. LeavesTrackers({d})
  BY <1>2, <1>3 DEF LeavesTrackers, Hang!TimedOut, OneDaemon
<1> QED BY <1>3, <1>4, Untracked

LEMMA SuperviseStep ==
  ASSUME Hang!HangAssumption, HangInv, NEW r \in Ranks, Hang!Supervise(r)
  PROVE  HangInv'
<1>1. daemon' \in [Ranks -> DaemonType] /\ \A q \in Ranks : daemon'[q].snap = daemon[q].snap
      /\ (daemon'[q].pc = "round" => daemon[q].pc = "round")
  BY DEF Hang!Supervise, HangInv, HangTypes, DaemonType
<1>2. HangTypes' /\ CandidateStays /\ report'.stage.culprits = {}
  BY <1>1, NoEvent DEF Hang!Supervise, HangInv, HangTypes, Hang!NoReport, CandidateStays
<1>3. LeavesTrackers({})
  BY <1>1, <1>2 DEF LeavesTrackers, Hang!Supervise
<1> QED BY <1>2, <1>3, Untracked

LEMMA RoundFailsStep ==
  ASSUME Hang!HangAssumption, HangInv, Hang!RoundFails
  PROVE  HangInv'
<1>1. memory' \in MemoryType /\ CandidateStays
  BY MemoryLost DEF Hang!RoundFails, HangInv
<1>2. \A q \in Ranks : daemon'[q] = Hang!GoneDaemon("dead") \/ daemon'[q] = daemon[q]
  BY DEF Hang!RoundFails
<1>3. daemon' \in [Ranks -> DaemonType]
  BY GoneType DEF Hang!RoundFails, HangInv, HangTypes
<1>4. HangTypes' /\ report'.stage.culprits = {}
  BY <1>1, <1>3, NoEvent DEF Hang!RoundFails, HangInv, HangTypes, Hang!NoReport
<1>5. \A q \in Ranks : daemon'[q].pc = "round" => daemon'[q] = daemon[q]
  BY <1>2, GoneType
<1>6. LeavesTrackers({})
  BY <1>1, <1>4, <1>5 DEF LeavesTrackers, Hang!RoundFails
<1> QED BY <1>4, <1>6, Untracked

-----------------------------------------------------------------------------
(* Time passes: an active stage and every snapshot of it grow older.       *)
LEMMA AgedTracker ==
  ASSUME Hang!HangAssumption, NEW t \in TrackerType
  PROVE  /\ Hang!AgeStage(t) \in TrackerType
         /\ Hang!AgeStage(t).step = t.step /\ Hang!AgeStage(t).stage = t.stage
         /\ Hang!AgeStage(t).seq = t.seq /\ Hang!AgeStage(t).counts = t.counts
         /\ Hang!AgeStage(t).doneStage = t.doneStage /\ Hang!AgeStage(t).doneSeq = t.doneSeq
         /\ Hang!AgeStage(t).duration = t.duration
         /\ Hang!AgeStage(t).elapsed =
              IF t.stage = Hang!NoStage THEN t.elapsed ELSE Hang!Older(t.elapsed, MaxElapsed)
         /\ Hang!AgeStage(t).elapsed >= t.elapsed
<1>1. t.elapsed \in 0 .. MaxElapsed /\ MaxElapsed \in Nat
  BY Assumed DEF TrackerType
<1>2. PICK e \in 0 .. MaxElapsed : e = Hang!Older(t.elapsed, MaxElapsed) /\ e >= t.elapsed
  BY <1>1 DEF Hang!Older
<1>3. CASE t.stage = Hang!NoStage
  BY <1>1, <1>3 DEF Hang!AgeStage
<1>4. CASE t.stage # Hang!NoStage
  <2>1. Hang!AgeStage(t) = [t EXCEPT !.elapsed = e]
    BY <1>2, <1>4 DEF Hang!AgeStage, TrackerType
  <2> QED BY <1>2, <1>4, <2>1 DEF TrackerType
<1> QED BY <1>3, <1>4

LEMMA TickTypes ==
  ASSUME Hang!HangAssumption, HangInv, Hang!Tick
  PROVE  HangTypes'
<1>1. tracker' \in [Ranks -> TrackerType]
  BY AgedTracker DEF Hang!Tick, HangInv, HangTypes
<1>2. daemon' \in [Ranks -> DaemonType]
  <2>1. ASSUME NEW d \in Ranks
        PROVE  [daemon[d] EXCEPT !.idle = Hang!Older(@, Hang!IdleCap), !.snap = Hang!AgeStage(@)]
                 \in DaemonType
    <3>1. daemon[d] \in DaemonType
      BY DEF HangInv, HangTypes
    <3>2. PICK i \in Nat : i = Hang!Older(daemon[d].idle, Hang!IdleCap)
      BY <3>1 DEF DaemonType, Hang!Older
    <3>3. PICK t \in TrackerType : t = Hang!AgeStage(daemon[d].snap)
      BY <3>1, AgedTracker DEF DaemonType
    <3>4. [daemon[d] EXCEPT !.idle = Hang!Older(@, Hang!IdleCap), !.snap = Hang!AgeStage(@)] =
            [daemon[d] EXCEPT !.idle = i, !.snap = t]
      BY <3>1, <3>2, <3>3 DEF DaemonType
    <3> QED BY <3>1, <3>4 DEF DaemonType
  <2> QED BY <2>1 DEF Hang!Tick, HangInv, HangTypes
<1>3. spent' \in [Ranks -> [0 .. MaxStep -> 0 .. MaxElapsed]]
  <2>1. ASSUME NEW r \in Ranks PROVE Hang!AgeStage(tracker[r]).elapsed \in 0 .. MaxElapsed
    BY <2>1, AgedTracker DEF HangInv, HangTypes, TrackerType
  <2> QED BY <2>1 DEF Hang!Tick, HangInv, HangTypes
<1> QED BY <1>1, <1>2, <1>3 DEF Hang!Tick, HangInv, HangTypes

LEMMA SpentIsTime ==
  ASSUME NEW f \in [Ranks -> [0 .. MaxStep -> 0 .. MaxElapsed]],
         NEW r \in Ranks, NEW s \in 0 .. MaxStep
  PROVE  f[r][s] \in Int
<1>1. f[r] \in [0 .. MaxStep -> 0 .. MaxElapsed]
  OBVIOUS
<1>2. f[r][s] \in 0 .. MaxElapsed
  BY <1>1
<1> QED BY <1>2

LEMMA TickSpends ==
  ASSUME Hang!HangAssumption, HangInv, Hang!Tick, NEW r \in Ranks
  PROVE  /\ tracker'[r] = Hang!AgeStage(tracker[r])
         /\ \A s \in 0 .. MaxStep : spent'[r][s] >= spent[r][s]
         /\ \A s \in 0 .. MaxStep :
              spent'[r][s] = IF at[r] = "stage" /\ s = tracker[r].step
                             THEN Hang!AgeStage(tracker[r]).elapsed ELSE spent[r][s]
         /\ daemon'[r].pc = "round" =>
              daemon[r].pc = "round" /\ daemon'[r].snap = Hang!AgeStage(daemon[r].snap)
<1>1. tracker[r] \in TrackerType /\ daemon[r] \in DaemonType
  BY DEF HangInv, HangTypes
<1>2. \A s \in 0 .. MaxStep :
        spent'[r][s] = IF at[r] = "stage" /\ s = tracker[r].step
                       THEN Hang!AgeStage(tracker[r]).elapsed ELSE spent[r][s]
  BY DEF Hang!Tick
<1>3. ASSUME NEW s \in 0 .. MaxStep
      PROVE  spent'[r][s] >= spent[r][s]
  <2>1. spent[r][s] \in Int
    BY SpentIsTime DEF HangInv, HangTypes
  <2>2. CASE at[r] = "stage" /\ s = tracker[r].step
    <3>1. spent[r][s] = tracker[r].elapsed
      BY <2>2 DEF HangInv, Tracked, ClockRuns
    <3> QED BY <1>1, <1>2, <2>2, <3>1, AgedTracker
  <2>3. CASE ~(at[r] = "stage" /\ s = tracker[r].step)
    BY <1>2, <2>1, <2>3
  <2> QED BY <2>2, <2>3
<1>4. tracker'[r] = Hang!AgeStage(tracker[r])
  BY DEF Hang!Tick
<1>5. ASSUME daemon'[r].pc = "round"
      PROVE  daemon[r].pc = "round" /\ daemon'[r].snap = Hang!AgeStage(daemon[r].snap)
  <2>1. r \notin Hang!Gone
    BY <1>5 DEF Hang!Tick, Hang!Gone
  <2>2. daemon'[r] = [daemon[r] EXCEPT !.idle = Hang!Older(@, Hang!IdleCap),
                                       !.snap = Hang!AgeStage(@)]
    BY <2>1 DEF Hang!Tick
  <2> QED BY <1>1, <1>5, <2>2 DEF DaemonType
<1> QED BY <1>2, <1>3, <1>4, <1>5

LEMMA TickStep ==
  ASSUME Hang!HangAssumption, HangInv, Hang!Tick
  PROVE  HangInv'
<1>1. HangTypes'
  BY TickTypes
<1>2. ASSUME NEW r \in Ranks, NEW kind, Slow(r, kind), kind \in Hang!Kinds
      PROVE  Slow(r, kind)'
  <2>1. PICK s \in 0 .. MaxStep : StageKind[s] = kind /\ spent[r][s] > StageThreshold[kind]
    BY <1>2 DEF Slow
  <2>2. StageThreshold[kind] \in Int /\ spent[r][s] \in Int /\ spent'[r][s] \in Int
    <3>1. /\ spent \in [Ranks -> [0 .. MaxStep -> 0 .. MaxElapsed]]
          /\ spent' \in [Ranks -> [0 .. MaxStep -> 0 .. MaxElapsed]]
      BY <1>1 DEF HangInv, HangTypes
    <3>2. StageThreshold[kind] \in Nat
      BY <1>2, Assumed
    <3>3. spent[r][s] \in Int /\ spent'[r][s] \in Int
      BY <3>1, SpentIsTime
    <3> QED BY <3>2, <3>3
  <2>3. spent'[r][s] >= spent[r][s]
    BY TickSpends
  <2> QED BY <2>1, <2>2, <2>3 DEF Slow
<1>3. ASSUME NEW r \in Ranks, NEW t \in TrackerType, DoneIsReal(r, t)
      PROVE  \A u \in TrackerType :
               u.doneStage = t.doneStage /\ u.duration = t.duration => DoneIsReal(r, u)'
  <2> SUFFICES ASSUME NEW u \in TrackerType, u.doneStage = t.doneStage,
                      u.duration = t.duration, u.doneStage # Hang!NoStage
               PROVE  \E s \in 0 .. MaxStep :
                        StageKind[s] = u.doneStage /\ spent'[r][s] >= u.duration
    BY DEF DoneIsReal
  <2>1. PICK s \in 0 .. MaxStep : StageKind[s] = t.doneStage /\ spent[r][s] >= t.duration
    BY <1>3 DEF DoneIsReal
  <2>2. spent[r][s] \in Int /\ spent'[r][s] \in Int /\ t.duration \in Int
    <3>1. /\ spent \in [Ranks -> [0 .. MaxStep -> 0 .. MaxElapsed]]
          /\ spent' \in [Ranks -> [0 .. MaxStep -> 0 .. MaxElapsed]]
      BY <1>1 DEF HangInv, HangTypes
    <3>2. t.duration \in 0 .. MaxElapsed
      BY DEF TrackerType
    <3> QED BY <3>1, <3>2, SpentIsTime
  <2>3. spent'[r][s] >= spent[r][s]
    BY TickSpends
  <2> QED BY <2>1, <2>2, <2>3
<1>4. ASSUME NEW r \in Ranks PROVE Tracked(r)'
  <2>1. tracker[r] \in TrackerType /\ Tracked(r) /\ at' = at
    BY DEF HangInv, HangTypes, Hang!Tick
  <2>2. Numbered(tracker'[r])
    BY <2>1, AgedTracker, TickSpends DEF Tracked, Numbered
  <2>3. DoneIsReal(r, tracker[r])'
    <3>1. \A u \in TrackerType :
             u.doneStage = tracker[r].doneStage /\ u.duration = tracker[r].duration =>
               (u.doneStage # Hang!NoStage =>
                  \E s \in 0 .. MaxStep :
                    StageKind[s] = u.doneStage /\ spent'[r][s] >= u.duration)
      BY <1>3, <2>1 DEF Tracked, DoneIsReal
    <3> QED BY <3>1, <2>1, AgedTracker, TickSpends DEF DoneIsReal
  <2>4. ClockRuns(r)'
    <3>1. ClockRuns(r)
      BY <2>1 DEF Tracked
    <3>2. /\ tracker'[r].step = tracker[r].step /\ tracker'[r].stage = tracker[r].stage
          /\ tracker'[r] = Hang!AgeStage(tracker[r]) /\ tracker[r].step \in Nat
      BY <2>1, AgedTracker, TickSpends DEF TrackerType
    <3>3. \A s \in 0 .. MaxStep :
            spent'[r][s] = IF at[r] = "stage" /\ s = tracker[r].step
                           THEN tracker'[r].elapsed ELSE spent[r][s]
      BY <3>2, TickSpends
    <3>4. at[r] = "stage" =>
            tracker[r].step \in 0 .. MaxStep /\ tracker[r].stage = StageKind[tracker[r].step]
      BY <3>1, <3>2, Assumed DEF ClockRuns
    <3> QED BY <2>1, <3>1, <3>2, <3>3, <3>4 DEF ClockRuns
  <2> QED BY <2>2, <2>3, <2>4 DEF Tracked
<1>5. ASSUME NEW d \in Ranks PROVE Snapped(d)'
  <2> SUFFICES ASSUME daemon'[d].pc = "round"
               PROVE  /\ Numbered(daemon'[d].snap) /\ DoneIsReal(d, daemon[d].snap)'
                      /\ Since(daemon'[d].snap, tracker'[d])
    BY DEF Snapped
  <2> DEFINE s == daemon[d].snap
             t == tracker[d]
  <2>1. /\ daemon'[d].snap = Hang!AgeStage(s) /\ tracker'[d] = Hang!AgeStage(t)
        /\ s \in TrackerType /\ t \in TrackerType
        /\ Numbered(s) /\ DoneIsReal(d, s) /\ Since(s, t)
    BY TickSpends DEF HangInv, HangTypes, DaemonType, Snapped
  <2> HIDE DEF s, t
  <2>2. Numbered(Hang!AgeStage(s))
    BY <2>1, AgedTracker DEF Numbered
  <2>3. Since(Hang!AgeStage(s), Hang!AgeStage(t))
    BY <2>1, AgedTracker DEF Since
  <2>4. DoneIsReal(d, daemon[d].snap)'
    <3>1. \A u \in TrackerType :
             u.doneStage = s.doneStage /\ u.duration = s.duration =>
               (u.doneStage # Hang!NoStage =>
                  \E i \in 0 .. MaxStep :
                    StageKind[i] = u.doneStage /\ spent'[d][i] >= u.duration)
      BY <1>3, <2>1 DEF DoneIsReal
    <3> QED BY <3>1, <2>1, AgedTracker DEF DoneIsReal
  <2> QED BY <2>1, <2>2, <2>3, <2>4
<1>6. CandidateInv'
  <2> SUFFICES ASSUME memory'.candidate.culprits # {}
               PROVE  /\ memory'.candidate.kind \in Hang!Kinds
                      /\ \A r \in memory'.candidate.culprits :
                           Suspected(r, memory.candidate)'
    BY DEF CandidateInv
  <2>0. PICK event \in EventType : event = memory.candidate /\ memory' = memory
    BY DEF HangInv, HangTypes, MemoryType, Hang!Tick
  <2>1. event.kind \in Hang!Kinds /\ event.culprits \subseteq Ranks
    BY <2>0 DEF HangInv, CandidateInv, EventType
  <2>2. ASSUME NEW r \in event.culprits
        PROVE  Suspected(r, memory.candidate)'
    <3>1. r \in Ranks /\ Suspected(r, event)
      BY <2>0, <2>1, <2>2 DEF HangInv, CandidateInv
    <3>2. /\ tracker'[r] = Hang!AgeStage(tracker[r]) /\ tracker[r] \in TrackerType
          /\ daemon[r].snap \in TrackerType
          /\ daemon'[r].pc = "round" =>
               daemon[r].pc = "round" /\ daemon'[r].snap = Hang!AgeStage(daemon[r].snap)
      BY <3>1, TickSpends DEF HangInv, HangTypes, DaemonType
    <3>3. Slow(r, event.kind) => Slow(r, event.kind)'
      BY <1>2, <2>1, <3>1
    <3> QED BY <2>0, <3>1, <3>2, <3>3, AgedTracker DEF Suspected, Shows, Slow
  <2> QED BY <2>0, <2>1, <2>2
<1>7. Hang!StageCulpritIsSlow'
  BY NoEvent DEF Hang!Tick, Hang!NoReport, Hang!StageCulpritIsSlow
<1> QED BY <1>1, <1>4, <1>5, <1>6, <1>7 DEF HangInv

-----------------------------------------------------------------------------
(* A round: the trackers stay, the snapshots are given up.                 *)
LEMMA MinOfTwo ==
  ASSUME NEW a \in Nat, NEW b \in Nat
  PROVE  Hang!Min({a, b}) \in Nat
<1>1. \E x \in {a, b} : \A y \in {a, b} : x <= y
  OBVIOUS
<1> QED BY <1>1 DEF Hang!Min

LEMMA RoundTypes ==
  ASSUME Hang!HangAssumption, HangInv, Hang!Round
  PROVE  /\ HangTypes' /\ tracker' = tracker /\ at' = at /\ spent' = spent
         /\ report' = Hang!NewReport(Hang!StageVerdict)
      /\ memory' = Hang!AfterRound(Hang!StageVerdict)
         /\ \A d \in Ranks : daemon'[d].pc = "wait"
<1>0. /\ tracker' = tracker /\ at' = at /\ spent' = spent
      /\ report' = Hang!NewReport(Hang!StageVerdict)
      /\ memory' = Hang!AfterRound(Hang!StageVerdict)
  BY DEF Hang!Round
<1>1. ASSUME NEW d \in Ranks
      PROVE  /\ [Hang!Observe(d, tracker[d]) EXCEPT !.pc = "wait", !.snap = Hang!NewTracker]
                  \in DaemonType
             /\ [Hang!Observe(d, tracker[d]) EXCEPT !.pc = "wait", !.snap = Hang!NewTracker].pc
                  = "wait"
  <2>1. daemon[d] \in DaemonType /\ Hang!Progress(tracker[d]) \in ProgressType
    BY DEF HangInv, HangTypes, Hang!Progress, ProgressType, TrackerType
  <2>2. Hang!Observe(d, tracker[d]) \in DaemonType
    BY <2>1 DEF Hang!Observe, DaemonType
  <2>3. Hang!NewTracker \in TrackerType
    BY FreshTracker
  <2> QED BY <2>2, <2>3 DEF DaemonType
<1>2. daemon' \in [Ranks -> DaemonType] /\ \A d \in Ranks : daemon'[d].pc = "wait"
  BY <1>1 DEF Hang!Round
<1>3. memory' \in MemoryType
  <2>1. memory \in MemoryType
    BY DEF HangInv, HangTypes
  <2>2. Hang!Reporter \in Ranks
    <3>1. PICK n \in Int : Ranks = 0 .. n
      BY Assumed
    <3>2. 0 \in Ranks /\ \A y \in Ranks : 0 <= y
      BY <3>1, Assumed
    <3> QED BY <3>2 DEF Hang!Reporter, Hang!Min
  <2>3. /\ Hang!Progress(Hang!Row(Hang!Reporter)) \in ProgressType
        /\ Hang!NoProgress \in ProgressType
    <3>1. daemon[Hang!Reporter].snap \in TrackerType
      BY <2>2 DEF HangInv, HangTypes, DaemonType
    <3>2. daemon[Hang!Reporter].snap.step \in Nat /\ daemon[Hang!Reporter].snap.op \in Nat
      BY <3>1 DEF TrackerType
    <3> QED BY <3>2 DEF Hang!Progress, ProgressType, Hang!Row, Hang!NoProgress
  <2>4. Hang!StageVerdict \in EventType
    <3>1. CASE Hang!StageVerdict.culprits # {}
      BY <3>1, Verdict DEF HangInv
    <3>2. CASE Hang!StageVerdict.culprits = {}
      <4>1. CASE Hang!StageCandidates = {}
        BY <4>1, NoEvent DEF Hang!StageVerdict
      <4>2. CASE Hang!StageCandidates # {}
        <5>1. Hang!LongestStage \in Hang!StageCandidates
          BY <4>2, LongestStageIsActive DEF HangInv
        <5>2. /\ Hang!Row(Hang!LongestStage).stage \in SampledStages
              /\ Hang!Row(Hang!LongestStage).seq \in Nat
          BY <5>1 DEF Hang!StageCandidates, Hang!Row, HangInv, HangTypes, DaemonType, TrackerType
        <5>3. Hang!StageVerdict = [kind |-> Hang!Row(Hang!LongestStage).stage,
                              seq |-> Hang!Row(Hang!LongestStage).seq,
                              culprits |-> Hang!StageVerdict.culprits]
          BY <4>2 DEF Hang!StageVerdict
        <5> QED BY <3>2, <5>2, <5>3 DEF EventType
      <4> QED BY <4>1, <4>2
    <3> QED BY <3>1, <3>2
  <2>5. Hang!Confirmed(Hang!StageVerdict) \in Nat
    <3>1. memory.confirmations + 1 \in Nat /\ Confirmations \in Nat
      BY <2>1, Assumed DEF MemoryType
    <3> QED BY <3>1, MinOfTwo DEF Hang!Confirmed
  <2>6. memory.reported \in ProgressType /\ memory.reportedStage \in EventType
    BY <2>1 DEF MemoryType
  <2> HIDE DEF Hang!Row
  <2> QED BY <1>0, <2>3, <2>4, <2>5, <2>6, NoEvent DEF Hang!AfterRound, MemoryType
<1> QED BY <1>0, <1>2, <1>3 DEF HangInv, HangTypes

(* The ranks that a round names: what their trackers show, and, when they  *)
(* were named before, that they were too long.                             *)
LEMMA NamedWasSlow ==
  ASSUME Hang!HangAssumption, HangInv, Hang!Met,
         NEW event \in EventType, event = Hang!StageVerdict,
         NEW r \in event.culprits
  PROVE  /\ r \in Ranks /\ event.kind \in Hang!Kinds
         /\ event.seq <= tracker[r].counts[event.kind]
         /\ Shows(tracker[r], event) => Slow(r, event.kind)
         /\ memory.candidate = event => Slow(r, event.kind)
<1> DEFINE s == daemon[r].snap
           t == tracker[r]
           kind == event.kind
           seq == event.seq
<1>1. /\ r \in Ranks /\ kind \in Hang!Kinds /\ seq \in Nat
      /\ Hang!MatchingDuration(r, kind, seq) > StageThreshold[kind]
  BY Verdict DEF HangInv, EventType
<1>2. kind # Hang!NoStage /\ StageThreshold[kind] \in Nat
  BY <1>1, Assumed DEF Hang!Kinds, Hang!NoStage
<1>3. /\ s \in TrackerType /\ t \in TrackerType /\ daemon[r].pc = "round"
      /\ Numbered(s) /\ DoneIsReal(r, s) /\ Since(s, t) /\ ClockRuns(r) /\ Numbered(t)
  BY <1>1 DEF HangInv, HangTypes, DaemonType, Snapped, Tracked, Hang!Met
<1>4. \/ s.stage = kind /\ s.seq = seq /\ s.elapsed > StageThreshold[kind]
      \/ s.doneStage = kind /\ s.doneSeq = seq /\ s.duration > StageThreshold[kind]
  BY <1>1, <1>2 DEF Hang!MatchingDuration, Hang!Row
<1>5. seq <= s.counts[kind] /\ s.counts[kind] <= t.counts[kind]
      /\ s.counts[kind] \in Nat /\ t.counts[kind] \in Nat
  BY <1>1, <1>2, <1>3, <1>4 DEF Numbered, Since, TrackerType
<1>6. CASE s.stage = kind /\ s.seq = seq /\ s.elapsed > StageThreshold[kind]
  <2>1. ASSUME t.stage = kind, t.seq = seq
        PROVE  Slow(r, kind)
    <3>1. s.elapsed = t.elapsed
      BY <1>2, <1>3, <1>6, <2>1 DEF Since
    <3>2. t.step \in 0 .. MaxStep /\ StageKind[t.step] = kind /\ spent[r][t.step] = t.elapsed
      BY <1>2, <1>3, <2>1, Assumed DEF ClockRuns, TrackerType
    <3> QED BY <1>6, <3>1, <3>2 DEF Slow
  <2>2. ASSUME memory.candidate = event
        PROVE  Slow(r, kind)
    <3>1. Suspected(r, event)
      BY <2>2 DEF HangInv, CandidateInv
    <3> QED BY <1>3, <1>6, <3>1 DEF Suspected, Shows
  <2> QED BY <1>1, <1>5, <2>1, <2>2 DEF Shows
<1>7. CASE s.doneStage = kind /\ s.doneSeq = seq /\ s.duration > StageThreshold[kind]
  <2>1. PICK i \in 0 .. MaxStep : StageKind[i] = kind /\ spent[r][i] >= s.duration
    BY <1>2, <1>3, <1>7 DEF DoneIsReal
  <2>2. spent[r][i] \in Int /\ s.duration \in Int
    <3>1. spent \in [Ranks -> [0 .. MaxStep -> 0 .. MaxElapsed]]
      BY DEF HangInv, HangTypes
    <3>2. s.duration \in 0 .. MaxElapsed
      BY <1>3 DEF TrackerType
    <3> QED BY <1>1, <3>1, <3>2, SpentIsTime
  <2>3. Slow(r, kind)
    BY <1>2, <1>7, <2>1, <2>2 DEF Slow
  <2> QED BY <1>1, <1>5, <2>3
<1> QED BY <1>4, <1>6, <1>7

LEMMA RoundStep ==
  ASSUME Hang!HangAssumption, Confirmations >= 2, HangInv, Hang!Round
  PROVE  HangInv'
<1>1. /\ HangTypes' /\ tracker' = tracker /\ at' = at /\ spent' = spent
      /\ report' = Hang!NewReport(Hang!StageVerdict)
      /\ memory' = Hang!AfterRound(Hang!StageVerdict)
      /\ \A d \in Ranks : daemon'[d].pc = "wait"
  BY RoundTypes
<1>2. \A r \in Ranks : Tracked(r)' /\ Snapped(r)'
  BY <1>1 DEF HangInv, Tracked, ClockRuns, DoneIsReal, Snapped
<1>3. Hang!Met
  BY DEF Hang!Round
<1>4. CASE Hang!StageVerdict.culprits = {}
  <2>1. memory'.candidate = Hang!NoStageEvent
    BY <1>1, <1>4 DEF Hang!AfterRound
  <2>2. report'.stage.culprits = {}
    BY <1>1, <1>4, NoEvent DEF Hang!NewReport, Hang!NoReport, Hang!ReportsStage
  <2> QED BY <1>1, <1>2, <2>1, <2>2, NoEvent DEF HangInv, CandidateInv, Hang!StageCulpritIsSlow
<1>5. CASE Hang!StageVerdict.culprits # {}
  <2>1. PICK event \in EventType : event = Hang!StageVerdict
    BY <1>5, Verdict DEF HangInv
  <2>2. memory'.candidate = event
    BY <1>1, <1>5, <2>1 DEF Hang!AfterRound
  <2>3. event.kind \in Hang!Kinds
    BY <1>5, <2>1, Verdict DEF HangInv
  <2>4. ASSUME NEW r \in event.culprits
        PROVE  Suspected(r, memory.candidate)'
    <3>1. r \in Ranks /\ event.seq <= tracker[r].counts[event.kind]
          /\ (Shows(tracker[r], event) => Slow(r, event.kind))
      BY <1>3, <2>1, <2>4, NamedWasSlow
    <3> QED BY <1>1, <2>2, <3>1 DEF Suspected, Shows, Slow
  <2>5. CandidateInv'
    BY <2>2, <2>3, <2>4 DEF CandidateInv
  <2>6. Hang!StageCulpritIsSlow'
    <3>1. CASE Hang!ReportsStage(event)
      <4>1. memory.candidate = event
        BY <3>1, Assumed DEF Hang!ReportsStage, Hang!Confirmed
      <4>2. report'.stage = event
        BY <1>1, <2>1, <3>1 DEF Hang!NewReport
      <4>3. \A r \in event.culprits : Slow(r, event.kind)
        BY <1>3, <2>1, <4>1, NamedWasSlow
      <4> QED BY <1>1, <4>2, <4>3 DEF Hang!StageCulpritIsSlow, Slow
    <3>2. CASE ~Hang!ReportsStage(event)
      <4>1. report'.stage.culprits = {}
        BY <1>1, <2>1, <3>2, NoEvent DEF Hang!NewReport, Hang!NoReport
      <4> QED BY <4>1 DEF Hang!StageCulpritIsSlow
    <3> QED BY <3>1, <3>2
  <2> QED BY <1>1, <1>2, <2>5, <2>6 DEF HangInv
<1> QED BY <1>4, <1>5

-----------------------------------------------------------------------------
LEMMA HangStart ==
  ASSUME Hang!HangAssumption, Hang!Init
  PROVE  HangInv
<1>1. Hang!NewTracker \in TrackerType
  BY FreshTracker
<1>2. Hang!NewDaemon \in DaemonType /\ Hang!NewDaemon.pc = "wait"
  BY <1>1 DEF Hang!NewDaemon, DaemonType, ProgressType
<1>3. HangTypes
  BY <1>1, <1>2, Forgets, Assumed DEF Hang!Init, HangTypes
<1>4. \A r \in Ranks : Tracked(r) /\ Snapped(r)
  <2>1. /\ Hang!NewTracker.stage = Hang!NoStage /\ Hang!NewTracker.doneStage = Hang!NoStage
    BY DEF Hang!NewTracker
  <2> QED BY <1>2, <2>1 DEF Hang!Init, Tracked, Snapped, ClockRuns, Numbered, DoneIsReal
<1>5. CandidateInv /\ Hang!StageCulpritIsSlow
  BY Forgets, NoEvent DEF Hang!Init, CandidateInv, Hang!StageCulpritIsSlow, Hang!NoReport
<1> QED BY <1>3, <1>4, <1>5 DEF HangInv

LEMMA HangStep ==
  ASSUME Hang!HangAssumption, Confirmations >= 2, HangInv, [Hang!Next]_(Hang!vars)
  PROVE  HangInv'
<1>1. CASE UNCHANGED Hang!vars
  BY <1>1 DEF Hang!vars, HangInv, HangTypes, Tracked, ClockRuns, DoneIsReal, Snapped,
             CandidateInv,
             Suspected, Slow, Hang!StageCulpritIsSlow
<1>2. ASSUME NEW r \in Ranks, Hang!TrainStep(r) PROVE HangInv'
  BY <1>2, BeginStageStep, EndStageStep, LayerBoundaryStep, EnterCollectiveStep,
     ExitCollectiveStep, StepDoneStep, StepFailsStep, CloseStep DEF Hang!TrainStep
<1>3. ASSUME NEW r \in Ranks, Hang!DaemonStep(r) PROVE HangInv'
  BY <1>3, TimedOutStep, SuperviseStep DEF Hang!DaemonStep
<1> QED BY <1>1, <1>2, <1>3, RoundStep, RoundFailsStep, TickStep DEF Hang!Next

(* With at least two confirmation rounds, a rank named in a data-loading   *)
(* or checkpoint I/O report really was too long in that kind of stage.     *)
THEOREM StageCulpritIsSlowAlways ==
  ASSUME Hang!HangAssumption, Confirmations >= 2
  PROVE  Hang!Spec => []StageCulprits
<1>1. Hang!Init => HangInv
  BY HangStart
<1>2. HangInv /\ [Hang!Next]_(Hang!vars) => HangInv'
  BY HangStep
<1>3. HangInv => StageCulprits
  BY DEF HangInv, StageCulprits
<1> QED BY <1>1, <1>2, <1>3, PTL DEF Hang!Spec
=============================================================================
