---------------------------- MODULE TrainingProof ----------------------------
(***************************************************************************)
(* Proofs about TrainingSession.  Four invariants, each resting on the     *)
(* ones before it:                                                         *)
(*                                                                         *)
(*   TypeInv   of every job: the types, and that neither a scheduler nor   *)
(*             the count of a PyTorch session is ahead of the parameters;  *)
(*   RestInv   of every job: a Trainer that has yet to load is recovered   *)
(*             or GEMINI has nothing, and a pending step has a session;    *)
(*   TrustInv  of jobs that LoadsOnlyCertified;                            *)
(*   CountInv  of jobs that CountsEveryUpdate: live state, count and the   *)
(*             stores agree, up to the one update that the scheduler has   *)
(*             not followed yet.                                           *)
(*                                                                         *)
(* What the verdict of SCOUT on a boundary may do to the stores is put     *)
(* into Taken and Counted once, and every action is proved from these.     *)
(*                                                                         *)
(* The second part is about the replays by which SCOUT comes to that       *)
(* verdict (ReplayHarness), the third about the localizers that look for   *)
(* what is at fault (Localization), each with invariants of its own.       *)
(***************************************************************************)
EXTENDS TrainingSession, Scout, FiniteSetTheorems, SequenceTheorems, WellFoundedInduction, TLAPS

(* What the process trains, and a handle.                                  *)
Live == [params : 0 .. MaxUpdates, sched : 0 .. MaxUpdates,
         moments : BOOLEAN, micro : 0 .. 1]
Handle == [open : BOOLEAN, step : 0 .. 2 * MaxUpdates, recovered : BOOLEAN,
           pending : BOOLEAN, refs : {"none", "params", "all"}]

(* A PyTorch loop: the hook follows the optimizer or the Trainer's scheduler. *)
Native == job.target \in {"trainer", "module"}

(* The update that the scheduler has not followed yet. *)
Late == IF phase = "sched" THEN 1 ELSE 0

(* The hook runs after the scheduler, so that an update in between is not  *)
(* counted yet.                                                            *)
LateHook == IF HooksScheduler THEN Late ELSE 0

(* Checkpoints that are not ahead of their own parameters. *)
Sane == {c \in Checkpoint : c.sched <= c.params /\ (Native => c.step <= c.params)}

(* A store holds one checkpoint or none. *)
OneOf(S) == {{}} \cup {{c} : c \in S}

(* In the window between optimizer and scheduler a Megatron session has    *)
(* room for the count that its scheduler will add.                         *)
TypeInv ==
  /\ job \in Jobs
  /\ phase \in {"down", "load", "loop", "sched"}
  /\ live \in Live
  /\ session \in Handle
  /\ gemini \in OneOf(Sane) /\ own \in OneOf(Sane) /\ validated \in OneOf(Sane)
  /\ loaded \in {"fresh", "gemini", "validated", "own"}
  /\ starts \in 0 .. MaxStarts
  /\ live.sched + Late <= live.params
  /\ Native => session.step + LateHook <= live.params
  /\ job.target = "chunks" /\ phase = "sched" => session.step < 2 * MaxUpdates

-----------------------------------------------------------------------------
(* What one boundary does, whatever SCOUT decides.                         *)

(* The references a capture uses. *)
Refs(l, s) == IF Keeps THEN TensorList(s, l) ELSE CollectTensors(l)

(* Each store keeps what it has or takes the record of the boundary. *)
Taken(record) ==
  /\ gemini' \in {gemini, {record}}
  /\ validated' \in {validated, {record}}
  /\ own' \in {own, validated, {record}}
  /\ ~job.durable => own' = own /\ validated' = validated

(* The handle counts to step and may have collected its references. *)
Counted(s, step, refs) ==
  /\ session' \in Handle
  /\ session'.open = s.open /\ session'.step = step
  /\ session'.recovered = s.recovered /\ session'.pending = s.pending
  /\ session'.refs \in {s.refs, refs}

LEMMA JobFacts ==
  ASSUME job' = job
  PROVE  /\ Integration' = Integration
         /\ Native' = Native /\ HooksScheduler' = HooksScheduler /\ Sane' = Sane
  BY DEF Integration, Native, HooksScheduler, Sane

LEMMA JobTypes ==
  ASSUME SessionAssumption, TypeInv
  PROVE  /\ job \in Job
         /\ Integration = "deepspeed" <=> job.target \in {"engine", "pipeline"}
         /\ Integration = "megatron" <=> job.target = "chunks"
         /\ Integration \in {"fsdp", "wired"} <=> Native
         /\ HooksScheduler <=> job.target = "trainer"
         /\ HooksScheduler => Native
  BY DEF TypeInv, SessionAssumption, Job, Integration, SelectFramework, Native, HooksScheduler

LEMMA RefsType ==
  ASSUME NEW l \in Live, NEW s \in Handle
  PROVE  Refs(l, s) \in {"params", "all"}
  BY DEF Refs, TensorList, CollectTensors, Handle, Live

(* The coordinator's verdict at a step. *)
LEMMA ResultEffect ==
  ASSUME NEW l \in Live, NEW s \in Handle, NEW step, s.step = step,
         ApplyResult(step, l, s)
  PROVE  /\ Taken(Captured(step, l, Refs(l, s)))
         /\ Counted(s, step, Refs(l, s))
<1> DEFINE refs == Refs(l, s)
           record == Captured(step, l, refs)
<1>1. \/ /\ gemini' = {record}
         /\ IF job.durable
            THEN own' = {record} /\ validated' \in {validated, {record}}
            ELSE UNCHANGED <<own, validated>>
         /\ session' = [s EXCEPT !.refs = IF Keeps THEN refs ELSE @]
      \/ /\ own' = IF job.durable THEN validated ELSE own
         /\ session' = s
         /\ UNCHANGED <<gemini, validated>>
      \/ session' = s /\ UNCHANGED stores
  BY DEF ApplyResult, Refs
<1>2. Taken(record)
  BY <1>1 DEF Taken, stores
<1>3. session' = s \/ session' = [s EXCEPT !.refs = IF Keeps THEN refs ELSE @]
  BY <1>1
<1>4. refs \in {"params", "all"}
  BY RefsType
<1>5. Counted(s, step, refs)
  <2> HIDE DEF refs
  <2> QED BY <1>3, <1>4 DEF Counted, Handle
<1> QED BY <1>2, <1>5

(* The post-step hook. *)
LEMMA HookEffect ==
  ASSUME SessionAssumption,
         NEW l \in Live, NEW s \in Handle, s.step < 2 * MaxUpdates, PostStep(l, s)
  PROVE  /\ Taken(Captured(s.step + 1, l, Refs(l, s)))
         /\ Counted(s, s.step + 1, Refs(l, s))
<1> DEFINE step == s.step + 1
           counted == [s EXCEPT !.step = step]
<1>1. s.step \in Nat /\ step \in 0 .. 2 * MaxUpdates
  BY DEF Handle, SessionAssumption
<1>2. /\ counted \in Handle /\ counted.step = step /\ counted.open = s.open
      /\ counted.recovered = s.recovered /\ counted.pending = s.pending
      /\ counted.refs = s.refs
  BY <1>1 DEF Handle
<1>3. Refs(l, counted) = Refs(l, s)
  BY <1>2 DEF Refs, TensorList
<1>4. CASE Due(step)
  <2>1. ApplyResult(step, l, counted)
    BY <1>4 DEF PostStep
  <2>2. /\ Taken(Captured(step, l, Refs(l, counted)))
        /\ Counted(counted, step, Refs(l, counted))
    <3> HIDE DEF counted, step
    <3> QED BY <2>1, <1>2, ResultEffect
  <2> HIDE DEF counted
  <2> QED BY <1>2, <1>3, <2>2 DEF Counted
<1>5. CASE ~Due(step)
  <2>1. session' = counted /\ UNCHANGED stores
    BY <1>5 DEF PostStep
  <2> HIDE DEF counted
  <2> QED BY <1>2, <2>1 DEF Counted, Taken, stores
<1> QED BY <1>4, <1>5

(* Without the hook nothing is taken and nothing counted. *)
LEMMA NoHookEffect ==
  ASSUME NEW s \in Handle, Unheard(s), NEW record, NEW refs
  PROVE  Taken(record) /\ Counted(s, s.step, refs)
  BY DEF Unheard, Taken, Counted, stores

-----------------------------------------------------------------------------
(* The types, and what is never ahead of the parameters.                   *)

LEMMA CapturedSane ==
  ASSUME NEW l \in Live, l.sched <= l.params,
         NEW step \in 0 .. 2 * MaxUpdates, Native => step <= l.params, NEW refs
  PROVE  Captured(step, l, refs) \in Sane
  BY DEF Captured, Sane, Checkpoint, Live

LEMMA RestoredTypes ==
  ASSUME NEW c \in Sane
  PROVE  /\ Restored(c) \in Live
         /\ Restored(c).params = c.params /\ Restored(c).sched = c.sched
         /\ Restored(c).sched <= Restored(c).params
         /\ c.step \in 0 .. 2 * MaxUpdates
         /\ Native => c.step <= c.params
  BY DEF Restored, Live, Sane, Checkpoint

LEMMA ResumeTypes ==
  ASSUME NEW s \in Handle, NEW step \in 0 .. 2 * MaxUpdates
  PROVE  /\ ResumeAt(s, step) \in Handle
         /\ ResumeAt(s, step).step = step /\ ResumeAt(s, step).recovered
         /\ ResumeAt(s, step).open = s.open /\ ResumeAt(s, step).pending = s.pending
         /\ ResumeAt(s, step).refs = s.refs
  BY DEF ResumeAt, Handle

LEMMA FreshTypes ==
  ASSUME SessionAssumption
  PROVE  /\ Fresh \in Live /\ Fresh.params = 0 /\ Fresh.sched = 0
         /\ NoSession \in Handle /\ NoSession.step = 0
         /\ ~NoSession.open /\ ~NoSession.pending /\ NoSession.refs = "none"
         /\ Opened \in Handle /\ Opened.step = 0
         /\ Opened.open /\ ~Opened.pending /\ Opened.refs = "none"
<1>1. 0 \in 0 .. MaxUpdates /\ 0 \in 0 .. 2 * MaxUpdates
  BY DEF SessionAssumption
<1>2. /\ Fresh \in Live /\ Fresh.params = 0 /\ Fresh.sched = 0
  BY <1>1 DEF Fresh, Live
<1>3. /\ NoSession \in Handle /\ NoSession.step = 0
      /\ NoSession.open = FALSE /\ NoSession.pending = FALSE /\ NoSession.refs = "none"
  BY <1>1 DEF NoSession, Handle
<1>4. /\ Opened \in Handle /\ Opened.step = 0 /\ Opened.open = TRUE
      /\ Opened.pending = FALSE /\ Opened.refs = "none"
  BY <1>3 DEF Opened, Handle
<1> QED BY <1>2, <1>3, <1>4

LEMMA UpdateTypes ==
  ASSUME SessionAssumption, NEW l \in Live, l.params < MaxUpdates, NEW ok \in BOOLEAN
  PROVE  /\ Update(l, ok) \in Live
         /\ Update(l, ok).params = IF ok THEN l.params + 1 ELSE l.params
         /\ Update(l, ok).sched = l.sched
         /\ Update(l, ok).moments <=> (ok \/ l.moments)
<1>1. CASE ok
  <2>1. Update(l, ok) = [l EXCEPT !.params = l.params + 1, !.moments = TRUE]
    BY <1>1 DEF Update
  <2>2. l.params + 1 \in 0 .. MaxUpdates
    BY DEF SessionAssumption, Live
  <2> QED BY <1>1, <2>1, <2>2 DEF Live
<1>2. CASE ~ok
  BY <1>2 DEF Update
<1> QED BY <1>1, <1>2

(* The end of an accumulation window. *)
EndWindow(l, sched) == [l EXCEPT !.micro = 0, !.sched = sched]

LEMMA WindowTypes ==
  ASSUME NEW l \in Live, NEW sched \in 0 .. MaxUpdates
  PROVE  /\ EndWindow(l, sched) \in Live
         /\ EndWindow(l, sched).sched = sched /\ EndWindow(l, sched).params = l.params
         /\ EndWindow(l, sched).moments = l.moments
<1> DEFINE m == EndWindow(l, sched)
<1>1. PICK zero \in 0 .. 1 : zero = 0
  OBVIOUS
<1>2. m = [l EXCEPT !.micro = zero, !.sched = sched]
  BY <1>1 DEF EndWindow
<1> HIDE DEF m
<1>3. m \in Live
  BY <1>2 DEF Live
<1>4. m.sched = sched
  BY <1>2 DEF Live
<1>5. m.params = l.params
  BY <1>2 DEF Live
<1>6. m.moments = l.moments
  BY <1>2 DEF Live
<1> QED BY <1>3, <1>4, <1>5, <1>6 DEF m

LEMMA EngineTypes ==
  ASSUME SessionAssumption, TypeInv, NEW ok \in BOOLEAN,
         live.params < MaxUpdates, live.sched <= live.params
  PROVE  /\ EngineStep(live, ok) \in Live
         /\ EngineStep(live, ok).sched <= EngineStep(live, ok).params
         /\ EngineStep(live, ok).params >= live.params
<1>1. job.accumulation \in 1 .. 2 /\ live \in Live
  BY JobTypes DEF Job, TypeInv
<1>2. CASE live.micro + 1 < job.accumulation
  <2>1. EngineStep(live, ok) = [live EXCEPT !.micro = live.micro + 1]
    BY <1>2 DEF EngineStep
  <2>2. live.micro + 1 \in 0 .. 1 /\ live.params \in Nat
    BY <1>1, <1>2 DEF Live, SessionAssumption
  <2> QED BY <1>1, <2>1, <2>2 DEF Live
<1>3. CASE ~(live.micro + 1 < job.accumulation)
  <2> DEFINE u == Update(live, ok)
             sched == IF ok THEN live.sched + 1 ELSE live.sched
  <2>1. /\ u \in Live /\ u.sched = live.sched
        /\ u.params = IF ok THEN live.params + 1 ELSE live.params
    BY <1>1, UpdateTypes
  <2>2. EngineStep(live, ok) = EndWindow(u, sched)
    BY <1>3, <2>1 DEF EngineStep, EndWindow
  <2>3. live.params \in Nat /\ sched \in 0 .. MaxUpdates /\ sched <= u.params
    BY <1>1, <2>1 DEF Live, SessionAssumption
  <2> HIDE DEF u, sched
  <2>4. /\ EngineStep(live, ok) \in Live /\ EngineStep(live, ok).sched = sched
        /\ EngineStep(live, ok).params = u.params
    BY <2>1, <2>2, <2>3, WindowTypes
  <2>5. u.params >= live.params
    BY <2>1, <2>3
  <2> QED BY <2>3, <2>4, <2>5
<1> QED BY <1>2, <1>3

(* The record of a boundary leaves the stores in type. *)
LEMMA TakenTypes ==
  ASSUME TypeInv, job' = job, NEW record \in Sane, Taken(record)
  PROVE  gemini' \in OneOf(Sane) /\ own' \in OneOf(Sane) /\ validated' \in OneOf(Sane)
<1>1. {record} \in OneOf(Sane)
  BY DEF OneOf
<1> QED BY <1>1 DEF TypeInv, Taken

(* Where the state comes from at a start. *)
FromGemini(s) ==
  \E c \in gemini : live' = Restored(c) /\ session' = ResumeAt(s, c.step)

FromValidated(s) ==
  /\ gemini = {} /\ job.durable
  /\ \E c \in validated : live' = Restored(c) /\ session' = ResumeAt(s, c.step)

FromOwn(s) ==
  /\ gemini = {} /\ ~job.durable /\ job.fallback
  /\ \E c \in own :
       /\ live' = Restored(c)
       /\ IF Integration # "wired" /\ c.step > 0 THEN session' = ResumeAt(s, c.step)
          ELSE session' = s

FromNothing(s) == gemini = {} /\ live' = Fresh /\ session' = s

Recovers(s) ==
  \/ FromGemini(s) /\ loaded' = "gemini"
  \/ FromValidated(s) /\ loaded' = "validated"
  \/ FromOwn(s) /\ loaded' = "own"
  \/ FromNothing(s) /\ loaded' = "fresh"

LEMMA RecoverCases ==
  ASSUME NEW s,
         \/ Integration # "wired" /\ RecoverWithFallback(s)
         \/ Integration = "wired" /\ RecoverWired(s)
  PROVE  Recovers(s)
<1>1. CASE gemini # {}
  BY <1>1 DEF RecoverWithFallback, RecoverWired, Recovers, FromGemini
<1>2. CASE gemini = {} /\ job.durable /\ validated # {}
  BY <1>2 DEF RecoverWithFallback, RecoverWired, Recovers, FromValidated
<1>3. CASE gemini = {} /\ ~job.durable /\ job.fallback /\ own # {}
  BY <1>3 DEF RecoverWithFallback, RecoverWired, Recovers, FromOwn
<1>4. CASE /\ gemini = {} /\ ~(job.durable /\ validated # {})
           /\ ~(~job.durable /\ job.fallback /\ own # {})
  BY <1>4 DEF RecoverWithFallback, RecoverWired, Recovers, FromNothing
<1> QED BY <1>1, <1>2, <1>3, <1>4

LEMMA TypeFrom ==
  ASSUME TypeInv, job' = job, phase' \in {"down", "load", "loop", "sched"},
         live' \in Live, session' \in Handle,
         loaded' \in {"fresh", "gemini", "validated", "own"}, starts' \in 0 .. MaxStarts,
         gemini' \in OneOf(Sane), own' \in OneOf(Sane), validated' \in OneOf(Sane),
         live'.sched + Late' <= live'.params,
         Native => session'.step + LateHook' <= live'.params,
         job.target = "chunks" /\ phase' = "sched" => session'.step < 2 * MaxUpdates
  PROVE  TypeInv'
<1>1. OneOf(Sane)' = OneOf(Sane) /\ Native' = Native
  BY JobFacts DEF OneOf
<1> QED BY <1>1 DEF TypeInv

(* A step of the loop, with the hook or without it. *)
LEMMA BoundaryTypes ==
  ASSUME SessionAssumption, TypeInv, job' = job,
         NEW l \in Live, l.sched <= l.params,
         NEW s \in Handle, s.step < 2 * MaxUpdates, Native => s.step < l.params,
         PostStep(l, s) \/ Unheard(s)
  PROVE  /\ gemini' \in OneOf(Sane) /\ own' \in OneOf(Sane) /\ validated' \in OneOf(Sane)
         /\ session' \in Handle
         /\ session'.step \in {s.step, s.step + 1}
         /\ session'.open = s.open /\ session'.pending = s.pending
         /\ session'.recovered = s.recovered
<1> DEFINE record == Captured(s.step + 1, l, Refs(l, s))
<1>1. s.step \in Nat /\ s.step + 1 \in 0 .. 2 * MaxUpdates /\ l.params \in Nat
  BY DEF Handle, Live, SessionAssumption
<1>2. record \in Sane
  BY <1>1, CapturedSane
<1>3. Taken(record) /\ (Counted(s, s.step, Refs(l, s)) \/ Counted(s, s.step + 1, Refs(l, s)))
  BY HookEffect, NoHookEffect
<1>4. gemini' \in OneOf(Sane) /\ own' \in OneOf(Sane) /\ validated' \in OneOf(Sane)
  <2> HIDE DEF record
  <2> QED BY <1>2, <1>3, TakenTypes
<1> QED BY <1>3, <1>4 DEF Counted

LEMMA DeepSpeedTypes ==
  ASSUME SessionAssumption, TypeInv, DeepSpeedStep
  PROVE  TypeInv'
<1>1. PICK ok \in BOOLEAN :
        /\ live' = EngineStep(live, ok)
        /\ PostStep(live', session) \/ Unheard(session)
  BY DEF DeepSpeedStep, Outcomes
<1>2. /\ phase = "loop" /\ live.params < MaxUpdates /\ session.step < 2 * MaxUpdates
      /\ UNCHANGED <<job, phase, loaded, starts>> /\ Integration = "deepspeed"
  BY DEF DeepSpeedStep
<1>3. ~Native /\ job.target # "chunks" /\ live \in Live /\ session \in Handle
  BY <1>2, JobTypes DEF Native, TypeInv
<1>4. Late = 0 /\ Late' = 0 /\ live.sched <= live.params
  BY <1>2, <1>3 DEF Late, TypeInv, Live
<1>5. live' \in Live /\ live'.sched <= live'.params
  BY <1>1, <1>2, <1>4, EngineTypes
<1>6. live'.sched + Late' <= live'.params
  BY <1>4, <1>5 DEF Live
<1>7. /\ gemini' \in OneOf(Sane) /\ own' \in OneOf(Sane) /\ validated' \in OneOf(Sane)
      /\ session' \in Handle
  BY <1>1, <1>2, <1>3, <1>5, BoundaryTypes
<1> QED BY <1>2, <1>3, <1>5, <1>6, <1>7, TypeFrom DEF TypeInv

LEMMA MegatronStepTypes ==
  ASSUME SessionAssumption, TypeInv, MegatronStep
  PROVE  TypeInv'
<1>1. PICK ok \in BOOLEAN :
        /\ live' = Update(live, ok)
        /\ phase' = IF ok /\ job.scheduler THEN "sched" ELSE "loop"
        /\ \/ Unheard(session)
           \/ Unheard([session EXCEPT !.pending = TRUE])
           \/ ~job.scheduler /\ PostStep(live', session)
  BY DEF MegatronStep, Outcomes, DefersToScheduler
<1>2. /\ phase = "loop" /\ live.params < MaxUpdates /\ session.step < 2 * MaxUpdates
      /\ UNCHANGED <<job, loaded, starts>> /\ Integration = "megatron"
  BY DEF MegatronStep
<1>3. ~Native /\ job.target = "chunks" /\ live \in Live /\ session \in Handle
  BY <1>2, JobTypes DEF Native, TypeInv
<1>4. live.sched <= live.params
  BY <1>2, <1>3 DEF Late, TypeInv, Live
<1>5. /\ live' \in Live /\ live'.sched <= live'.params
      /\ live'.sched + Late' <= live'.params
  <2>1. /\ live' \in Live /\ live'.sched = live.sched
        /\ live'.params = IF ok THEN live.params + 1 ELSE live.params
    BY <1>1, <1>2, <1>3, UpdateTypes
  <2>2. live.params \in Nat /\ live.sched \in Nat
    BY <1>3 DEF Live
  <2> QED BY <1>1, <1>4, <2>1, <2>2 DEF Late
<1>6. /\ [session EXCEPT !.pending = TRUE] \in Handle
      /\ [session EXCEPT !.pending = TRUE].step = session.step
  BY <1>3 DEF Handle
<1>7. /\ gemini' \in OneOf(Sane) /\ own' \in OneOf(Sane) /\ validated' \in OneOf(Sane)
      /\ session' \in Handle
      /\ job.scheduler => session'.step = session.step
  <2>1. CASE Unheard(session) \/ Unheard([session EXCEPT !.pending = TRUE])
    BY <1>3, <1>6, <2>1 DEF Unheard, stores, TypeInv
  <2>2. CASE ~job.scheduler /\ PostStep(live', session)
    BY <1>2, <1>3, <1>5, <2>2, BoundaryTypes
  <2> QED BY <1>1, <2>1, <2>2
<1>8. phase' = "sched" => session'.step < 2 * MaxUpdates
  BY <1>1, <1>2, <1>7
<1>9. phase' \in {"loop", "sched"}
  BY <1>1
<1> QED BY <1>2, <1>3, <1>5, <1>7, <1>8, <1>9, TypeFrom DEF TypeInv

LEMMA OptimizerTypes ==
  ASSUME SessionAssumption, TypeInv, FSDPStep \/ WiredStep
  PROVE  TypeInv'
<1>1. /\ phase = "loop" /\ live.params < MaxUpdates
      /\ live' = Update(live, TRUE)
      /\ phase' = IF job.scheduler THEN "sched" ELSE "loop"
      /\ IF session.open /\ ~HooksScheduler THEN PostStep(live', session)
         ELSE Unheard(session)
      /\ UNCHANGED <<job, loaded, starts>>
  BY DEF FSDPStep, WiredStep, OptimizerReturns
<1>2. /\ Native /\ job.target # "chunks" /\ live \in Live /\ session \in Handle
      /\ phase' \in {"loop", "sched"}
  BY <1>1, JobTypes DEF FSDPStep, WiredStep, TypeInv, Native
<1>3. live.sched <= live.params /\ session.step <= live.params
  BY <1>1, <1>2 DEF Late, LateHook, TypeInv, Live, Handle
<1>4. /\ live' \in Live /\ live'.sched = live.sched /\ live'.params = live.params + 1
  BY <1>1, <1>2, UpdateTypes
<1>5. /\ live.params \in Nat /\ live.sched \in Nat /\ session.step \in Nat
      /\ session.step < 2 * MaxUpdates /\ session.step < live'.params
      /\ live'.sched <= live'.params
  <2>1. live.params \in Nat /\ live.sched \in Nat /\ session.step \in Nat /\ MaxUpdates \in Nat
    BY <1>2 DEF Live, Handle, SessionAssumption
  <2>2. live.params < MaxUpdates /\ live'.params = live.params + 1 /\ live'.sched = live.sched
    BY <1>1, <1>4
  <2> QED BY <1>3, <2>1, <2>2
<1>6. live'.sched + Late' <= live'.params
  BY <1>3, <1>4, <1>5 DEF Late
<1>7. /\ gemini' \in OneOf(Sane) /\ own' \in OneOf(Sane) /\ validated' \in OneOf(Sane)
      /\ session' \in Handle /\ session'.step \in {session.step, session.step + 1}
  BY <1>1, <1>2, <1>4, <1>5, BoundaryTypes
<1>8. HooksScheduler => session'.step = session.step
  BY <1>1 DEF Unheard
<1>9. session'.step + LateHook' <= live'.params
  <2>1. HooksScheduler' = HooksScheduler
    BY <1>1, JobFacts
  <2>2. CASE HooksScheduler
    BY <1>3, <1>4, <1>5, <1>8, <2>1, <2>2 DEF LateHook, Late
  <2>3. CASE ~HooksScheduler
    BY <1>3, <1>4, <1>5, <1>7, <2>1, <2>3 DEF LateHook
  <2> QED BY <2>2, <2>3
<1> QED BY <1>1, <1>2, <1>4, <1>6, <1>7, <1>9, TypeFrom DEF TypeInv

LEMMA SchedulerTypes ==
  ASSUME SessionAssumption, TypeInv, MegatronScheduler \/ NativeScheduler
  PROVE  TypeInv'
<1>1. /\ phase = "sched" /\ phase' = "loop"
      /\ live' = [live EXCEPT !.sched = @ + 1]
      /\ UNCHANGED <<job, loaded, starts>>
      /\ live \in Live /\ session \in Handle
  BY DEF MegatronScheduler, NativeScheduler, TypeInv
<1>2. live.sched + 1 <= live.params /\ live.params \in 0 .. MaxUpdates /\ live.sched \in Nat
  BY <1>1 DEF TypeInv, Late, Live
<1>3. live.sched + 1 \in 0 .. MaxUpdates
  BY <1>2 DEF SessionAssumption
<1>4. /\ live' \in Live /\ live'.params = live.params /\ live'.sched = live.sched + 1
  BY <1>1, <1>3 DEF Live
<1>5. Late' = 0 /\ LateHook' = 0 /\ live'.sched + Late' <= live'.params
      /\ live'.sched <= live'.params
  BY <1>1, <1>2, <1>4 DEF Late, LateHook
<1>6. [session EXCEPT !.pending = FALSE] \in Handle
      /\ [session EXCEPT !.pending = FALSE].step = session.step
  BY <1>1 DEF Handle
<1>7. CASE MegatronScheduler
  <2>1. \/ Unheard(session)
        \/ PostStep(live', [session EXCEPT !.pending = FALSE])
    BY <1>7 DEF MegatronScheduler
  <2>2. ~Native /\ job.target = "chunks"
    BY <1>7, JobTypes DEF MegatronScheduler, Native
  <2>3. session.step < 2 * MaxUpdates
    BY <1>1, <2>2 DEF TypeInv
  <2>4. /\ gemini' \in OneOf(Sane) /\ own' \in OneOf(Sane) /\ validated' \in OneOf(Sane)
        /\ session' \in Handle
    <3>1. CASE Unheard(session)
      BY <1>1, <1>4, <1>5, <2>2, <2>3, <3>1, BoundaryTypes
    <3>2. CASE PostStep(live', [session EXCEPT !.pending = FALSE])
      BY <1>1, <1>4, <1>5, <1>6, <2>2, <2>3, <3>2, BoundaryTypes
    <3> QED BY <2>1, <3>1, <3>2
  <2> QED BY <1>1, <1>4, <1>5, <2>2, <2>4, TypeFrom DEF TypeInv
<1>8. CASE NativeScheduler
  <2>1. /\ Unheard(session) \/ (HooksScheduler /\ PostStep(live', session))
        /\ Native /\ job.target # "chunks"
    BY <1>8, JobTypes DEF NativeScheduler, Native
  <2>2. CASE Unheard(session)
    <3>1. session' = session /\ UNCHANGED stores
      BY <2>2 DEF Unheard
    <3>2. session'.step <= live'.params
      BY <1>1, <1>4, <2>1, <3>1 DEF TypeInv, LateHook, Late, Live, Handle
    <3>3. session'.step + LateHook' <= live'.params
      BY <1>1, <1>5, <3>1, <3>2 DEF Handle
    <3> QED BY <1>1, <1>4, <1>5, <2>1, <3>1, <3>3, TypeFrom DEF TypeInv, stores
  <2>3. CASE HooksScheduler /\ PostStep(live', session)
    <3>1. session.step + 1 <= live.params /\ session.step \in Nat
      BY <1>1, <2>1, <2>3 DEF TypeInv, LateHook, Late, Live, Handle
    <3>2. session.step < 2 * MaxUpdates /\ session.step < live'.params
      BY <1>2, <1>4, <3>1 DEF SessionAssumption
    <3>3. /\ gemini' \in OneOf(Sane) /\ own' \in OneOf(Sane) /\ validated' \in OneOf(Sane)
          /\ session' \in Handle /\ session'.step \in {session.step, session.step + 1}
      BY <1>1, <1>4, <1>5, <2>3, <3>2, BoundaryTypes
    <3>4. session'.step + LateHook' <= live'.params
      BY <1>2, <1>4, <1>5, <3>1, <3>3
    <3> QED BY <1>1, <1>4, <1>5, <2>1, <3>3, <3>4, TypeFrom DEF TypeInv
  <2> QED BY <2>1, <2>2, <2>3
<1> QED BY <1>7, <1>8

LEMMA SaveTypes ==
  ASSUME SessionAssumption, TypeInv, SaveNow \/ FrameworkSave
  PROVE  TypeInv'
<1>1. /\ UNCHANGED <<job, phase, live, loaded, starts>> /\ phase = "loop"
      /\ live \in Live /\ session \in Handle
  BY DEF SaveNow, FrameworkSave, TypeInv
<1>2. /\ Late' = Late /\ LateHook' = LateHook /\ live.sched <= live.params
      /\ live.params \in 0 .. MaxUpdates
  BY <1>1, JobFacts DEF Late, LateHook, TypeInv, Live
<1>3. CASE SaveNow
  <2> DEFINE record == Captured(session.step, live, Refs(live, session))
  <2>1. ~Native
    BY <1>3, JobTypes DEF SaveNow
  <2>2. /\ Taken(record) /\ Counted(session, session.step, Refs(live, session))
    BY <1>1, <1>3, ResultEffect DEF SaveNow
  <2>3. record \in Sane
    BY <1>1, <1>2, <2>1, CapturedSane DEF Handle
  <2>4. gemini' \in OneOf(Sane) /\ own' \in OneOf(Sane) /\ validated' \in OneOf(Sane)
    <3> HIDE DEF record
    <3> QED BY <1>1, <2>2, <2>3, TakenTypes
  <2>5. session' \in Handle /\ session'.step = session.step
    BY <2>2 DEF Counted
  <2> QED BY <1>1, <1>2, <2>1, <2>4, <2>5, TypeFrom DEF TypeInv
<1>4. CASE FrameworkSave
  <2> DEFINE record == Captured(live.params, live, CollectTensors(live))
  <2>1. live.params \in 0 .. 2 * MaxUpdates /\ live.params <= live.params
    BY <1>2 DEF SessionAssumption
  <2>2. record \in Sane
    BY <1>1, <1>2, <2>1, CapturedSane
  <2>3. own' = {record} /\ UNCHANGED <<session, gemini, validated>>
    BY <1>4 DEF FrameworkSave
  <2>4. own' \in OneOf(Sane)
    <3> HIDE DEF record
    <3> QED BY <2>2, <2>3 DEF OneOf
  <2> QED BY <1>1, <1>2, <2>3, <2>4, TypeFrom DEF TypeInv
<1> QED BY <1>3, <1>4

(* What enable_resiliency of every framework does. *)
Enable == EnableDeepSpeed \/ EnableMegatron \/ EnableFSDP \/ EnableWired

LEMMA EnableEffect ==
  ASSUME Enable
  PROVE  Attached /\ Recovers(Opened)
<1>1. Integration = "deepspeed" => Integration # "wired"
  OBVIOUS
<1>2. Attached
  BY DEF Enable, EnableDeepSpeed, EnableMegatron, EnableFSDP, EnableWired
<1>3. \/ Integration # "wired" /\ RecoverWithFallback(Opened)
      \/ Integration = "wired" /\ RecoverWired(Opened)
  BY DEF Enable, EnableDeepSpeed, EnableMegatron, EnableFSDP, EnableWired
<1> QED BY <1>2, <1>3, RecoverCases

(* A recovery by checkpoint c, or none. *)
LEMMA RecoverTypes ==
  ASSUME SessionAssumption, TypeInv, Recovers(Opened)
  PROVE  /\ live' \in Live /\ session' \in Handle
         /\ live'.sched <= live'.params
         /\ Native => session'.step <= live'.params
         /\ session'.open = TRUE /\ session'.pending = FALSE /\ session'.refs = "none"
         /\ loaded' \in {"fresh", "gemini", "validated", "own"}
<1>1. \/ \E c \in gemini \cup own \cup validated :
           live' = Restored(c) /\ session' \in {Opened, ResumeAt(Opened, c.step)}
      \/ live' = Fresh /\ session' = Opened
  BY DEF Recovers, FromGemini, FromValidated, FromOwn, FromNothing
<1>2. gemini \cup own \cup validated \subseteq Sane
  BY DEF TypeInv, OneOf
<1>3. CASE live' = Fresh /\ session' = Opened
  BY <1>3, FreshTypes DEF Recovers
<1>4. ASSUME NEW c \in Sane,
             live' = Restored(c), session' \in {Opened, ResumeAt(Opened, c.step)}
      PROVE  /\ live' \in Live /\ session' \in Handle
             /\ live'.sched <= live'.params
             /\ Native => session'.step <= live'.params
             /\ session'.open = TRUE /\ session'.pending = FALSE /\ session'.refs = "none"
  <2>1. /\ live' \in Live /\ live'.params = c.params /\ live'.sched <= live'.params
        /\ c.step \in 0 .. 2 * MaxUpdates
        /\ Native => c.step <= c.params
    BY <1>4, RestoredTypes
  <2>2. Opened \in Handle /\ Opened.step = 0 /\ 0 <= c.params
    BY FreshTypes DEF Sane, Checkpoint
  <2>3. CASE session' = Opened
    BY <2>1, <2>2, <2>3, FreshTypes
  <2>4. CASE session' = ResumeAt(Opened, c.step)
    BY <2>1, <2>2, <2>4, FreshTypes, ResumeTypes
  <2> QED BY <1>4, <2>3, <2>4
<1>5. loaded' \in {"fresh", "gemini", "validated", "own"}
  BY DEF Recovers
<1> QED BY <1>1, <1>2, <1>3, <1>4, <1>5

LEMMA EnableTypes ==
  ASSUME SessionAssumption, TypeInv, Enable
  PROVE  TypeInv'
<1>1. /\ phase = "down" /\ starts < MaxStarts /\ starts' = starts + 1
      /\ phase' = IF job.target = "trainer" THEN "load" ELSE "loop"
      /\ UNCHANGED <<job, gemini, own, validated>>
  BY EnableEffect DEF Attached, stores
<1>2. /\ live' \in Live /\ session' \in Handle
      /\ live'.sched <= live'.params
      /\ Native => session'.step <= live'.params
      /\ loaded' \in {"fresh", "gemini", "validated", "own"}
  BY EnableEffect, RecoverTypes
<1>3. starts' \in 0 .. MaxStarts
  BY <1>1 DEF SessionAssumption, TypeInv
<1>4. phase' \in {"load", "loop"} /\ Late' = 0 /\ LateHook' = 0
  BY <1>1 DEF Late, LateHook
<1>5. /\ live'.sched + Late' <= live'.params
      /\ Native => session'.step + LateHook' <= live'.params
  BY <1>2, <1>4 DEF Live, Handle
<1> QED BY <1>1, <1>2, <1>3, <1>4, <1>5, TypeFrom DEF TypeInv

LEMMA LoadTypes ==
  ASSUME SessionAssumption, TypeInv, TrainerLoad
  PROVE  TypeInv'
<1>1. /\ phase = "load" /\ phase' = "loop" /\ UNCHANGED <<job, gemini, own, validated, starts>>
      /\ \/ UNCHANGED <<live, session, loaded>>
         \/ \E c \in own : /\ live' = Restored(c)
                           /\ session' = ResumeAt(session, c.params)
                           /\ loaded' \in {"validated", "own"}
  BY DEF TrainerLoad, stores
<1>2. Late = 0 /\ LateHook = 0 /\ Late' = 0 /\ LateHook' = 0
  BY <1>1 DEF Late, LateHook
<1>3. CASE UNCHANGED <<live, session, loaded>>
  <2>1. /\ live'.sched + Late' <= live'.params
        /\ Native => session'.step + LateHook' <= live'.params
    BY <1>2, <1>3 DEF TypeInv
  <2> QED BY <1>1, <1>3, <2>1, TypeFrom DEF TypeInv
<1>4. ASSUME NEW c \in own, live' = Restored(c), session' = ResumeAt(session, c.params),
             loaded' \in {"validated", "own"}
      PROVE  TypeInv'
  <2>1. c \in Sane
    BY DEF TypeInv, OneOf
  <2>2. /\ live' \in Live /\ live'.params = c.params /\ live'.sched <= live'.params
    BY <1>4, <2>1, RestoredTypes
  <2>3. c.params \in 0 .. 2 * MaxUpdates
    BY <2>1 DEF SessionAssumption, Sane, Checkpoint
  <2>4. session' \in Handle /\ session'.step = c.params
    BY <1>4, <2>3, ResumeTypes DEF TypeInv
  <2>5. /\ live'.sched + Late' <= live'.params
        /\ Native => session'.step + LateHook' <= live'.params
    BY <1>2, <2>2, <2>3, <2>4 DEF Live
  <2> QED BY <1>1, <1>4, <2>2, <2>4, <2>5, TypeFrom DEF TypeInv
<1> QED BY <1>1, <1>3, <1>4

LEMMA TryRecoverTypes ==
  ASSUME SessionAssumption, TypeInv, TryRecover
  PROVE  TypeInv'
<1>1. PICK c \in gemini : live' = Restored(c) /\ session' = ResumeAt(session, c.step)
  BY DEF TryRecover
<1>2. phase = "loop" /\ UNCHANGED <<job, phase, gemini, own, validated, loaded, starts>>
  BY DEF TryRecover, stores
<1>3. c \in Sane
  BY DEF TypeInv, OneOf
<1>4. /\ live' \in Live /\ live'.params = c.params /\ live'.sched <= live'.params
      /\ c.step \in 0 .. 2 * MaxUpdates
      /\ Native => c.step <= c.params
  BY <1>1, <1>3, RestoredTypes
<1>5. session' \in Handle /\ session'.step = c.step
  BY <1>1, <1>4, ResumeTypes DEF TypeInv
<1>6. Late' = 0 /\ LateHook' = 0
  BY <1>2 DEF Late, LateHook
<1>7. /\ live'.sched + Late' <= live'.params
      /\ Native => session'.step + LateHook' <= live'.params
  BY <1>4, <1>5, <1>6 DEF Live, Handle
<1> QED BY <1>2, <1>4, <1>5, <1>7, TypeFrom DEF TypeInv

LEMMA EndTypes ==
  ASSUME SessionAssumption, TypeInv, Close \/ StopJob
  PROVE  TypeInv'
<1>1. CASE Close
  <2>1. /\ session' = Closed(session) /\ session \in Handle
        /\ UNCHANGED <<job, phase, live, gemini, own, validated, loaded, starts>>
    BY <1>1 DEF Close, stores, TypeInv
  <2>2. session' \in Handle /\ session'.step = session.step
    BY <2>1 DEF Closed, Handle
  <2>3. Late' = Late /\ LateHook' = LateHook
    BY <2>1, JobFacts DEF Late, LateHook
  <2> QED BY <2>1, <2>2, <2>3, TypeFrom DEF TypeInv
<1>2. CASE StopJob
  <2>1. /\ phase' = "down" /\ live' = Fresh /\ session' = NoSession /\ loaded' = "fresh"
        /\ gemini' \in {gemini, {}} /\ UNCHANGED <<job, own, validated, starts>>
    BY <1>2 DEF StopJob
  <2>2. Late' = 0 /\ LateHook' = 0 /\ {} \in OneOf(Sane)
    BY <2>1 DEF Late, LateHook, OneOf
  <2>3. gemini' \in OneOf(Sane)
    BY <2>1, <2>2 DEF TypeInv
  <2>4. /\ live'.sched + Late' <= live'.params
        /\ Native => session'.step + LateHook' <= live'.params
    BY <2>1, <2>2, FreshTypes
  <2> QED BY <2>1, <2>3, <2>4, FreshTypes, TypeFrom DEF TypeInv
<1> QED BY <1>1, <1>2

LEMMA TypeStep == SessionAssumption /\ TypeInv /\ [SessionNext]_sessionVars => TypeInv'
<1>1. ASSUME TypeInv, UNCHANGED sessionVars PROVE TypeInv'
  <2>1. UNCHANGED <<job, phase, live, session, gemini, own, validated, loaded, starts>>
    BY <1>1 DEF sessionVars
  <2>2. Late' = Late /\ LateHook' = LateHook
    BY <2>1, JobFacts DEF Late, LateHook
  <2> QED BY <1>1, <2>1, <2>2, TypeFrom DEF TypeInv
<1> QED
  BY <1>1, DeepSpeedTypes, MegatronStepTypes, OptimizerTypes, SchedulerTypes, SaveTypes,
     EnableTypes, LoadTypes, TryRecoverTypes, EndTypes DEF SessionNext, Enable

LEMMA TypeInit == SessionAssumption /\ SessionInit => TypeInv
<1> SUFFICES ASSUME SessionAssumption, SessionInit PROVE TypeInv
  OBVIOUS
<1>1. {} \in OneOf(Sane) /\ Late = 0 /\ LateHook = 0
  BY DEF OneOf, Late, LateHook, SessionInit
<1>2. 0 \in 0 .. MaxStarts
  BY DEF SessionAssumption
<1> QED BY <1>1, <1>2, FreshTypes DEF SessionInit, TypeInv

LEMMA TypesFollow == TypeInv => SessionTypeOK
<1> SUFFICES ASSUME TypeInv PROVE SessionTypeOK
  OBVIOUS
<1>1. ASSUME NEW store \in OneOf(Sane)
      PROVE  store \subseteq Checkpoint /\ Cardinality(store) <= 1
  <2>1. CASE store = {}
    BY <2>1, FS_EmptySet
  <2>2. ASSUME NEW c \in Sane, store = {c}
        PROVE  store \subseteq Checkpoint /\ Cardinality(store) <= 1
    <3>1. Cardinality({c}) = 1
      BY FS_Singleton
    <3> QED BY <2>2, <3>1 DEF Sane
  <2> QED BY <2>1, <2>2 DEF OneOf
<1> QED BY <1>1 DEF TypeInv, SessionTypeOK, Live, Handle

-----------------------------------------------------------------------------
(* Recovery and close, for every job.                                      *)

(* A Trainer still to load is behind nothing, a process is not behind its  *)
(* GEMINI copies, and evidence is pending only in an open session.         *)
RestInv ==
  /\ phase = "load" => session.open
  /\ phase = "load" /\ ~session.recovered => gemini = {}
  /\ phase # "down" => \A c \in gemini : c.params <= live.params
  /\ session.pending => session.open

(* The wrapped calls of the training loop. *)
StepAction ==
  \/ DeepSpeedStep \/ MegatronStep \/ FSDPStep \/ WiredStep
  \/ MegatronScheduler \/ NativeScheduler

(* A handle that differs in the pending step at most. *)
SameButPending(s) ==
  /\ s \in Handle /\ s.open = session.open /\ s.step = session.step
  /\ s.recovered = session.recovered /\ s.refs = session.refs

LEMMA StepEffect ==
  ASSUME SessionAssumption, TypeInv, StepAction
  PROVE  /\ UNCHANGED <<job, loaded, starts>>
         /\ phase \in {"loop", "sched"} /\ phase' \in {"loop", "sched"}
         /\ live' \in Live /\ live.params \in Nat /\ live.params <= live'.params
         /\ \E s : /\ SameButPending(s)
                   /\ s.pending => session.pending \/ session.open
                   /\ (PostStep(live', s) /\ s.step < 2 * MaxUpdates) \/ Unheard(s)
<1>1. live \in Live /\ session \in Handle
  BY DEF TypeInv
<1>2. live.params \in Nat /\ live.params \in 0 .. MaxUpdates
  BY <1>1 DEF Live, SessionAssumption
<1>3. SameButPending(session)
  BY <1>1 DEF SameButPending
<1>4. /\ SameButPending([session EXCEPT !.pending = TRUE])
      /\ SameButPending([session EXCEPT !.pending = FALSE])
      /\ [session EXCEPT !.pending = FALSE].pending = FALSE
  BY <1>1 DEF SameButPending, Handle
<1>5. CASE DeepSpeedStep
  <2>1. PICK ok \in BOOLEAN :
          /\ live' = EngineStep(live, ok)
          /\ PostStep(live', session) \/ Unheard(session)
    BY <1>5 DEF DeepSpeedStep, Outcomes
  <2>2. /\ phase = "loop" /\ live.params < MaxUpdates /\ session.step < 2 * MaxUpdates
        /\ UNCHANGED <<job, phase, loaded, starts>>
    BY <1>5 DEF DeepSpeedStep
  <2>3. live.sched <= live.params
    BY <1>1, <2>2 DEF Late, TypeInv, Live
  <2>4. live' \in Live /\ live'.params >= live.params
    BY <2>1, <2>2, <2>3, EngineTypes
  <2>5. live'.params \in Nat
    BY <2>4 DEF Live, SessionAssumption
  <2> QED BY <1>2, <1>3, <2>1, <2>2, <2>4, <2>5
<1>6. CASE MegatronStep
  <2>1. PICK ok \in BOOLEAN :
          /\ live' = Update(live, ok)
          /\ phase' \in {"loop", "sched"}
          /\ \/ Unheard(session)
             \/ session.open /\ Unheard([session EXCEPT !.pending = TRUE])
             \/ PostStep(live', session)
    BY <1>6 DEF MegatronStep, Outcomes
  <2>2. /\ phase = "loop" /\ live.params < MaxUpdates /\ session.step < 2 * MaxUpdates
        /\ UNCHANGED <<job, loaded, starts>>
    BY <1>6 DEF MegatronStep
  <2>3. live' \in Live /\ live.params <= live'.params
    BY <1>1, <1>2, <2>1, <2>2, UpdateTypes
  <2> QED BY <1>2, <1>3, <1>4, <2>1, <2>2, <2>3
<1>7. CASE FSDPStep \/ WiredStep
  <2>1. /\ phase = "loop" /\ live.params < MaxUpdates
        /\ live' = Update(live, TRUE) /\ phase' \in {"loop", "sched"}
        /\ PostStep(live', session) \/ Unheard(session)
        /\ UNCHANGED <<job, loaded, starts>>
    BY <1>7 DEF FSDPStep, WiredStep, OptimizerReturns
  <2>2. session.step <= live.params
    BY <1>1, <1>7, <2>1, JobTypes DEF FSDPStep, WiredStep, TypeInv, LateHook, Late, Live, Handle
  <2>3. session.step < 2 * MaxUpdates
    BY <1>1, <1>2, <2>1, <2>2 DEF Handle, SessionAssumption
  <2>4. live' \in Live /\ live'.params = live.params + 1
    BY <1>1, <2>1, UpdateTypes
  <2>5. live.params <= live'.params
    BY <1>2, <2>4
  <2> QED BY <1>2, <1>3, <2>1, <2>3, <2>4, <2>5
<1>8. CASE MegatronScheduler \/ NativeScheduler
  <2>1. /\ phase = "sched" /\ phase' = "loop"
        /\ live' = [live EXCEPT !.sched = @ + 1]
        /\ UNCHANGED <<job, loaded, starts>>
    BY <1>8 DEF MegatronScheduler, NativeScheduler
  <2>2. live.sched + 1 \in 0 .. MaxUpdates
    BY <1>1, <2>1 DEF TypeInv, Late, Live, SessionAssumption
  <2>3. live' \in Live /\ live'.params = live.params
    BY <1>1, <2>1, <2>2 DEF Live
  <2>4. CASE MegatronScheduler
    <3>1. \/ Unheard(session)
          \/ PostStep(live', [session EXCEPT !.pending = FALSE])
      BY <2>4 DEF MegatronScheduler
    <3>2. session.step < 2 * MaxUpdates
      BY <2>1, <2>4, JobTypes DEF MegatronScheduler, TypeInv
    <3>3. [session EXCEPT !.pending = FALSE].step < 2 * MaxUpdates
      BY <1>1, <3>2 DEF Handle
    <3>4. \E s : /\ SameButPending(s)
                 /\ s.pending => session.pending \/ session.open
                 /\ (PostStep(live', s) /\ s.step < 2 * MaxUpdates) \/ Unheard(s)
      BY <1>3, <1>4, <3>1, <3>3
    <3> QED BY <1>2, <2>1, <2>3, <3>4
  <2>5. CASE NativeScheduler
    <3>1. Unheard(session) \/ (HooksScheduler /\ PostStep(live', session))
      BY <2>5 DEF NativeScheduler
    <3>2. HooksScheduler => session.step < 2 * MaxUpdates
      BY <1>1, <1>2, <2>1, JobTypes
         DEF TypeInv, LateHook, Late, Handle, SessionAssumption
    <3> QED BY <1>2, <1>3, <2>1, <2>3, <3>1, <3>2
  <2> QED BY <1>8, <2>4, <2>5
<1> QED BY <1>5, <1>6, <1>7, <1>8 DEF StepAction

LEMMA CallRests ==
  ASSUME SessionAssumption, TypeInv, RestInv, StepAction
  PROVE  RestInv'
<1>1. /\ phase \in {"loop", "sched"} /\ phase' \in {"loop", "sched"}
      /\ live' \in Live /\ live.params \in Nat /\ live.params <= live'.params
  BY StepEffect
<1>2. PICK s : /\ SameButPending(s)
               /\ s.pending => session.pending \/ session.open
               /\ (PostStep(live', s) /\ s.step < 2 * MaxUpdates) \/ Unheard(s)
  BY StepEffect
<1>3. s \in Handle /\ s.open = session.open
  BY <1>2 DEF SameButPending
<1>4. /\ \A c \in gemini' : c \in gemini \/ c.params = live'.params
      /\ session'.open = s.open /\ session'.pending = s.pending
  <2>1. CASE PostStep(live', s) /\ s.step < 2 * MaxUpdates
    <3>1. /\ Taken(Captured(s.step + 1, live', Refs(live', s)))
          /\ Counted(s, s.step + 1, Refs(live', s))
      BY <1>1, <1>3, <2>1, HookEffect
    <3> QED BY <3>1 DEF Taken, Captured, Counted
  <2>2. CASE Unheard(s)
    BY <2>2 DEF Unheard, stores
  <2> QED BY <1>2, <2>1, <2>2
<1>5. session'.pending => session'.open
  BY <1>2, <1>3, <1>4 DEF RestInv
<1>6. live'.params \in Nat /\ \A c \in gemini : c.params \in Nat
  BY <1>1 DEF Live, TypeInv, OneOf, Sane, Checkpoint
<1>7. \A c \in gemini' : c.params <= live'.params
  BY <1>1, <1>4, <1>6 DEF RestInv
<1> QED BY <1>1, <1>5, <1>7 DEF RestInv

LEMMA SaveRests ==
  ASSUME SessionAssumption, TypeInv, RestInv, SaveNow \/ FrameworkSave
  PROVE  RestInv'
<1>1. /\ UNCHANGED <<phase, live>> /\ phase = "loop" /\ live \in Live /\ session \in Handle
  BY DEF SaveNow, FrameworkSave, TypeInv
<1>2. CASE SaveNow
  <2>1. /\ Taken(Captured(session.step, live, Refs(live, session)))
        /\ Counted(session, session.step, Refs(live, session))
    BY <1>1, <1>2, ResultEffect DEF SaveNow
  <2>2. \A c \in gemini' : c \in gemini \/ c.params = live.params
    BY <2>1 DEF Taken, Captured
  <2>3. live.params \in Nat
    BY <1>1 DEF Live
  <2>4. session'.open = session.open /\ session'.pending = session.pending
    BY <2>1 DEF Counted
  <2> QED BY <1>1, <2>2, <2>3, <2>4 DEF RestInv
<1>3. CASE FrameworkSave
  BY <1>1, <1>3 DEF FrameworkSave, RestInv
<1> QED BY <1>2, <1>3

(* GEMINI has one checkpoint, so what was recovered from it is all of it.  *)
LEMMA RecoveredIsAll ==
  ASSUME TypeInv, NEW c \in gemini
  PROVE  /\ c \in Sane /\ c.params \in Nat
         /\ \A d \in gemini : d = c
  BY DEF TypeInv, OneOf, Sane, Checkpoint

LEMMA EnableRests ==
  ASSUME SessionAssumption, TypeInv, RestInv, Enable
  PROVE  RestInv'
<1>1. gemini' = gemini /\ Recovers(Opened)
  BY EnableEffect DEF Attached, stores
<1>2. session'.open = TRUE /\ session'.pending = FALSE
  BY <1>1, RecoverTypes
<1>3. CASE FromGemini(Opened)
  <2>1. PICK c \in gemini : live' = Restored(c) /\ session' = ResumeAt(Opened, c.step)
    BY <1>3 DEF FromGemini
  <2>2. /\ c \in Sane /\ c.params \in Nat /\ live'.params = c.params
        /\ \A d \in gemini : d = c
    BY <2>1, RecoveredIsAll, RestoredTypes
  <2>3. session'.recovered
    BY <2>1, <2>2, FreshTypes, RestoredTypes, ResumeTypes
  <2> QED BY <1>1, <1>2, <2>2, <2>3 DEF RestInv
<1>4. CASE gemini = {}
  BY <1>1, <1>2, <1>4 DEF RestInv
<1> QED BY <1>1, <1>3, <1>4 DEF Recovers, FromValidated, FromOwn, FromNothing

LEMMA LoadRests ==
  ASSUME SessionAssumption, TypeInv, RestInv, TrainerLoad
  PROVE  RestInv'
<1>1. /\ phase = "load" /\ phase' = "loop" /\ gemini' = gemini /\ session \in Handle
  BY DEF TrainerLoad, stores, TypeInv
<1>2. CASE KeepsRecovery \/ own = {}
  BY <1>1, <1>2 DEF TrainerLoad, RestInv
<1>3. CASE ~(KeepsRecovery \/ own = {})
  <2>1. gemini = {}
    BY <1>1, <1>3 DEF KeepsRecovery, RestInv
  <2>2. PICK c \in own : session' = ResumeAt(session, c.params)
    BY <1>3 DEF TrainerLoad
  <2>3. c \in Sane
    BY DEF TypeInv, OneOf
  <2>4. c.params \in 0 .. 2 * MaxUpdates
    BY <2>3 DEF SessionAssumption, Sane, Checkpoint
  <2>5. session'.open = session.open /\ session'.pending = session.pending
    BY <1>1, <2>2, <2>4, ResumeTypes
  <2> QED BY <1>1, <2>1, <2>5 DEF RestInv
<1> QED BY <1>2, <1>3

LEMMA TryRecoverRests ==
  ASSUME SessionAssumption, TypeInv, RestInv, TryRecover
  PROVE  RestInv'
<1>1. PICK c \in gemini : live' = Restored(c) /\ session' = ResumeAt(session, c.step)
  BY DEF TryRecover
<1>2. phase' = "loop" /\ gemini' = gemini /\ session \in Handle /\ phase = "loop"
  BY DEF TryRecover, stores, TypeInv
<1>3. /\ c \in Sane /\ c.params \in Nat /\ live'.params = c.params
      /\ \A d \in gemini : d = c
  BY <1>1, RecoveredIsAll, RestoredTypes
<1>4. session'.open = session.open /\ session'.pending = session.pending
  BY <1>1, <1>2, <1>3, RestoredTypes, ResumeTypes
<1> QED BY <1>2, <1>3, <1>4 DEF RestInv

LEMMA EndRests ==
  ASSUME SessionAssumption, TypeInv, RestInv, Close \/ StopJob
  PROVE  RestInv'
<1>1. CASE Close
  <2>1. /\ session' = Closed(session) /\ session \in Handle /\ phase \in {"loop", "sched"}
        /\ UNCHANGED <<phase, live, gemini>>
    BY <1>1 DEF Close, stores, TypeInv
  <2>2. session'.pending = FALSE
    BY <2>1 DEF Closed, Handle
  <2> QED BY <2>1, <2>2 DEF RestInv
<1>2. CASE StopJob
  <2>1. phase' = "down" /\ session'.pending = FALSE
    BY <1>2, FreshTypes DEF StopJob
  <2> QED BY <2>1 DEF RestInv
<1> QED BY <1>1, <1>2

LEMMA RestStep == SessionAssumption /\ TypeInv /\ RestInv /\ [SessionNext]_sessionVars => RestInv'
<1>1. ASSUME RestInv, UNCHANGED sessionVars PROVE RestInv'
  BY <1>1 DEF sessionVars, RestInv
<1> QED
  BY <1>1, CallRests, SaveRests, EnableRests, LoadRests, TryRecoverRests, EndRests
     DEF SessionNext, Enable, StepAction

LEMMA RestInit == SessionAssumption /\ SessionInit => RestInv
  BY FreshTypes DEF SessionInit, RestInv

-----------------------------------------------------------------------------
(* What is loaded, where a Trainer has no durable checkpoint.              *)

(* Only a Trainer loads after enable_resiliency, and has nothing to mix up. *)
TrustInv ==
  /\ LoadsOnlyCertified(job)
  /\ phase = "load" => job.target = "trainer"
  /\ OnlyValidatedIsLoaded

LEMMA TrustStep == SessionAssumption /\ TypeInv /\ TrustInv /\ [SessionNext]_sessionVars => TrustInv'
<1> SUFFICES ASSUME SessionAssumption, TypeInv, TrustInv, [SessionNext]_sessionVars PROVE TrustInv'
  OBVIOUS
<1>1. CASE Enable
  <2>1. /\ job' = job /\ phase' = IF job.target = "trainer" THEN "load" ELSE "loop"
        /\ Recovers(Opened)
    BY <1>1, EnableEffect DEF Attached
  <2>2. job.durable => loaded' # "own"
    BY <2>1 DEF Recovers, FromOwn
  <2> QED BY <2>1, <2>2 DEF TrustInv, LoadsOnlyCertified, OnlyValidatedIsLoaded
<1>2. CASE TrainerLoad
  <2>1. phase = "load" /\ phase' = "loop" /\ job' = job
    BY <1>2 DEF TrainerLoad
  <2>2. ~job.durable
    BY <2>1 DEF TrustInv, LoadsOnlyCertified
  <2> QED BY <2>1, <2>2 DEF TrustInv, LoadsOnlyCertified, OnlyValidatedIsLoaded
<1>3. CASE StepAction
  BY <1>3, StepEffect DEF TrustInv, LoadsOnlyCertified, OnlyValidatedIsLoaded
<1>4. CASE SaveNow \/ FrameworkSave \/ TryRecover \/ Close \/ UNCHANGED sessionVars
  BY <1>4 DEF SaveNow, FrameworkSave, TryRecover, Close, sessionVars,
              TrustInv, LoadsOnlyCertified, OnlyValidatedIsLoaded
<1>5. CASE StopJob
  BY <1>5 DEF StopJob, TrustInv, LoadsOnlyCertified, OnlyValidatedIsLoaded
<1> QED BY <1>1, <1>2, <1>3, <1>4, <1>5 DEF SessionNext, Enable, StepAction

-----------------------------------------------------------------------------
(* The silence of a closed session.                                        *)

LEMMA ClosedStep ==
  ASSUME SessionAssumption, TypeInv, RestInv, HookComesOff(job), [SessionNext]_sessionVars,
         phase # "down", ~session.open
  PROVE  gemini' \in {gemini, {}} /\ session'.step \in {session.step, 0}
<1>1. ~Enable /\ ~TrainerLoad /\ ~SaveNow /\ ~TryRecover /\ ~Close
  BY EnableEffect DEF Attached, TrainerLoad, SaveNow, TryRecover, Close, RestInv
<1>2. ~session.pending
  BY DEF RestInv
<1>3. ~(HooksScheduler /\ SchedulerWrapped)
  BY DEF HooksScheduler, SchedulerWrapped, HookComesOff
<1>4. CASE StepAction
  <2>1. Unheard(session)
    BY <1>2, <1>3, <1>4
       DEF StepAction, DeepSpeedStep, MegatronStep, FSDPStep, WiredStep, OptimizerReturns,
           MegatronScheduler, NativeScheduler
  <2> QED BY <2>1 DEF Unheard, stores
<1>5. CASE FrameworkSave \/ UNCHANGED sessionVars
  BY <1>5 DEF FrameworkSave, sessionVars
<1>6. CASE StopJob
  BY <1>6, FreshTypes DEF StopJob
<1> QED BY <1>1, <1>4, <1>5, <1>6 DEF SessionNext, Enable, StepAction

-----------------------------------------------------------------------------
(* The count and what is captured, for jobs whose every update is counted. *)

(* A checkpoint is of one step. *)
Whole(c) ==
  /\ c.step = c.params
  /\ job.scheduler => c.sched = c.params
  /\ c.params > 0 => c.moments

(* The hook of a Trainer outlives close() if its scheduler is covered.     *)
Hears == session.open \/ (HooksScheduler /\ job.covered)

(* What a recovery may choose is whole and, where SCOUT certified it, has  *)
(* the moments; the framework's own may be from before the first update.   *)
StoresWhole ==
  /\ \A c \in gemini \cup validated : Whole(c) /\ c.moments
  /\ ~job.durable => \A c \in own : Whole(c)

(* The moments exist from the first update on, and the scheduler is behind *)
(* by the late update only.                                                *)
LiveWhole ==
  /\ live.params > 0 => live.moments
  /\ job.scheduler => live.sched + Late = live.params

(* The count of a session that hears is the updates but for the late one;  *)
(* a Megatron session that is open in between has the step pending.        *)
CountInv ==
  /\ CountsEveryUpdate(job)
  /\ StoresWhole /\ LiveWhole
  /\ session.refs # "params"
  /\ phase = "sched" => job.scheduler /\ job.target \in {"chunks", "trainer"}
  /\ phase # "down" /\ Hears => session.step + Late = live.params
  /\ job.target = "chunks" /\ phase = "sched" /\ session.open => session.pending

LEMMA CountJob ==
  ASSUME job' = job
  PROVE  /\ CountsEveryUpdate(job)' <=> CountsEveryUpdate(job)
         /\ \A c : Whole(c)' <=> Whole(c)
  BY DEF CountsEveryUpdate, Whole

(* A boundary whose record is whole leaves the stores whole. *)
LEMMA TakenWhole ==
  ASSUME StoresWhole, job' = job, NEW record, Whole(record), record.moments, Taken(record)
  PROVE  StoresWhole'
<1>1. \A c \in gemini' \cup validated' : Whole(c) /\ c.moments
  BY DEF Taken, StoresWhole
<1>2. ~job.durable => \A c \in own' : Whole(c)
  BY DEF Taken, StoresWhole
<1>3. job'.durable = job.durable
  OBVIOUS
<1> QED BY <1>1, <1>2, <1>3, CountJob DEF StoresWhole

(* The references of a live state that has its moments are complete. *)
LEMMA RefsComplete ==
  ASSUME NEW l \in Live, NEW s \in Handle, l.moments, s.refs # "params"
  PROVE  Refs(l, s) = "all"
  BY DEF Refs, TensorList, CollectTensors, Handle

LEMMA CapturedWhole ==
  ASSUME NEW l \in Live, job.scheduler => l.sched = l.params
  PROVE  /\ Whole(Captured(l.params, l, "all"))
         /\ Captured(l.params, l, "all").moments
  BY DEF Captured, Whole

LEMMA HookCounts ==
  ASSUME SessionAssumption, StoresWhole, job' = job,
         NEW l \in Live, NEW s \in Handle, s.step < 2 * MaxUpdates, PostStep(l, s),
         s.refs # "params", s.step + 1 = l.params, l.moments,
         job.scheduler => l.sched = l.params
  PROVE  /\ StoresWhole'
         /\ session'.refs # "params" /\ session'.step = l.params
         /\ session'.open = s.open /\ session'.pending = s.pending
<1>1. Refs(l, s) = "all"
  BY RefsComplete
<1>2. /\ Taken(Captured(l.params, l, "all"))
      /\ Counted(s, l.params, "all")
  BY <1>1, HookEffect
<1>3. StoresWhole'
  BY <1>2, CapturedWhole, TakenWhole
<1> QED BY <1>2, <1>3 DEF Counted

LEMMA StoresKept ==
  ASSUME StoresWhole, job' = job, UNCHANGED stores
  PROVE  StoresWhole'
  BY CountJob DEF StoresWhole, stores

LEMMA EngineExact ==
  ASSUME SessionAssumption, TypeInv, job.accumulation = 1,
         live.params < MaxUpdates, live.sched <= live.params
  PROVE  /\ EngineStep(live, TRUE).params = live.params + 1
         /\ EngineStep(live, TRUE).sched = live.sched + 1
         /\ EngineStep(live, TRUE).moments
<1> DEFINE u == Update(live, TRUE)
<1>1. live \in Live /\ live.micro \in 0 .. 1 /\ live.sched \in Nat /\ live.params \in Nat
  BY DEF TypeInv, Live, SessionAssumption
<1>2. u \in Live /\ u.sched = live.sched /\ u.params = live.params + 1 /\ u.moments
  BY <1>1, UpdateTypes
<1>3. ~(live.micro + 1 < job.accumulation)
  BY <1>1
<1>4. EngineStep(live, TRUE) = EndWindow(u, live.sched + 1)
  BY <1>2, <1>3 DEF EngineStep, EndWindow
<1>5. live.sched + 1 \in 0 .. MaxUpdates
  BY <1>1 DEF SessionAssumption
<1> HIDE DEF u
<1>6. /\ EndWindow(u, live.sched + 1).params = u.params
      /\ EndWindow(u, live.sched + 1).sched = live.sched + 1
      /\ EndWindow(u, live.sched + 1).moments = u.moments
  BY <1>2, <1>5, WindowTypes
<1> QED BY <1>2, <1>4, <1>6

LEMMA DeepSpeedCounts ==
  ASSUME SessionAssumption, TypeInv, CountInv, DeepSpeedStep
  PROVE  CountInv'
<1>1. /\ phase = "loop" /\ live.params < MaxUpdates /\ session.step < 2 * MaxUpdates
      /\ UNCHANGED <<job, phase>> /\ Integration = "deepspeed"
  BY DEF DeepSpeedStep
<1>2. /\ job.target \in {"engine", "pipeline"} /\ ~HooksScheduler
      /\ live \in Live /\ session \in Handle
  BY <1>1, JobTypes DEF TypeInv
<1>3. job.accumulation = 1 /\ ~job.skips
  BY <1>2 DEF CountInv, CountsEveryUpdate
<1>4. /\ live' = EngineStep(live, TRUE)
      /\ IF session.open THEN PostStep(live', session) ELSE Unheard(session)
  BY <1>3 DEF DeepSpeedStep, Outcomes
<1>5. /\ live.sched <= live.params /\ live.params \in Nat /\ live.sched \in Nat
      /\ Late = 0 /\ Late' = 0
  BY <1>1, <1>2 DEF Late, TypeInv, Live
<1>6. /\ live' \in Live /\ live'.params = live.params + 1 /\ live'.sched = live.sched + 1
      /\ live'.moments
  BY <1>1, <1>3, <1>4, <1>5, EngineTypes, EngineExact
<1>7. job.scheduler => live'.sched = live'.params
  BY <1>5, <1>6 DEF CountInv, LiveWhole
<1>8. LiveWhole'
  BY <1>1, <1>5, <1>6, <1>7 DEF LiveWhole
<1>9. session.refs # "params" /\ StoresWhole
  BY DEF CountInv
<1>10. CASE session.open
  <2>1. session.step = live.params
    BY <1>1, <1>2, <1>5, <1>10 DEF CountInv, Hears, Handle
  <2>2. PostStep(live', session) /\ session.step + 1 = live'.params
    BY <1>4, <1>6, <1>10, <2>1
  <2>3. /\ StoresWhole' /\ session'.refs # "params" /\ session'.step = live'.params
    BY <1>1, <1>2, <1>6, <1>7, <1>9, <2>2, HookCounts
  <2>4. session'.step + Late' = live'.params
    BY <1>5, <1>6, <2>3
  <2> QED BY <1>1, <1>2, <1>8, <2>3, <2>4, CountJob DEF CountInv
<1>11. CASE ~session.open
  <2>1. session' = session /\ UNCHANGED stores
    BY <1>4, <1>11 DEF Unheard
  <2>2. StoresWhole' /\ ~Hears'
    BY <1>1, <1>2, <1>9, <1>11, <2>1, StoresKept, JobFacts DEF Hears
  <2> QED BY <1>1, <1>2, <1>8, <1>9, <2>1, <2>2, CountJob DEF CountInv
<1> QED BY <1>10, <1>11

LEMMA MegatronStepCounts ==
  ASSUME SessionAssumption, TypeInv, CountInv, MegatronStep
  PROVE  CountInv'
<1>1. /\ phase = "loop" /\ live.params < MaxUpdates /\ session.step < 2 * MaxUpdates
      /\ job' = job /\ Integration = "megatron"
  BY DEF MegatronStep
<1>2. /\ job.target = "chunks" /\ ~HooksScheduler /\ ~HooksScheduler'
      /\ live \in Live /\ session \in Handle /\ live.params \in Nat /\ live.sched \in Nat
  BY <1>1, JobTypes, JobFacts DEF TypeInv, Live, SessionAssumption
<1>3. /\ job.skips => job.scheduler
      /\ session.refs # "params" /\ StoresWhole
      /\ job.scheduler => live.sched = live.params
      /\ session.open => session.step = live.params
  <2>1. Late = 0 /\ session.step \in Nat
    BY <1>1, <1>2 DEF Late, Handle
  <2> QED BY <1>1, <1>2, <2>1 DEF CountInv, CountsEveryUpdate, LiveWhole, Hears
<1>4. PICK ok \in BOOLEAN :
        /\ ok \/ job.skips
        /\ live' = Update(live, ok)
        /\ phase' = IF ok /\ job.scheduler THEN "sched" ELSE "loop"
        /\ IF ~session.open THEN Unheard(session)
           ELSE IF job.scheduler THEN Unheard([session EXCEPT !.pending = TRUE])
           ELSE PostStep(live', session)
  BY DEF MegatronStep, Outcomes, DefersToScheduler
<1>5. /\ live' \in Live /\ live'.sched = live.sched
      /\ live'.params = IF ok THEN live.params + 1 ELSE live.params
      /\ live'.moments <=> (ok \/ live.moments)
  BY <1>1, <1>2, <1>4, UpdateTypes
<1>6. LiveWhole'
  <2>1. live'.params > 0 => live'.moments
    BY <1>2, <1>5 DEF CountInv, LiveWhole
  <2>2. job.scheduler => live'.sched + Late' = live'.params
    BY <1>2, <1>3, <1>4, <1>5 DEF Late
  <2> QED BY <1>1, <2>1, <2>2 DEF LiveWhole
<1>7. CASE ~session.open
  <2>1. session' = session /\ UNCHANGED stores
    BY <1>4, <1>7 DEF Unheard
  <2>2. StoresWhole' /\ ~Hears'
    BY <1>1, <1>2, <1>3, <1>7, <2>1, StoresKept DEF Hears
  <2> QED BY <1>1, <1>2, <1>3, <1>4, <1>6, <1>7, <2>1, <2>2, CountJob DEF CountInv
<1>8. CASE session.open /\ job.scheduler
  <2>1. session' = [session EXCEPT !.pending = TRUE] /\ UNCHANGED stores
    BY <1>4, <1>8 DEF Unheard
  <2>2. /\ session'.pending /\ session'.refs = session.refs /\ session'.step = session.step
    BY <1>2, <2>1 DEF Handle
  <2>3. StoresWhole'
    BY <1>1, <1>3, <2>1, StoresKept
  <2>4. session'.step + Late' = live'.params
    BY <1>2, <1>3, <1>4, <1>5, <1>8, <2>2 DEF Late
  <2> QED BY <1>1, <1>2, <1>3, <1>4, <1>6, <1>8, <2>2, <2>3, <2>4, CountJob DEF CountInv
<1>9. CASE session.open /\ ~job.scheduler
  <2>1. /\ ok /\ PostStep(live', session) /\ session.step + 1 = live'.params
        /\ live'.moments /\ phase' = "loop"
    BY <1>3, <1>4, <1>5, <1>9
  <2>2. /\ StoresWhole' /\ session'.refs # "params" /\ session'.step = live'.params
    BY <1>1, <1>2, <1>3, <1>5, <1>9, <2>1, HookCounts
  <2>3. session'.step + Late' = live'.params
    BY <1>2, <1>5, <2>1, <2>2 DEF Late
  <2> QED BY <1>1, <1>2, <1>6, <2>1, <2>2, <2>3, CountJob DEF CountInv
<1> QED BY <1>7, <1>8, <1>9

LEMMA OptimizerCounts ==
  ASSUME SessionAssumption, TypeInv, CountInv, FSDPStep \/ WiredStep
  PROVE  CountInv'
<1>1. /\ phase = "loop" /\ live.params < MaxUpdates
      /\ live' = Update(live, TRUE)
      /\ phase' = IF job.scheduler THEN "sched" ELSE "loop"
      /\ IF session.open /\ ~HooksScheduler THEN PostStep(live', session)
         ELSE Unheard(session)
      /\ job' = job
  BY DEF FSDPStep, WiredStep, OptimizerReturns
<1>2. /\ Native /\ job.target # "chunks" /\ HooksScheduler' = HooksScheduler
      /\ HooksScheduler <=> job.target = "trainer"
      /\ live \in Live /\ session \in Handle /\ live.params \in Nat /\ live.sched \in Nat
      /\ session.step \in Nat
  BY <1>1, JobTypes, JobFacts
     DEF FSDPStep, WiredStep, TypeInv, Native, Live, Handle, SessionAssumption
<1>3. /\ HooksScheduler <=> job.scheduler
      /\ session.refs # "params" /\ StoresWhole
      /\ job.scheduler => live.sched = live.params
      /\ Hears => session.step = live.params
  <2>1. Late = 0
    BY <1>1 DEF Late
  <2>2. HooksScheduler <=> job.scheduler
    <3>1. job.scheduler \in BOOLEAN /\ CountsEveryUpdate(job)
      BY JobTypes DEF Job, CountInv
    <3>2. CASE job.target = "trainer"
      BY <1>2, <3>1, <3>2 DEF CountsEveryUpdate
    <3>3. CASE job.target = "module"
      BY <1>2, <3>1, <3>3 DEF CountsEveryUpdate
    <3> QED BY <1>2, <3>2, <3>3 DEF Native
  <2>3. job.scheduler => live.sched = live.params
    BY <1>2, <2>1 DEF CountInv, LiveWhole
  <2>4. Hears => session.step = live.params
    BY <1>1, <1>2, <2>1 DEF CountInv
  <2> QED BY <2>2, <2>3, <2>4 DEF CountInv
<1>4. /\ live' \in Live /\ live'.sched = live.sched /\ live'.params = live.params + 1
      /\ live'.moments
  BY <1>1, <1>2, UpdateTypes
<1>5. LiveWhole'
  <2>1. job.scheduler => live'.sched + Late' = live'.params
    BY <1>1, <1>2, <1>3, <1>4 DEF Late
  <2> QED BY <1>1, <1>4, <2>1 DEF LiveWhole
<1>6. phase' = "sched" => job.scheduler /\ job.target \in {"chunks", "trainer"}
  BY <1>1, <1>2, <1>3
<1>7. CASE session.open /\ ~HooksScheduler
  <2>1. session.step = live.params /\ ~job.scheduler /\ PostStep(live', session)
    BY <1>1, <1>3, <1>7 DEF Hears
  <2>2. /\ session.step + 1 = live'.params /\ session.step < 2 * MaxUpdates
    <3>1. MaxUpdates \in Nat /\ session.step < MaxUpdates
      BY <1>1, <2>1 DEF SessionAssumption
    <3> QED BY <1>2, <1>4, <2>1, <3>1
  <2>3. /\ StoresWhole' /\ session'.refs # "params" /\ session'.step = live'.params
    BY <1>1, <1>2, <1>3, <1>4, <2>1, <2>2, HookCounts
  <2>4. session'.step + Late' = live'.params
    <3>1. Late' = 0
      BY <1>1, <2>1 DEF Late
    <3> QED BY <1>2, <1>4, <2>3, <3>1
  <2> QED BY <1>1, <1>2, <1>5, <1>6, <2>3, <2>4, CountJob DEF CountInv
<1>8. CASE ~(session.open /\ ~HooksScheduler)
  <2>1. session' = session /\ UNCHANGED stores
    BY <1>1, <1>8 DEF Unheard
  <2>2. StoresWhole' /\ (Hears' <=> Hears)
    BY <1>1, <1>2, <1>3, <2>1, StoresKept DEF Hears
  <2>3. Hears' => session'.step + Late' = live'.params
    BY <1>1, <1>2, <1>3, <1>4, <1>8, <2>1, <2>2 DEF Late, Hears
  <2> QED BY <1>1, <1>2, <1>3, <1>5, <1>6, <2>1, <2>2, <2>3, CountJob DEF CountInv
<1> QED BY <1>7, <1>8

(* The scheduler follows: the update it was behind by is one and whole.    *)
LEMMA SchedulerFollows ==
  ASSUME SessionAssumption, TypeInv, CountInv, phase = "sched", phase' = "loop",
         job' = job, live' = [live EXCEPT !.sched = @ + 1]
  PROVE  /\ live' \in Live /\ live'.params = live.params /\ live'.sched = live'.params
         /\ live'.moments /\ live'.params \in Nat /\ live'.params > 0
         /\ job.scheduler
         /\ Hears => session.step + 1 = live'.params /\ session.step < 2 * MaxUpdates
         /\ LiveWhole' /\ Late' = 0
<1>1. live \in Live /\ live.params \in 0 .. MaxUpdates /\ live.sched \in Nat
  BY DEF TypeInv, Live
<1>2. job.scheduler /\ Late = 1 /\ Late' = 0
  BY DEF CountInv, Late
<1>3. live.sched + 1 = live.params
  BY <1>2 DEF CountInv, LiveWhole
<1>4. /\ live' = [live EXCEPT !.sched = live.params]
  BY <1>3
<1>5. /\ live' \in Live /\ live'.params = live.params /\ live'.sched = live.params
      /\ live'.moments = live.moments
  BY <1>1, <1>4 DEF Live
<1>6. live.params \in Nat /\ live.params > 0 /\ live.moments
  BY <1>1, <1>3 DEF CountInv, LiveWhole
<1>7. Hears => session.step + 1 = live.params
  BY <1>2 DEF CountInv
<1>8. Hears => session.step < 2 * MaxUpdates
  <2>1. session.step \in Nat /\ MaxUpdates \in Nat /\ live.params <= MaxUpdates
    BY <1>1 DEF TypeInv, Handle, SessionAssumption
  <2> QED BY <1>6, <1>7, <2>1
<1>9. LiveWhole'
  BY <1>2, <1>5, <1>6 DEF LiveWhole
<1> QED BY <1>2, <1>5, <1>6, <1>7, <1>8, <1>9

LEMMA MegatronSchedulerCounts ==
  ASSUME SessionAssumption, TypeInv, RestInv, CountInv, MegatronScheduler
  PROVE  CountInv'
<1> DEFINE s == [session EXCEPT !.pending = FALSE]
<1>1. /\ phase = "sched" /\ phase' = "loop" /\ job' = job
      /\ live' = [live EXCEPT !.sched = @ + 1] /\ Integration = "megatron"
      /\ IF SchedulerWrapped /\ session.pending THEN PostStep(live', s)
         ELSE Unheard(session)
  BY DEF MegatronScheduler
<1>2. /\ job.target = "chunks" /\ ~HooksScheduler /\ ~HooksScheduler'
      /\ session \in Handle
  BY <1>1, JobTypes, JobFacts DEF TypeInv
<1>3. /\ live' \in Live /\ live'.sched = live'.params /\ live'.moments
      /\ live'.params \in Nat /\ LiveWhole' /\ Late' = 0
      /\ Hears => session.step + 1 = live'.params /\ session.step < 2 * MaxUpdates
  BY <1>1, SchedulerFollows
<1>4. session.refs # "params" /\ StoresWhole /\ (session.open => session.pending)
  BY <1>1, <1>2 DEF CountInv
<1>5. CASE session.open
  <2>1. PostStep(live', s) /\ Hears
    BY <1>1, <1>4, <1>5 DEF SchedulerWrapped, Hears
  <2>2. s \in Handle /\ s.step = session.step /\ s.refs = session.refs
    BY <1>2 DEF Handle
  <2> HIDE DEF s
  <2>3. /\ StoresWhole' /\ session'.refs # "params" /\ session'.step = live'.params
    BY <1>1, <1>3, <1>4, <2>1, <2>2, HookCounts
  <2>4. session'.step + Late' = live'.params
    BY <1>3, <2>3
  <2> QED BY <1>1, <1>3, <2>3, <2>4, CountJob DEF CountInv
<1>6. CASE ~session.open
  <2>1. session' = session /\ UNCHANGED stores
    BY <1>1, <1>6 DEF Unheard, RestInv
  <2>2. StoresWhole' /\ ~Hears'
    BY <1>1, <1>2, <1>4, <1>6, <2>1, StoresKept DEF Hears
  <2> QED BY <1>1, <1>3, <1>4, <2>1, <2>2, CountJob DEF CountInv
<1> QED BY <1>5, <1>6

LEMMA NativeSchedulerCounts ==
  ASSUME SessionAssumption, TypeInv, CountInv, NativeScheduler
  PROVE  CountInv'
<1>1. /\ phase = "sched" /\ phase' = "loop" /\ job' = job
      /\ live' = [live EXCEPT !.sched = @ + 1] /\ Integration \in {"fsdp", "wired"}
      /\ IF HooksScheduler /\ SchedulerWrapped THEN PostStep(live', session)
         ELSE Unheard(session)
  BY DEF NativeScheduler
<1>2. /\ Native /\ job.target = "trainer" /\ HooksScheduler /\ HooksScheduler'
      /\ session \in Handle
  BY <1>1, JobTypes, JobFacts DEF TypeInv, CountInv, Native
<1>3. /\ live' \in Live /\ live'.sched = live'.params /\ live'.moments
      /\ live'.params \in Nat /\ LiveWhole' /\ Late' = 0
      /\ Hears => session.step + 1 = live'.params /\ session.step < 2 * MaxUpdates
  BY <1>1, SchedulerFollows
<1>4. session.refs # "params" /\ StoresWhole /\ (SchedulerWrapped <=> Hears)
  BY <1>2 DEF CountInv, SchedulerWrapped, Hears
<1>5. CASE Hears
  <2>1. PostStep(live', session)
    BY <1>1, <1>2, <1>4, <1>5
  <2>2. /\ StoresWhole' /\ session'.refs # "params" /\ session'.step = live'.params
    BY <1>1, <1>2, <1>3, <1>4, <1>5, <2>1, HookCounts
  <2>3. session'.step + Late' = live'.params
    BY <1>3, <2>2
  <2> QED BY <1>1, <1>3, <2>2, <2>3, CountJob DEF CountInv
<1>6. CASE ~Hears
  <2>1. session' = session /\ UNCHANGED stores
    BY <1>1, <1>4, <1>6 DEF Unheard
  <2>2. StoresWhole' /\ ~Hears'
    BY <1>1, <1>2, <1>4, <1>6, <2>1, StoresKept DEF Hears
  <2> QED BY <1>1, <1>3, <1>4, <2>1, <2>2, CountJob DEF CountInv
<1> QED BY <1>5, <1>6

(* Between two iterations nothing is late. *)
LEMMA BetweenSteps ==
  ASSUME SessionAssumption, TypeInv, CountInv, phase = "loop"
  PROVE  /\ Late = 0 /\ StoresWhole /\ LiveWhole /\ session.refs # "params"
         /\ live.params > 0 => live.moments
         /\ job.scheduler => live.sched = live.params
         /\ Hears => session.step = live.params
<1>1. Late = 0 /\ live.sched \in Nat /\ session.step \in Nat
  BY DEF Late, TypeInv, Live, Handle
<1> QED BY <1>1 DEF CountInv, LiveWhole

LEMMA SaveNowCounts ==
  ASSUME SessionAssumption, TypeInv, CountInv, SaveNow
  PROVE  CountInv'
<1>1. /\ phase = "loop" /\ session.open /\ session.step > 0
      /\ UNCHANGED <<job, phase, live>> /\ ApplyResult(session.step, live, session)
      /\ live \in Live /\ session \in Handle
  BY DEF SaveNow, TypeInv
<1>2. /\ session.step = live.params /\ live.moments /\ session.refs # "params"
      /\ job.scheduler => live.sched = live.params
      /\ Late = 0 /\ StoresWhole /\ LiveWhole
  BY <1>1, BetweenSteps DEF Hears
<1>3. Taken(Captured(live.params, live, "all")) /\ Counted(session, live.params, "all")
  BY <1>1, <1>2, RefsComplete, ResultEffect
<1>4. StoresWhole'
  BY <1>1, <1>2, <1>3, CapturedWhole, TakenWhole
<1>5. Late' = Late /\ LiveWhole'
  BY <1>1, <1>2 DEF Late, LiveWhole
<1>6. session'.refs # "params" /\ session'.step = live'.params
  BY <1>1, <1>2, <1>3 DEF Counted
<1>7. session'.step + Late' = live'.params
  BY <1>1, <1>2, <1>5, <1>6 DEF Live
<1> QED BY <1>1, <1>4, <1>5, <1>6, <1>7, CountJob DEF CountInv

LEMMA FrameworkSaveCounts ==
  ASSUME SessionAssumption, TypeInv, CountInv, FrameworkSave
  PROVE  CountInv'
<1> DEFINE record == Captured(live.params, live, CollectTensors(live))
<1>1. /\ phase = "loop" /\ ~job.durable /\ own' = {record}
      /\ UNCHANGED <<job, phase, live, session, gemini, validated>>
  BY DEF FrameworkSave
<1>2. /\ live.params > 0 => live.moments
      /\ job.scheduler => live.sched = live.params
      /\ StoresWhole
  BY <1>1, BetweenSteps
<1>3. Whole(record)
  BY <1>2 DEF Captured, CollectTensors, Whole
<1>4. StoresWhole'
  <2> HIDE DEF record
  <2> QED BY <1>1, <1>2, <1>3, CountJob DEF StoresWhole
<1>5. LiveWhole' /\ Late' = Late /\ (Hears' <=> Hears)
  BY <1>1 DEF CountInv, LiveWhole, Late, Hears, HooksScheduler
<1> QED BY <1>1, <1>4, <1>5, CountJob DEF CountInv

(* A state that a whole checkpoint was copied into, counted by it.         *)
LEMMA RestoredCounts ==
  ASSUME SessionAssumption, TypeInv, CountInv, job' = job, UNCHANGED stores,
         NEW c \in Sane, Whole(c), live' = Restored(c),
         phase' \in {"load", "loop"},
         session' \in Handle, session'.step = c.params, session'.refs # "params"
  PROVE  CountInv'
<1>1. Late' = 0 /\ c.params \in Nat
  BY DEF Late, Sane, Checkpoint
<1>2. /\ live'.params = c.params /\ live'.sched = c.sched /\ live'.moments = c.moments
  BY DEF Restored
<1>3. LiveWhole'
  <2>1. live'.params > 0 => live'.moments
    BY <1>2 DEF Whole
  <2>2. job.scheduler => live'.sched + Late' = live'.params
    BY <1>1, <1>2 DEF Whole
  <2> QED BY <2>1, <2>2 DEF LiveWhole
<1>4. StoresWhole'
  BY StoresKept DEF CountInv
<1>5. session'.step + Late' = live'.params
  BY <1>1, <1>2
<1> QED BY <1>3, <1>4, <1>5, CountJob DEF CountInv

LEMMA EnableCounts ==
  ASSUME SessionAssumption, TypeInv, CountInv, Enable
  PROVE  CountInv'
<1>1. /\ UNCHANGED <<job, stores>> /\ phase' \in {"load", "loop"}
      /\ Recovers(Opened)
  BY EnableEffect DEF Attached
<1>2. session' \in Handle /\ session'.refs = "none"
  BY <1>1, RecoverTypes
<1>3. Opened \in Handle /\ Opened.step = 0
  BY FreshTypes
<1>4. ASSUME NEW c \in Sane, Whole(c), live' = Restored(c),
             session' = ResumeAt(Opened, c.step) \/ (session' = Opened /\ c.step = 0)
      PROVE  CountInv'
  <2>1. c.step \in 0 .. 2 * MaxUpdates /\ c.step = c.params
    BY <1>4 DEF Sane, Checkpoint, Whole
  <2>2. session'.step = c.params
    BY <1>3, <1>4, <2>1, ResumeTypes
  <2> QED BY <1>1, <1>2, <1>4, <2>2, RestoredCounts
<1>5. \A c \in gemini \cup validated \cup own : c \in Sane
  BY DEF TypeInv, OneOf
<1>6. CASE FromGemini(Opened) \/ FromValidated(Opened)
  <2>1. PICK c \in gemini \cup validated :
          live' = Restored(c) /\ session' = ResumeAt(Opened, c.step)
    BY <1>6 DEF FromGemini, FromValidated
  <2>2. Whole(c)
    BY DEF CountInv, StoresWhole
  <2> QED BY <1>4, <1>5, <2>1, <2>2
<1>7. CASE FromOwn(Opened)
  <2>1. PICK c \in own :
          /\ live' = Restored(c)
          /\ IF Integration # "wired" /\ c.step > 0 THEN session' = ResumeAt(Opened, c.step)
             ELSE session' = Opened
    BY <1>7 DEF FromOwn
  <2>2. ~job.durable /\ job.fallback
    BY <1>7 DEF FromOwn
  <2>3. c \in Sane /\ Whole(c) /\ c.step \in 0 .. 2 * MaxUpdates
    BY <1>5, <2>2 DEF CountInv, StoresWhole, Sane, Checkpoint
  <2>4. Integration # "wired"
    <3>1. CASE job.target \in {"engine", "pipeline"}
      BY <3>1, JobTypes
    <3>2. CASE job.target = "chunks"
      BY <3>2, JobTypes
    <3>3. CASE job.target = "trainer"
      <4>1. job.sharded
        BY <2>2, <3>3 DEF CountInv, CountsEveryUpdate
      <4> QED BY <3>3, <4>1 DEF Integration, SelectFramework
    <3>4. CASE job.target = "module"
      <4>1. job.sharded
        BY <2>2, <3>4 DEF CountInv, CountsEveryUpdate
      <4> QED BY <3>4, <4>1 DEF Integration, SelectFramework
    <3> QED BY <3>1, <3>2, <3>3, <3>4, JobTypes DEF Job
  <2>5. session' = ResumeAt(Opened, c.step) \/ (session' = Opened /\ c.step = 0)
    BY <2>1, <2>3, <2>4 DEF SessionAssumption
  <2> QED BY <1>4, <2>1, <2>3, <2>5
<1>8. CASE FromNothing(Opened)
  <2>1. live' = Fresh /\ session' = Opened
    BY <1>8 DEF FromNothing
  <2>2. Late' = 0 /\ live'.params = 0 /\ live'.sched = 0 /\ session'.step = 0
    BY <1>1, <1>3, <2>1, FreshTypes DEF Late
  <2>3. LiveWhole' /\ StoresWhole'
    BY <1>1, <2>2, StoresKept DEF CountInv, LiveWhole
  <2>4. session'.step + Late' = live'.params
    BY <2>2
  <2> QED BY <1>1, <1>2, <2>3, <2>4, CountJob DEF CountInv
<1> QED BY <1>1, <1>6, <1>7, <1>8 DEF Recovers

LEMMA TrainerLoadCounts ==
  ASSUME SessionAssumption, TypeInv, TrustInv, CountInv, TrainerLoad
  PROVE  CountInv'
<1>1. /\ phase = "load" /\ phase' = "loop" /\ UNCHANGED <<job, stores>>
      /\ \/ UNCHANGED <<live, session>>
         \/ \E c \in own : live' = Restored(c) /\ session' = ResumeAt(session, c.params)
      /\ session \in Handle
  BY DEF TrainerLoad, TypeInv
<1>2. Late = 0 /\ Late' = 0 /\ (Hears' => session'.open \/ (HooksScheduler /\ job.covered))
  BY <1>1, JobFacts DEF Late, Hears
<1>3. CASE UNCHANGED <<live, session>>
  <2>1. LiveWhole' /\ StoresWhole' /\ (Hears' <=> Hears)
    BY <1>1, <1>2, <1>3, StoresKept, JobFacts DEF CountInv, LiveWhole, Hears
  <2> QED BY <1>1, <1>2, <1>3, <2>1, CountJob DEF CountInv
<1>4. ASSUME NEW c \in own, live' = Restored(c), session' = ResumeAt(session, c.params)
      PROVE  CountInv'
  <2>1. ~job.durable
    BY <1>1 DEF TrustInv, LoadsOnlyCertified
  <2>2. c \in Sane /\ Whole(c) /\ c.params \in 0 .. 2 * MaxUpdates
    <3>1. c \in Sane /\ Whole(c)
      BY <2>1 DEF TypeInv, OneOf, CountInv, StoresWhole
    <3> QED BY <3>1 DEF Sane, Checkpoint, SessionAssumption
  <2>3. session' \in Handle /\ session'.step = c.params /\ session'.refs # "params"
    BY <1>1, <1>4, <2>2, ResumeTypes DEF CountInv
  <2> QED BY <1>1, <1>4, <2>2, <2>3, RestoredCounts
<1> QED BY <1>1, <1>3, <1>4

LEMMA TryRecoverCounts ==
  ASSUME SessionAssumption, TypeInv, CountInv, TryRecover
  PROVE  CountInv'
<1>1. PICK c \in gemini : live' = Restored(c) /\ session' = ResumeAt(session, c.step)
  BY DEF TryRecover
<1>2. phase' = "loop" /\ UNCHANGED <<job, stores>> /\ session \in Handle
  BY DEF TryRecover, TypeInv
<1>3. c \in Sane /\ Whole(c) /\ c.step \in 0 .. 2 * MaxUpdates /\ c.step = c.params
  <2>1. c \in Sane /\ Whole(c)
    BY DEF TypeInv, OneOf, CountInv, StoresWhole
  <2> QED BY <2>1 DEF Sane, Checkpoint, Whole
<1>4. session' \in Handle /\ session'.step = c.params /\ session'.refs # "params"
  BY <1>1, <1>2, <1>3, ResumeTypes DEF CountInv
<1> QED BY <1>1, <1>2, <1>3, <1>4, RestoredCounts

LEMMA EndCounts ==
  ASSUME SessionAssumption, TypeInv, CountInv, Close \/ StopJob
  PROVE  CountInv'
<1>1. CASE Close
  <2>1. /\ session' = Closed(session) /\ session \in Handle
        /\ UNCHANGED <<job, phase, live, stores>>
    BY <1>1 DEF Close, TypeInv
  <2>2. /\ session'.open = FALSE /\ session'.step = session.step
        /\ session'.refs = session.refs
    BY <2>1 DEF Closed, Handle
  <2>3. LiveWhole' /\ StoresWhole' /\ Late' = Late /\ (Hears' => Hears)
    BY <2>1, <2>2, StoresKept, JobFacts DEF CountInv, LiveWhole, Late, Hears
  <2> QED BY <2>1, <2>2, <2>3, CountJob DEF CountInv
<1>2. CASE StopJob
  <2>1. /\ phase' = "down" /\ live' = Fresh /\ session' = NoSession
        /\ gemini' \in {gemini, {}} /\ UNCHANGED <<job, own, validated>>
    BY <1>2 DEF StopJob
  <2>2. StoresWhole'
    BY <2>1, CountJob DEF CountInv, StoresWhole
  <2>3. live'.params = 0 /\ live'.sched = 0 /\ Late' = 0 /\ session'.refs = "none"
    BY <2>1, FreshTypes DEF Late
  <2>4. LiveWhole'
    BY <2>1, <2>3 DEF LiveWhole
  <2> QED BY <2>1, <2>2, <2>3, <2>4, CountJob DEF CountInv
<1> QED BY <1>1, <1>2

LEMMA CountStep ==
  SessionAssumption /\ TypeInv /\ RestInv /\ TrustInv /\ CountInv /\ [SessionNext]_sessionVars => CountInv'
<1>1. ASSUME CountInv, UNCHANGED sessionVars PROVE CountInv'
  <2>1. UNCHANGED <<job, phase, live, session, stores>>
    BY <1>1 DEF sessionVars, stores
  <2>2. LiveWhole' /\ StoresWhole' /\ Late' = Late /\ (Hears' <=> Hears)
    BY <1>1, <2>1, StoresKept, JobFacts DEF CountInv, LiveWhole, Late, Hears
  <2> QED BY <1>1, <2>1, <2>2, CountJob DEF CountInv
<1> QED
  BY <1>1, DeepSpeedCounts, MegatronStepCounts, OptimizerCounts, MegatronSchedulerCounts,
     NativeSchedulerCounts, SaveNowCounts, FrameworkSaveCounts, EnableCounts,
     TrainerLoadCounts, TryRecoverCounts, EndCounts DEF SessionNext, Enable

LEMMA CountInit == SessionAssumption /\ SessionInit /\ CountsEveryUpdate(job) => CountInv
<1> SUFFICES ASSUME SessionAssumption, SessionInit, CountsEveryUpdate(job) PROVE CountInv
  OBVIOUS
<1>1. live.params = 0 /\ live.sched = 0 /\ session.refs = "none" /\ Late = 0
  BY FreshTypes DEF SessionInit, Late
<1>2. StoresWhole /\ LiveWhole
  BY <1>1 DEF SessionInit, StoresWhole, LiveWhole
<1> QED BY <1>1, <1>2 DEF SessionInit, CountInv

LEMMA CountsFollow == SessionAssumption /\ TypeInv /\ CountInv => CaptureIsOfItsStep
<1> SUFFICES ASSUME SessionAssumption, TypeInv, CountInv PROVE CaptureIsOfItsStep
  OBVIOUS
<1>1. CoherentCapture
  BY DEF CountInv, StoresWhole, Whole, CoherentCapture
<1>2. CountsUpdates
  BY BetweenSteps DEF CountsUpdates, Hears
<1> QED BY <1>1, <1>2 DEF CaptureIsOfItsStep

-----------------------------------------------------------------------------
(* What is always so.                                                      *)

(***************************************************************************)
(* Whatever the job, every value that the hooks, the wrappers, a recovery  *)
(* and close() write is one the session is declared to hold: a store has   *)
(* at most one checkpoint, and no count or scheduler runs beyond what      *)
(* the updates account for.                                                *)
(***************************************************************************)
THEOREM SessionTypes ==
  ASSUME SessionAssumption
  PROVE  SessionSpec => []SessionTypeOK
<1>1. SessionInit => TypeInv
  BY TypeInit
<1>2. TypeInv /\ [SessionNext]_sessionVars => TypeInv'
  BY TypeStep
<1>3. TypeInv => SessionTypeOK
  BY TypesFollow
<1> QED BY <1>1, <1>2, <1>3, PTL DEF SessionSpec

(* What every job keeps. *)
LEMMA SessionInvariant ==
  ASSUME SessionAssumption
  PROVE  SessionSpec => [](TypeInv /\ RestInv)
<1>1. SessionInit => TypeInv /\ RestInv
  BY TypeInit, RestInit
<1>2. TypeInv /\ RestInv /\ [SessionNext]_sessionVars => (TypeInv /\ RestInv)'
  BY TypeStep, RestStep
<1> QED BY <1>1, <1>2, PTL DEF SessionSpec

(***************************************************************************)
(* Of every job: a process that trains is never behind the checkpoint that *)
(* GEMINI has.  The wrapped checkpointer.load of a Trainer, run after      *)
(* enable_resiliency, loads nothing over what was recovered, and a capture *)
(* is never of more than the process has.                                  *)
(***************************************************************************)
THEOREM NeverBehindGeminiAlways ==
  ASSUME SessionAssumption
  PROVE  SessionSpec => []NeverBehindGemini
<1>1. RestInv => NeverBehindGemini
  BY DEF RestInv, NeverBehindGemini
<1> QED BY <1>1, SessionInvariant, PTL

(***************************************************************************)
(* A job whose Trainer has no durable checkpoint of its own loads GEMINI's *)
(* checkpoint or a validated one and is then behind neither, whatever the  *)
(* crashes, the candidates left by SDC and the framework's own loading.    *)
(***************************************************************************)
THEOREM ResumesWhereTrustedAlways ==
  ASSUME SessionAssumption
  PROVE  SessionSpec /\ LoadsOnlyCertified(job) => []ResumesWhereTrusted
<1>1. SessionInit /\ LoadsOnlyCertified(job) => TrustInv
  BY DEF SessionInit, TrustInv, OnlyValidatedIsLoaded
<1>2. TypeInv /\ TrustInv /\ [SessionNext]_sessionVars => TrustInv'
  BY TrustStep
<1>3. RestInv /\ TrustInv => ResumesWhereTrusted
  BY DEF RestInv, TrustInv, NeverBehindGemini, ResumesWhereTrusted
<1> QED BY <1>1, <1>2, <1>3, SessionInvariant, PTL DEF SessionSpec

(***************************************************************************)
(* In every job in which a call of the hook is one update, what GEMINI and *)
(* the SCOUT manifest keep is of one step: the label, the parameters, the  *)
(* scheduler and the moments agree, and step_count is the number of        *)
(* updates, for every interleaving of the optimizer, the scheduler, the    *)
(* hook, save_now, try_recover, close, crashes and restarts.               *)
(***************************************************************************)
THEOREM CaptureIsOfItsStepAlways ==
  ASSUME SessionAssumption
  PROVE  SessionSpec /\ CountsEveryUpdate(job) => []CaptureIsOfItsStep
<1>1. SessionInit /\ CountsEveryUpdate(job) => TrustInv /\ CountInv
  <2>1. CountsEveryUpdate(job) => LoadsOnlyCertified(job)
    BY DEF CountsEveryUpdate, LoadsOnlyCertified
  <2>2. SessionInit => OnlyValidatedIsLoaded /\ phase # "load"
    BY DEF SessionInit, OnlyValidatedIsLoaded
  <2> QED BY <2>1, <2>2, CountInit DEF TrustInv
<1>2. TypeInv /\ RestInv /\ TrustInv /\ CountInv /\ [SessionNext]_sessionVars => (TrustInv /\ CountInv)'
  BY TrustStep, CountStep
<1>3. TypeInv /\ CountInv => CaptureIsOfItsStep
  BY CountsFollow
<1> QED BY <1>1, <1>2, <1>3, SessionInvariant, PTL DEF SessionSpec

(***************************************************************************)
(* After close() nothing is captured and nothing counted: the wrappers are *)
(* gone or, where a later wrapper keeps Megatron's installed, find no      *)
(* pending step.  The hypothesis excludes a Trainer whose scheduler.step   *)
(* another tool wrapped after the session did: _SchedulerStepHook.remove   *)
(* then leaves its wrapper in place, and the hook has no test of its own.  *)
(***************************************************************************)
THEOREM ClosedIsSilentAlways ==
  ASSUME SessionAssumption
  PROVE  SessionSpec /\ HookComesOff(job) => ClosedIsSilent
<1>1. HookComesOff(job) /\ [SessionNext]_sessionVars => HookComesOff(job)'
  <2>1. [SessionNext]_sessionVars => job' = job
    BY DEF SessionNext, EnableDeepSpeed, EnableMegatron, EnableFSDP, EnableWired, Attached,
           TrainerLoad, TryRecover, DeepSpeedStep, MegatronStep, MegatronScheduler,
           FSDPStep, WiredStep, OptimizerReturns, NativeScheduler, SaveNow,
           FrameworkSave, Close, StopJob, sessionVars
  <2> QED BY <2>1 DEF HookComesOff
<1>2. TypeInv /\ RestInv /\ HookComesOff(job) /\ [SessionNext]_sessionVars
        => [phase # "down" /\ ~session.open
              => gemini' \in {gemini, {}} /\ session'.step \in {session.step, 0}]_sessionVars
  BY ClosedStep
<1> QED BY <1>1, <1>2, SessionInvariant, PTL DEF SessionSpec, ClosedIsSilent

-----------------------------------------------------------------------------
(* The check that a session runs: the replay harness on the ranks of a     *)
(* peer group (ReplayHarness), for any group, catalogue, intervals and     *)
(* replay times.                                                           *)
(*                                                                         *)
(*   HarnessInv  the ranks go on to the same recipes, because evidence of  *)
(*               the optimizer is where the boundary was armed, and        *)
(*               nowhere else;                                             *)
(*   CoverInv    what was replayed and what is left make up what a         *)
(*               certificate has to cover;                                 *)
(*   TaintInv    a wrong value is on record in a round or in a result, if  *)
(*               an exact comparison can name who computed it.             *)
(* What a rank holds of the optimizer boundary.                            *)
OptimizerBoundary == [target : Nat, status : {"idle", "ok", "failed", "not_observed"}]

HarnessTypes ==
  /\ catalog \in {"dense", "dynamic"}
  /\ interval \in [Peers -> Intervals]
  /\ captured \in [Peers -> [Harness!Modules -> Nat]]
  /\ optimizer \in [Peers -> OptimizerBoundary]
  /\ count \in Nat
  /\ "mode" \in DOMAIN check

(* Evidence of the optimizer is there only between a training step and the *)
(* end of the check that follows, and then exactly where the boundary was  *)
(* armed.                                                                  *)
Armed(r) == r \in replaying /\ captured[r]["hidden"] > 0 /\ Harness!ScheduledAt(r, "optimizer", count)

EvidenceInv ==
  check.mode = "none" =>
    \A r \in Peers : Harness!HasEvidence(r) <=> plan[r] = <<"step">> /\ Armed(r)

HarnessInv == HarnessTypes /\ EvidenceInv /\ Harness!LockStep

-----------------------------------------------------------------------------
Recipes == {"embedding", "hidden", "optimizer"}

(* What is left to replay ends in the one comparison of AllToAll.          *)
EndsInAllToAll(todo) ==
  /\ todo \in Seq(Recipes \cup {"shape", "all_to_all"})
  /\ todo # <<>> => todo[Len(todo)] = "all_to_all"
  /\ \A i \in 1 .. Len(todo) - 1 : todo[i] # "all_to_all"

(* A check begins with a replay, and confirms nothing else.                *)
TodoInv ==
  /\ {"todo", "done", "rounds", "position"} \subseteq DOMAIN check
  /\ \A i \in DOMAIN check.done : {"item", "c3", "sdc"} \subseteq DOMAIN check.done[i]
  /\ check.done \in Seq(Range(check.done)) /\ check.rounds \in Seq(Range(check.rounds))
  /\ EndsInAllToAll(check.todo)
  /\ check.done = <<>> => check.todo # <<>> /\ check.todo[1] # "all_to_all"
  /\ check.rounds # <<>> => check.todo # <<>> /\ check.todo[1] \notin {"optimizer", "all_to_all"}

ItemsOf(done) == {done[i].item : i \in DOMAIN done}

(* Dense: what was replayed and what is left are the recipes that are due. *)
DenseInv ==
  /\ "shape" \notin Range(check.todo)
  /\ check.position \in 0 .. Shapes - 1
  /\ "all_to_all" \notin ItemsOf(check.done)
  /\ ItemsOf(check.done) \cup Range(check.todo) \cup {"optimizer", "all_to_all"}
       = Harness!Due(Harness!Source, check.mode = "scheduled", count) \cup {"optimizer", "all_to_all"}

(* Dynamic: the n-th shape after p in the rotation.                        *)
Nth(p, n) == IF p + n < Shapes THEN p + n ELSE p + n - Shapes

SweepInv ==
  /\ check.position \in 0 .. Shapes - 1
  /\ Len(check.done) <= Shapes
  /\ \A i \in DOMAIN check.done : check.done[i].item = Nth(check.position, i - 1)
  /\ position = Nth(check.position, Len(check.done))
  /\ Range(check.todo) \subseteq {"shape", "optimizer", "all_to_all"}
  /\ check.done = <<>> => check.todo[1] = "shape"
  /\ \A i \in DOMAIN check.todo :
       check.todo[i] = "shape" =>
         \/ Len(check.done) + i <= Shapes
         \/ Len(check.done) + i = Shapes + 1 /\ \E j \in 1 .. i - 1 : check.todo[j] = "optimizer"

CoverInv ==
  /\ position \in 0 .. Shapes - 1
  /\ Harness!CertifiedIsCovered
  /\ check.mode # "none" =>
       /\ check.mode \in {"cycle", "scheduled", "emergency"}
       /\ TodoInv
       /\ catalog = "dense" => DenseInv
       /\ catalog = "dynamic" => SweepInv

(* The name under which the comparison of AllToAll joins is still free.    *)
WithoutAllToAll(outcome) ==
  {"c3", "sdc"} \subseteq DOMAIN outcome /\ <<"all_to_all", "output">> \notin DOMAIN outcome.c3

(* A wrong value that was computed is on record. *)
TaintInv ==
  /\ Harness!CertifiedMeansClean
  /\ check.mode # "none" =>
       /\ tainted => \/ \E i \in DOMAIN check.rounds : check.rounds[i].replay.sdc # {}
                     \/ \E i \in DOMAIN check.done : Harness!HasSDC(check.done[i])
       /\ \A i \in DOMAIN check.rounds : WithoutAllToAll(check.rounds[i].replay)
       /\ check.todo # <<>> => \A i \in DOMAIN check.done : WithoutAllToAll(check.done[i])

-----------------------------------------------------------------------------
(* The module names these notions for itself. *)
LEMMA SameNotions ==
  ASSUME NEW S
  PROVE  /\ Harness!IsFiniteSet(S) <=> IsFiniteSet(S)
         /\ Harness!Cardinality(S) = Cardinality(S)
         /\ Harness!Range(S) = Range(S)
<1>1. Harness!IsFiniteSet(S) <=> IsFiniteSet(S)
  BY DEF Harness!IsFiniteSet, IsFiniteSet
<1>2. Harness!Cardinality(S) = Cardinality(S)
  BY <1>1 DEF Harness!Cardinality, Cardinality
<1>3. Harness!Range(S) = Range(S)
  BY DEF Harness!Range, Range
<1>. QED
  BY <1>1, <1>2, <1>3

(* Contracts that agree are the same on every rank. *)
LEMMA AgreedIsSame ==
  ASSUME Harness!HarnessAssumption, NEW contract, contract = [r \in Peers |-> contract[r]],
         Harness!AllAgree(contract), NEW r \in Peers, NEW s \in Peers
  PROVE  contract[r] = contract[s]
<1>1. DOMAIN contract = Peers
  OBVIOUS
<1>2. contract \in Surjection(Peers, Harness!Values(contract))
  <2>1. contract \in [Peers -> Harness!Values(contract)]
    BY <1>1 DEF Harness!Values
  <2>2. \A v \in Harness!Values(contract) : \E q \in Peers : contract[q] = v
    BY <1>1 DEF Harness!Values
  <2>. QED
    BY <2>1, <2>2 DEF Surjection
<1>3. IsFiniteSet(Harness!Values(contract))
  BY <1>2, FS_Surjection, SameNotions DEF Harness!HarnessAssumption
<1>4. PICK v : Harness!Values(contract) = {v}
  BY <1>3, FS_Singleton, SameNotions DEF Harness!AllAgree
<1>. QED
  BY <1>1, <1>4 DEF Harness!Values

(* A sequence of recipes lists exactly the recipes it was made of. *)
LEMMA OrderListsAll ==
  ASSUME NEW recipes
  PROVE  /\ Harness!InOrder(recipes) \in Seq(recipes \cap Recipes)
         /\ Range(Harness!InOrder(recipes)) = recipes \cap Recipes
         /\ \A recipe \in recipes \cap Recipes :
               \E i \in DOMAIN Harness!InOrder(recipes) : Harness!InOrder(recipes)[i] = recipe
         /\ \A i \in DOMAIN Harness!InOrder(recipes) : Harness!InOrder(recipes)[i] \in recipes \cap Recipes
<1>. DEFINE At(recipe) == IF recipe \in recipes THEN <<recipe>> ELSE <<>>
            S == recipes \cap Recipes
            first == At("embedding") \o At("hidden")
            order == first \o At("optimizer")
<1>1. \A recipe \in Recipes : At(recipe) \in Seq(S) /\ Range(At(recipe)) = S \cap {recipe}
  <2>. TAKE recipe \in Recipes
  <2>1. CASE recipe \in recipes
    <3>1. At(recipe) = <<recipe>> /\ recipe \in S
      BY <2>1
    <3>. QED
      BY <3>1 DEF Range
  <2>2. CASE recipe \notin recipes
    <3>1. At(recipe) = <<>>
      BY <2>2
    <3>. QED
      BY <2>2, <3>1 DEF Range
  <2>. QED
    BY <2>1, <2>2
<1>2. Harness!InOrder(recipes) = order
  BY DEF Harness!InOrder
<1>3. order \in Seq(S) /\ Range(order) = S
  <2>. HIDE DEF At
  <2>0. {"embedding", "hidden", "optimizer"} = Recipes
    BY DEF Recipes
  <2>1. first \in Seq(S) /\ Range(first) = S \cap {"embedding", "hidden"}
    BY <1>1, <2>0, ConcatProperties, RangeConcatenation
  <2>2. order \in Seq(S) /\ Range(order) = S \cap {"embedding", "hidden", "optimizer"}
    <3>. HIDE DEF first
    <3>1. At("optimizer") \in Seq(S) /\ Range(At("optimizer")) = S \cap {"optimizer"}
      BY <1>1, <2>0
    <3>2. order \in Seq(S) /\ Range(order) = Range(first) \cup Range(At("optimizer"))
      BY <2>1, <3>1, ConcatProperties, RangeConcatenation
    <3>. QED
      BY <2>1, <3>1, <3>2
  <2>. QED
    BY <2>2, <2>0
<1>. QED
  BY <1>2, <1>3 DEF Range

(* The contracts of a dense check: whoever agrees on them has the same     *)
(* recipes due, and the same of them ready.                                *)
LEMMA AgreedPlans ==
  ASSUME Harness!HarnessAssumption, NEW scheduled, Harness!DenseReady(scheduled), NEW r \in Peers, NEW s \in Peers
  PROVE  Harness!DensePlan(r, scheduled) = Harness!DensePlan(s, scheduled)
<1>. DEFINE Ready(q) == {recipe \in Harness!Due(q, scheduled, count) : Harness!RecipeReady(q, recipe, scheduled)}
            contract == [q \in Peers |-> Harness!DenseContract(q, scheduled)]
<1>1. \A p, q \in Peers : Ready(p) \subseteq Ready(q)
  <2>. SUFFICES ASSUME NEW p \in Peers, NEW q \in Peers, NEW recipe \in Ready(p)
                PROVE  recipe \in Ready(q)
    OBVIOUS
  <2>1. contract[p] = contract[q]
    BY AgreedIsSame DEF Harness!DenseReady
  <2>2. Harness!DenseContract(p, scheduled).recipes = Harness!DenseContract(q, scheduled).recipes
    BY <2>1
  <2>. DEFINE duep == Harness!DueRecipes(p, scheduled, count)
              dueq == Harness!DueRecipes(q, scheduled, count)
  <2>3. recipe \in Harness!Due(p, scheduled, count) \cap Recipes /\ Harness!RecipeReady(p, recipe, scheduled)
    BY DEF Harness!Due, Recipes
  <2>4. PICK i \in DOMAIN duep : duep[i] = recipe
    BY <2>3, OrderListsAll DEF Harness!DueRecipes
  <2>5. /\ Harness!DenseContract(p, scheduled).recipes
             = [j \in DOMAIN duep |-> Harness!RecipeContract(p, duep[j], scheduled)]
        /\ Harness!DenseContract(q, scheduled).recipes
             = [j \in DOMAIN dueq |-> Harness!RecipeContract(q, dueq[j], scheduled)]
    BY DEF Harness!DenseContract
  <2>6. i \in DOMAIN dueq /\ Harness!RecipeContract(p, recipe, scheduled) = Harness!RecipeContract(q, dueq[i], scheduled)
    <3>. HIDE DEF duep, dueq
    <3>. QED
      BY <2>2, <2>4, <2>5, ZenonT(30)
  <2>7. dueq[i] = recipe /\ Harness!RecipeReady(q, recipe, scheduled)
    BY <2>3, <2>6 DEF Harness!RecipeContract
  <2>8. recipe \in Harness!Due(q, scheduled, count)
    BY <2>6, <2>7, OrderListsAll DEF Harness!DueRecipes
  <2>. QED
    BY <2>7, <2>8
<1>2. Ready(r) = Ready(s)
  BY <1>1
<1>. QED
  BY <1>2 DEF Harness!DensePlan

-----------------------------------------------------------------------------
(* The intervals agree, so what depends on a rank only through its         *)
(* interval is the same everywhere.                                        *)
LEMMA SameSchedule ==
  ASSUME Harness!HarnessAssumption, HarnessTypes, Harness!ScheduleReady, NEW r \in Peers, NEW s \in Peers
  PROVE  /\ Harness!DueRecipes(r, TRUE, count) = Harness!DueRecipes(s, TRUE, count)
         /\ Harness!ScheduledAt(r, "optimizer", count) <=> Harness!ScheduledAt(s, "optimizer", count)
<1>1. interval[r] = interval[s]
  BY AgreedIsSame DEF HarnessTypes, Harness!ScheduleReady
<1>. QED
  BY <1>1 DEF Harness!DueRecipes, Harness!Due, Harness!ScheduledAt, Harness!IntervalOf

(* A sweep replays the optimizer on every rank or on none. *)
LEMMA SweepAgrees ==
  ASSUME HarnessTypes, NEW shapes, NEW r \in Peers, NEW s \in Peers, Harness!HasEvidence(r) <=> Harness!HasEvidence(s)
  PROVE  Harness!SweepPlan(r, shapes) = Harness!SweepPlan(s, shapes)
BY DEF Harness!SweepPlan

(* The end of a check, or of a step without one, uses the evidence up. *)
LEMMA ConsumedIsIdle ==
  ASSUME HarnessTypes
  PROVE  Harness!Consumed \in [Peers -> OptimizerBoundary] /\ \A r \in Peers : Harness!Consumed[r].status = "idle"
BY DEF HarnessTypes, Harness!Consumed, OptimizerBoundary

-----------------------------------------------------------------------------
LEMMA TrainLockStep ==
  ASSUME Harness!HarnessAssumption, HarnessInv, Harness!TrainStep
  PROVE  HarnessInv'
<1>. USE DEF HarnessInv
<1>1. PICK skipping \in {{}, {Harness!Source}}, calls \in 0 .. MaxInvocations, fails \in BOOLEAN :
        /\ captured' = [r \in Peers |-> IF r \in skipping THEN captured[r]
                                        ELSE [m \in Harness!Modules |-> count + 1]]
        /\ optimizer' = [r \in Peers |->
                           IF /\ r \in replaying /\ captured'[r]["hidden"] > 0
                              /\ Harness!ScheduledAt(r, "optimizer", count + 1)
                           THEN Harness!Observe(optimizer[r], calls, fails /\ r = Harness!Source)
                           ELSE optimizer[r]]
  BY DEF Harness!TrainStep
<1>2. /\ count' = count + 1 /\ count \in Nat
      /\ plan' = [r \in Peers |-> <<"step">>]
      /\ check.mode = "none" /\ check' = check
      /\ catalog' = catalog /\ interval' = interval /\ replaying' = replaying
      /\ \A r \in Peers : plan[r] = <<>>
  BY DEF Harness!TrainStep, Harness!sampling, HarnessTypes
<1>3. \A r \in Peers : optimizer[r] \in OptimizerBoundary /\ ~Harness!HasEvidence(r)
  <2>1. \A r \in Peers : plan[r] # <<"step">>
    BY <1>2, SMTT(30)
  <2>. QED
    BY <1>2, <2>1 DEF EvidenceInv, HarnessTypes
<1>4. \A r \in Peers, late \in BOOLEAN :
        /\ Harness!Observe(optimizer[r], calls, late) \in OptimizerBoundary
        /\ Harness!Observe(optimizer[r], calls, late).status # "idle"
  BY <1>3 DEF Harness!Observe, OptimizerBoundary
<1>5. captured' \in [Peers -> [Harness!Modules -> Nat]]
  BY <1>1, <1>2 DEF HarnessTypes
<1>6. optimizer' \in [Peers -> OptimizerBoundary]
  BY <1>1, <1>3, <1>4
<1>7. \A r \in Peers : Harness!HasEvidence(r)' <=> Armed(r)'
  BY <1>1, <1>2, <1>3, <1>4 DEF Harness!HasEvidence, Armed, Harness!ScheduledAt, Harness!IntervalOf
<1>. QED
  BY <1>2, <1>5, <1>6, <1>7 DEF HarnessTypes, EvidenceInv, Harness!LockStep

(* step() enters a replay on every rank or on none. *)
LEMMA ReturnLockStep ==
  ASSUME HarnessInv, NEW outcome, NEW waiting, waiting = {} \/ waiting = Peers,
         Harness!Return(outcome, waiting), check.mode = "none",
         UNCHANGED <<Harness!sampling, count, captured, Harness!schedule>>
  PROVE  HarnessInv'
<1>1. /\ plan' = [r \in Peers |-> IF r \in waiting THEN <<"readiness">> ELSE <<>>]
      /\ optimizer' = Harness!Consumed /\ check' = check
  BY DEF Harness!Return
<1>2. \A r \in Peers : plan'[r] # <<"step">> /\ ~Harness!HasEvidence(r)'
  BY <1>1, ConsumedIsIdle DEF Harness!HasEvidence, HarnessInv
<1>3. HarnessTypes'
  BY <1>1, ConsumedIsIdle DEF HarnessInv, HarnessTypes, Harness!sampling
<1>4. EvidenceInv'
  BY <1>2 DEF EvidenceInv
<1>5. Harness!LockStep'
  BY <1>1 DEF Harness!LockStep
<1>. QED
  BY <1>3, <1>4, <1>5 DEF HarnessInv

LEMMA BeginLockStep ==
  ASSUME HarnessInv, NEW mode \in {"cycle", "scheduled", "emergency"}, NEW plans,
         plans = [r \in Peers |-> plans[r]],
         Harness!OptimizersAlike => \A r, s \in Peers : plans[r] = plans[s],
         Harness!Begin(mode, plans), UNCHANGED <<Harness!sampling, count, captured, Harness!schedule>>
  PROVE  HarnessInv'
<1>1. /\ plan' = plans /\ optimizer' = optimizer
      /\ check'.mode = mode /\ "mode" \in DOMAIN check'
  BY DEF Harness!Begin, Harness!NoCheck
<1>2. HarnessTypes'
  BY <1>1 DEF HarnessInv, HarnessTypes, Harness!sampling
<1>. QED
  BY <1>1, <1>2 DEF HarnessInv, EvidenceInv, Harness!LockStep, Harness!OptimizersAlike, Harness!sampling

LEMMA StepLockStep ==
  ASSUME Harness!HarnessAssumption, HarnessInv, NEW complete \in BOOLEAN, Harness!Step(complete)
  PROVE  HarnessInv'
<1>. DEFINE mode == IF complete THEN "cycle" ELSE "scheduled"
            due == {r \in Peers : Harness!DueRecipes(r, TRUE, count) # <<>>}
            plans == [r \in Peers |->
                        IF catalog = "dense" THEN Harness!DensePlan(r, ~complete)
                        ELSE Harness!SweepPlan(r, IF complete THEN Shapes ELSE 1)]
            ready == IF catalog = "dense" THEN Harness!DenseReady(~complete) ELSE Harness!DynamicReady
<1>1. /\ check.mode = "none" /\ \A r \in Peers : plan[r] = <<"step">>
      /\ UNCHANGED <<Harness!sampling, count, captured, Harness!schedule>>
      /\ IF ~Harness!ScheduleReady THEN Harness!Return(Harness!Incomplete, {})
         ELSE IF due # Peers THEN Harness!Return(Harness!NoResult, due)
         ELSE IF ready THEN Harness!Begin(mode, plans) ELSE Harness!Return(Harness!Incomplete, {})
  BY DEF Harness!Step
<1>2. CASE Harness!Return(Harness!Incomplete, {})
  BY <1>1, <1>2, ReturnLockStep
<1>3. CASE Harness!ScheduleReady /\ due # Peers /\ Harness!Return(Harness!NoResult, due)
  <2>1. due = {}
    <3>1. \A r, s \in Peers : r \in due => s \in due
      <4>. SUFFICES ASSUME NEW r \in Peers, NEW s \in Peers
                    PROVE  Harness!DueRecipes(r, TRUE, count) = Harness!DueRecipes(s, TRUE, count)
        OBVIOUS
      <4>1. HarnessTypes /\ Harness!ScheduleReady
        BY <1>3 DEF HarnessInv
      <4>. QED
        BY <4>1, SameSchedule
    <3>2. due \subseteq Peers
      OBVIOUS
    <3>. HIDE DEF due
    <3>. QED
      BY <1>3, <3>1, <3>2
  <2>. QED
    BY <1>1, <1>3, <2>1, ReturnLockStep
<1>4. CASE Harness!ScheduleReady /\ ready /\ Harness!Begin(mode, plans)
  <2>1. Harness!OptimizersAlike => \A r, s \in Peers : plans[r] = plans[s]
    <3>. SUFFICES ASSUME Harness!OptimizersAlike, NEW r \in Peers, NEW s \in Peers
                  PROVE  plans[r] = plans[s]
      OBVIOUS
    <3>1. CASE catalog = "dense"
      BY <1>4, <3>1, AgreedPlans
    <3>2. CASE catalog = "dynamic"
      <4>1. Harness!DynamicContract(r) = Harness!DynamicContract(s)
        <5>. DEFINE contract == [q \in Peers |-> Harness!DynamicContract(q)]
        <5>1. contract[r] = contract[s]
          BY <1>4, <3>2, AgreedIsSame DEF Harness!DynamicReady
        <5>. QED
          BY <5>1
      <4>2. captured[r]["hidden"] = captured[s]["hidden"]
        BY <4>1 DEF Harness!DynamicContract
      <4>3. r \in replaying <=> s \in replaying
        BY <3>2 DEF Harness!OptimizersAlike
      <4>4. Harness!ScheduledAt(r, "optimizer", count) <=> Harness!ScheduledAt(s, "optimizer", count)
        BY <1>4, SameSchedule DEF HarnessInv
      <4>5. Harness!HasEvidence(r) <=> Harness!HasEvidence(s)
        BY <1>1, <4>2, <4>3, <4>4 DEF HarnessInv, EvidenceInv, Armed
      <4>6. \A shapes : Harness!SweepPlan(r, shapes) = Harness!SweepPlan(s, shapes)
        BY <4>5, SweepAgrees DEF HarnessInv
      <4>. QED
        BY <3>2, <4>6
    <3>. QED
      BY <3>1, <3>2 DEF HarnessInv, HarnessTypes
  <2>2. mode \in {"cycle", "scheduled", "emergency"}
    OBVIOUS
  <2>3. plans = [r \in Peers |-> plans[r]]
    OBVIOUS
  <2>. HIDE DEF plans, mode
  <2>. QED
    BY <1>1, <1>4, <2>1, <2>2, <2>3, BeginLockStep
<1>. QED
  BY <1>1, <1>2, <1>3, <1>4

LEMMA EmergencyLockStep ==
  ASSUME Harness!HarnessAssumption, HarnessInv, Harness!EmergencyCheck
  PROVE  HarnessInv'
<1>1. /\ check.mode = "none" /\ \A r \in Peers : plan[r] = <<>>
      /\ UNCHANGED <<Harness!sampling, count, captured, Harness!schedule>>
  BY DEF Harness!EmergencyCheck
<1>. DEFINE sweep == [r \in Peers |-> Harness!SweepPlan(r, Shapes)]
            dense == [r \in Peers |-> Harness!DensePlan(r, FALSE)]
<1>2. CASE catalog = "dynamic" /\ Harness!Begin("emergency", sweep)
  <2>1. \A r \in Peers : ~Harness!HasEvidence(r)
    BY <1>1 DEF HarnessInv, EvidenceInv
  <2>2. \A r, s \in Peers : sweep[r] = sweep[s]
    BY <2>1, SweepAgrees DEF HarnessInv
  <2>3. sweep = [r \in Peers |-> sweep[r]]
    OBVIOUS
  <2>. HIDE DEF sweep
  <2>. QED
    BY <1>1, <1>2, <2>2, <2>3, BeginLockStep
<1>3. CASE Harness!DenseReady(FALSE) /\ Harness!Begin("emergency", dense)
  <2>1. \A r, s \in Peers : dense[r] = dense[s]
    BY <1>3, AgreedPlans
  <2>2. dense = [r \in Peers |-> dense[r]]
    OBVIOUS
  <2>. HIDE DEF dense
  <2>. QED
    BY <1>1, <1>3, <2>1, <2>2, BeginLockStep
<1>4. CASE Harness!Return([Harness!Incomplete EXCEPT !.kind = "emergency"], {})
  BY <1>1, <1>4, ReturnLockStep
<1>. QED
  BY <1>2, <1>3, <1>4 DEF Harness!EmergencyCheck

(* While a check runs the plans stay, and its end clears them. *)
LEMMA CheckLockStep ==
  ASSUME HarnessInv, Harness!Replay \/ Harness!ReplayOptimizer \/ Harness!ReplayAllToAll
  PROVE  HarnessInv'
<1>1. check.mode # "none" /\ UNCHANGED <<Harness!sampling, count, captured, plan>>
  BY DEF Harness!Replay, Harness!ReplayOptimizer, Harness!ReplayAllToAll, Harness!Compare
<1>2. check'.mode = check.mode /\ "mode" \in DOMAIN check'
  <2>0. "mode" \in DOMAIN check
    BY DEF HarnessInv, HarnessTypes
  <2>1. CASE Harness!Replay
    <3>1. PICK wrong \in Corruptions, times \in TimeVectors : Harness!Replayed(wrong, times)
      BY <2>1 DEF Harness!Replay
    <3>. QED
      BY <2>0, <3>1 DEF Harness!Replayed
  <2>2. CASE Harness!ReplayOptimizer \/ Harness!ReplayAllToAll
    <3>1. PICK wrong, prefix, c3 : Harness!Compare(wrong, prefix, c3)
      BY <2>2 DEF Harness!ReplayOptimizer, Harness!ReplayAllToAll
    <3>. QED
      BY <2>0, <3>1 DEF Harness!Compare
  <2>. QED
    BY <2>1, <2>2
<1>3. optimizer' = optimizer \/ optimizer' = Harness!Consumed
  BY DEF Harness!Replay, Harness!ReplayOptimizer, Harness!ReplayAllToAll
<1>4. HarnessTypes'
  BY <1>1, <1>2, <1>3, ConsumedIsIdle DEF HarnessInv, HarnessTypes, Harness!sampling
<1>. QED
  BY <1>1, <1>2, <1>4 DEF HarnessInv, EvidenceInv, Harness!LockStep, Harness!OptimizersAlike, Harness!sampling

LEMMA FinishLockStep ==
  ASSUME HarnessInv, Harness!Finish
  PROVE  HarnessInv'
<1>1. /\ check' = Harness!NoCheck /\ plan' = [r \in Peers |-> <<>>] /\ optimizer' = Harness!Consumed
      /\ UNCHANGED <<Harness!sampling, count>>
  BY DEF Harness!Finish
<1>2. \/ captured' = captured
      \/ captured' = [r \in Peers |-> [captured[r] EXCEPT !["hidden"] = 0]]
  BY DEF Harness!Finish
<1>3. captured' \in [Peers -> [Harness!Modules -> Nat]]
  BY <1>2 DEF HarnessInv, HarnessTypes
<1>4. HarnessTypes'
  BY <1>1, <1>3, ConsumedIsIdle DEF HarnessInv, HarnessTypes, Harness!sampling, Harness!NoCheck
<1>5. \A r \in Peers : plan'[r] # <<"step">> /\ ~Harness!HasEvidence(r)'
  BY <1>1, ConsumedIsIdle DEF Harness!HasEvidence, HarnessInv
<1>. QED
  BY <1>1, <1>4, <1>5 DEF HarnessInv, EvidenceInv, Harness!LockStep

LEMMA HarnessInit == Harness!HarnessAssumption /\ Harness!Init => HarnessInv
<1>. SUFFICES ASSUME Harness!HarnessAssumption, Harness!Init PROVE HarnessInv
  OBVIOUS
<1>1. optimizer = [r \in Peers |-> Harness!Unarmed] /\ plan = [r \in Peers |-> <<>>] /\ check = Harness!NoCheck
  BY DEF Harness!Init
<1>2. HarnessTypes
  <2>1. optimizer \in [Peers -> OptimizerBoundary]
    BY <1>1 DEF Harness!Unarmed, OptimizerBoundary
  <2>2. captured \in [Peers -> [Harness!Modules -> Nat]] /\ interval \in [Peers -> Intervals] /\ count \in Nat
    BY DEF Harness!Init
  <2>3. catalog \in {"dense", "dynamic"}
    BY DEF Harness!Init, Harness!HarnessAssumption
  <2>4. "mode" \in DOMAIN check
    BY <1>1 DEF Harness!NoCheck
  <2>. QED
    BY <2>1, <2>2, <2>3, <2>4 DEF HarnessTypes
<1>. QED
  BY <1>1, <1>2 DEF HarnessInv, EvidenceInv, Harness!LockStep, Harness!HasEvidence, Harness!Unarmed

LEMMA HarnessStep == Harness!HarnessAssumption /\ HarnessInv /\ [Harness!Next]_(Harness!vars) => HarnessInv'
<1>. SUFFICES ASSUME Harness!HarnessAssumption, HarnessInv, [Harness!Next]_(Harness!vars) PROVE HarnessInv'
  OBVIOUS
<1>1. CASE UNCHANGED Harness!vars
  BY <1>1 DEF Harness!vars, Harness!sampling, HarnessInv, HarnessTypes, EvidenceInv, Harness!LockStep, Harness!OptimizersAlike, Harness!HasEvidence,
              Armed, Harness!ScheduledAt, Harness!IntervalOf
<1>. QED
  BY <1>1, TrainLockStep, StepLockStep, EmergencyLockStep, CheckLockStep, FinishLockStep DEF Harness!Next

(* The ranks of a peer group go on to execute the same recipes. *)
THEOREM LockStepAlways ==
  ASSUME Harness!HarnessAssumption
  PROVE  Harness!Spec => []LockStep
<1>1. HarnessInv => LockStep
  BY DEF HarnessInv, LockStep
<1>. QED
  BY HarnessInit, HarnessStep, <1>1, PTL DEF Harness!Spec

(* What Append makes of a sequence whose elements are of no one type. *)
LEMMA AppendedSeq ==
  ASSUME NEW seq, seq \in Seq(Range(seq)), NEW x
  PROVE  /\ Append(seq, x) \in Seq(Range(Append(seq, x)))
         /\ Len(seq) \in Nat /\ DOMAIN seq = 1 .. Len(seq)
         /\ DOMAIN Append(seq, x) = 1 .. Len(seq) + 1
         /\ Len(Append(seq, x)) = Len(seq) + 1
         /\ \A i \in 1 .. Len(seq) : Append(seq, x)[i] = seq[i]
         /\ Append(seq, x)[Len(seq) + 1] = x
<1>. DEFINE S == Range(seq) \cup {x}
<1>1. seq \in Seq(S)
  <2>1. Len(seq) \in Nat /\ seq \in [1 .. Len(seq) -> Range(seq)]
    OBVIOUS
  <2>2. seq \in [1 .. Len(seq) -> S]
    BY <2>1
  <2>. HIDE DEF S
  <2>. QED
    BY <2>1, <2>2
<1>2. x \in S
  OBVIOUS
<1>. HIDE DEF S
<1>3. /\ Append(seq, x) \in Seq(S) /\ Len(Append(seq, x)) = Len(seq) + 1
      /\ \A i \in 1 .. Len(seq) : Append(seq, x)[i] = seq[i]
      /\ Append(seq, x)[Len(seq) + 1] = x
  BY <1>1, <1>2, AppendProperties
<1>4. Append(seq, x) \in Seq(Range(Append(seq, x)))
  BY <1>3, SeqOfRange
<1>. QED
  BY <1>1, <1>3, <1>4

(* What is left once a replay or a comparison is done with. *)
LEMMA RestLeft ==
  ASSUME NEW todo, EndsInAllToAll(todo), todo # <<>>, todo[1] # "all_to_all", NEW done
  PROVE  /\ EndsInAllToAll(Harness!Rest(todo, done)) /\ Harness!Rest(todo, done) # <<>>
         /\ Len(Tail(todo)) = Len(todo) - 1 /\ Len(todo) \in Nat \ {0, 1}
         /\ \A i \in 1 .. Len(todo) - 1 : Tail(todo)[i] = todo[i + 1]
         /\ Range(todo) = {todo[1]} \cup Range(Tail(todo))
         /\ \/ Harness!Rest(todo, done) = Tail(todo)
            \/ Harness!Rest(todo, done) = <<"all_to_all">> /\ todo[2] = "shape"
<1>. DEFINE S == Recipes \cup {"shape", "all_to_all"}
<1>1. todo \in Seq(S) /\ Len(todo) \in Nat
  BY DEF EndsInAllToAll
<1>2. Len(todo) \in Nat \ {0, 1}
  <2>1. Len(todo) # 0
    BY <1>1
  <2>2. Len(todo) # 1
    BY DEF EndsInAllToAll
  <2>. QED
    BY <1>1, <2>1, <2>2
<1>3. /\ Tail(todo) \in Seq(S) /\ Len(Tail(todo)) = Len(todo) - 1
      /\ \A i \in 1 .. Len(todo) - 1 : Tail(todo)[i] = todo[i + 1]
  BY <1>1, HeadTailProperties
<1>4. EndsInAllToAll(Tail(todo)) /\ Tail(todo) # <<>>
  <2>. DEFINE tail == Tail(todo)
  <2>1. tail \in Seq(S) /\ Len(tail) = Len(todo) - 1 /\ Len(todo) - 1 \in Nat \ {0}
    BY <1>2, <1>3
  <2>2. tail[Len(todo) - 1] = todo[Len(todo)]
    BY <1>2, <1>3
  <2>3. \A i \in 1 .. Len(todo) - 2 : tail[i] = todo[i + 1] /\ i + 1 \in 1 .. Len(todo) - 1
    BY <1>2, <1>3
  <2>4. /\ todo[Len(todo)] = "all_to_all"
        /\ \A i \in 1 .. Len(todo) - 1 : todo[i] # "all_to_all"
    BY DEF EndsInAllToAll
  <2>. HIDE DEF tail
  <2>5. /\ tail[Len(tail)] = "all_to_all" /\ tail # <<>>
        /\ \A i \in 1 .. Len(tail) - 1 : tail[i] # "all_to_all"
    BY <2>1, <2>2, <2>3, <2>4
  <2>6. EndsInAllToAll(tail) /\ tail # <<>>
    BY <2>1, <2>5 DEF EndsInAllToAll
  <2>. QED
    BY <2>6 DEF tail
<1>5. EndsInAllToAll(<<"all_to_all">>)
  BY DEF EndsInAllToAll
<1>6. Range(todo) = {todo[1]} \cup Range(Tail(todo))
  <2>1. DOMAIN todo = 1 .. Len(todo) /\ DOMAIN Tail(todo) = 1 .. Len(todo) - 1
    BY <1>1, <1>3
  <2>2. \A i \in 2 .. Len(todo) : i - 1 \in 1 .. Len(todo) - 1 /\ todo[i] = Tail(todo)[i - 1]
    BY <1>2, <1>3
  <2>3. \A i \in DOMAIN todo : todo[i] \in {todo[1]} \cup Range(Tail(todo))
    <3>. TAKE i \in DOMAIN todo
    <3>1. CASE i = 1
      BY <3>1
    <3>2. CASE i \in 2 .. Len(todo)
      BY <2>1, <2>2, <3>2 DEF Range
    <3>. QED
      BY <1>2, <2>1, <3>1, <3>2
  <2>4. \A i \in DOMAIN Tail(todo) : Tail(todo)[i] \in Range(todo)
    BY <1>2, <1>3, <2>1 DEF Range
  <2>5. todo[1] \in Range(todo)
    BY <1>2, <2>1 DEF Range
  <2>. QED
    BY <2>3, <2>4, <2>5 DEF Range
<1>. QED
  BY <1>2, <1>3, <1>4, <1>5, <1>6 DEF Harness!Rest

(* The plan of a sweep: the optimizer is the second entry, if any, and the *)
(* shapes are as many as are asked for.                                    *)
LEMMA SweepStarts ==
  ASSUME NEW r, NEW shapes \in Nat \ {0}
  PROVE  LET todo == Harness!SweepPlan(r, shapes)
         IN  /\ EndsInAllToAll(todo) /\ todo # <<>> /\ todo[1] = "shape"
             /\ Range(todo) \subseteq {"shape", "optimizer", "all_to_all"}
             /\ \A i \in DOMAIN todo : todo[i] = "shape" =>
                  \/ i <= shapes
                  \/ i = shapes + 1 /\ \E j \in 1 .. i - 1 : todo[j] = "optimizer"
<1>. DEFINE W == {"shape", "optimizer", "all_to_all"}
            boundary == IF Harness!HasEvidence(r) THEN <<"optimizer">> ELSE <<>>
            others == [i \in 1 .. (shapes - 1) |-> "shape"]
            first == <<"shape">> \o boundary
            second == first \o others
            todo == second \o <<"all_to_all">>
            extra == IF Harness!HasEvidence(r) THEN 1 ELSE 0
<1>1. boundary \in Seq(W) /\ Len(boundary) = extra /\ (extra = 1 => boundary[1] = "optimizer")
  <2>1. CASE Harness!HasEvidence(r)
    <3>1. boundary = <<"optimizer">> /\ extra = 1
      BY <2>1
    <3>. HIDE DEF boundary, extra
    <3>. QED
      BY <3>1
  <2>2. CASE ~Harness!HasEvidence(r)
    <3>1. boundary = <<>> /\ extra = 0
      BY <2>2
    <3>. HIDE DEF boundary, extra
    <3>. QED
      BY <3>1
  <2>. QED
    BY <2>1, <2>2
<1>2. /\ first \in Seq(W) /\ Len(first) = 1 + extra
      /\ first[1] = "shape" /\ (extra = 1 => first[2] = "optimizer")
  <2>. HIDE DEF boundary, extra
  <2>1. extra \in {0, 1}
    BY DEF extra
  <2>2. <<"shape">> \in Seq(W) /\ Len(<<"shape">>) = 1 /\ <<"shape">>[1] = "shape"
    OBVIOUS
  <2>. QED
    BY <1>1, <2>1, <2>2, ConcatProperties
<1>3. /\ others \in Seq(W) /\ Len(others) = shapes - 1
      /\ \A i \in 1 .. shapes - 1 : others[i] = "shape"
  OBVIOUS
<1>4. extra \in {0, 1}
  OBVIOUS
<1>5. /\ second \in Seq(W) /\ Len(second) = shapes + extra
      /\ second[1] = "shape" /\ (extra = 1 => second[2] = "optimizer")
      /\ \A i \in 2 + extra .. shapes + extra : second[i] = "shape"
  <2>. HIDE DEF first, others, extra
  <2>1. /\ second \in Seq(W) /\ Len(second) = Len(first) + Len(others)
        /\ \A i \in 1 .. Len(first) + Len(others) : second[i] =
             IF i <= Len(first) THEN first[i] ELSE others[i - Len(first)]
    BY <1>2, <1>3, ConcatProperties, ZenonT(30)
  <2>. HIDE DEF second
  <2>2. \A i \in 2 + extra .. shapes + extra : i - Len(first) \in 1 .. shapes - 1
    BY <1>2, <1>4
  <2>. QED
    BY <1>2, <1>3, <1>4, <2>1, <2>2, SMTT(30)
<1>6. /\ todo \in Seq(W) /\ Len(todo) = shapes + extra + 1
      /\ \A i \in 1 .. shapes + extra : todo[i] = second[i]
      /\ todo[shapes + extra + 1] = "all_to_all"
  <2>. HIDE DEF second, extra
  <2>1. <<"all_to_all">> \in Seq(W) /\ Len(<<"all_to_all">>) = 1 /\ <<"all_to_all">>[1] = "all_to_all"
    OBVIOUS
  <2>2. /\ todo \in Seq(W) /\ Len(todo) = Len(second) + 1
        /\ \A i \in 1 .. Len(second) + 1 : todo[i] =
             IF i <= Len(second) THEN second[i] ELSE <<"all_to_all">>[i - Len(second)]
    BY <1>5, <2>1, ConcatProperties
  <2>. HIDE DEF todo
  <2>. QED
    BY <1>4, <1>5, <2>1, <2>2
<1>7. todo = Harness!SweepPlan(r, shapes)
  BY DEF Harness!SweepPlan
<1>. HIDE DEF todo, second, extra
<1>8. \A i \in 1 .. shapes + extra : todo[i] \in {"shape", "optimizer"} /\ (todo[i] = "optimizer" <=> i = 2 /\ extra = 1)
  <2>. TAKE i \in 1 .. shapes + extra
  <2>1. CASE i \in 2 + extra .. shapes + extra
    BY <1>4, <1>5, <1>6, <2>1
  <2>2. CASE i = 1 \/ (i = 2 /\ extra = 1)
    BY <1>4, <1>5, <1>6, <2>2
  <2>. QED
    BY <1>4, <2>1, <2>2
<1>9. DOMAIN todo = 1 .. shapes + extra + 1
  BY <1>6
<1>10. EndsInAllToAll(todo) /\ todo # <<>>
  <2>1. todo \in Seq(Recipes \cup {"shape", "all_to_all"})
    <3>1. W \subseteq Recipes \cup {"shape", "all_to_all"}
      BY DEF Recipes
    <3>. QED
      BY <1>6, <3>1
  <2>. QED
    BY <1>4, <1>6, <1>8, <2>1 DEF EndsInAllToAll
<1>11. todo[1] = "shape" /\ Range(todo) \subseteq W
  BY <1>4, <1>5, <1>6 DEF Range
<1>12. \A i \in DOMAIN todo : todo[i] = "shape" =>
         i <= shapes \/ (i = shapes + 1 /\ \E j \in 1 .. i - 1 : todo[j] = "optimizer")
  <2>. SUFFICES ASSUME NEW i \in DOMAIN todo, todo[i] = "shape", ~(i <= shapes)
                PROVE  i = shapes + 1 /\ \E j \in 1 .. i - 1 : todo[j] = "optimizer"
    OBVIOUS
  <2>1. i = shapes + 1 /\ extra = 1
    BY <1>4, <1>6, <1>9
  <2>2. shapes + 1 \in Nat /\ 2 \in 1 .. shapes + extra
    BY <2>1
  <2>3. i # 2
    BY <1>8, <2>1, <2>2
  <2>4. 2 \in 1 .. i - 1 /\ todo[2] = "optimizer"
    BY <1>8, <2>1, <2>2, <2>3
  <2>. QED
    BY <2>1, <2>4
<1>. QED
  BY <1>7, <1>10, <1>11, <1>12

(* The plan of a dense check. *)
LEMMA DenseStarts ==
  ASSUME NEW r, NEW scheduled
  PROVE  LET todo == Harness!DensePlan(r, scheduled)
             ready == {recipe \in Harness!Due(r, scheduled, count) : Harness!RecipeReady(r, recipe, scheduled)}
         IN  /\ EndsInAllToAll(todo) /\ todo # <<>>
             /\ Range(todo) = ready \cup {"all_to_all"}
             /\ ready # {} => todo[1] # "all_to_all"
<1>. DEFINE ready == {recipe \in Harness!Due(r, scheduled, count) : Harness!RecipeReady(r, recipe, scheduled)}
            order == Harness!InOrder(ready)
            W == Recipes \cup {"shape", "all_to_all"}
            todo == order \o <<"all_to_all">>
<1>0. todo = Harness!DensePlan(r, scheduled)
  BY DEF Harness!DensePlan
<1>1. ready \cap Recipes = ready
  BY DEF Harness!Due, Recipes
<1>2. order \in Seq(ready) /\ Range(order) = ready
  <2>. HIDE DEF ready
  <2>. QED
    BY <1>1, OrderListsAll
<1>3. ready \subseteq Recipes
  BY <1>1
<1>. HIDE DEF ready, order
<1>4. order \in Seq(W) /\ <<"all_to_all">> \in Seq(W) /\ Len(order) \in Nat
      /\ Len(<<"all_to_all">>) = 1 /\ <<"all_to_all">>[1] = "all_to_all"
  BY <1>2, <1>3
<1>5. /\ todo \in Seq(W) /\ Len(todo) = Len(order) + 1
      /\ \A i \in 1 .. Len(order) + 1 : todo[i] =
           IF i <= Len(order) THEN order[i] ELSE <<"all_to_all">>[i - Len(order)]
      /\ Range(todo) = Range(order) \cup Range(<<"all_to_all">>)
  <2>. HIDE DEF W
  <2>1. Range(todo) = Range(order) \cup Range(<<"all_to_all">>)
    BY <1>4, RangeConcatenation, ZenonT(30)
  <2>2. todo \in Seq(W) /\ Len(todo) = Len(order) + Len(<<"all_to_all">>)
    BY <1>4, ConcatProperties
  <2>3. \A i \in 1 .. Len(order) + Len(<<"all_to_all">>) : todo[i] =
          IF i <= Len(order) THEN order[i] ELSE <<"all_to_all">>[i - Len(order)]
    BY <1>4, ConcatProperties
  <2>. QED
    BY <1>4, <2>1, <2>2, <2>3
<1>6. Range(<<"all_to_all">>) = {"all_to_all"}
  BY <1>4 DEF Range
<1>. HIDE DEF todo
<1>7. \A i \in 1 .. Len(order) : todo[i] \in ready /\ todo[i] # "all_to_all"
  BY <1>2, <1>3, <1>4, <1>5 DEF Recipes
<1>8. todo[Len(todo)] = "all_to_all" /\ todo # <<>>
  BY <1>4, <1>5
<1>9. EndsInAllToAll(todo)
  BY <1>4, <1>5, <1>7, <1>8 DEF EndsInAllToAll
<1>10. ready # {} => todo[1] # "all_to_all"
  <2>. SUFFICES ASSUME ready # {} PROVE todo[1] # "all_to_all"
    OBVIOUS
  <2>1. Len(order) # 0
    BY <1>2 DEF Range
  <2>. QED
    BY <1>4, <1>7, <2>1
<1>. QED
  BY <1>0, <1>2, <1>5, <1>6, <1>8, <1>9, <1>10 DEF ready

-----------------------------------------------------------------------------
(* A check begins with nothing done, and covers what is to be covered.     *)
LEMMA SourceIsRank ==
  ASSUME Harness!HarnessAssumption
  PROVE  Harness!Source \in Peers
<1>1. Peers \subseteq Nat /\ Peers # {}
  BY DEF Harness!HarnessAssumption
<1>2. PICK r \in Peers : \A s \in Peers : ~(<<s, r>> \in OpToRel(<, Nat))
  <2>. QED BY <1>1, NatLessThanWellFounded, WFMin
<1>3. r \in Nat /\ \A s \in Peers : ~(s < r)
  BY <1>1, <1>2 DEF OpToRel
<1>4. \A s \in Peers : r <= s
  BY <1>1, <1>3
<1>. QED
  BY <1>4 DEF Harness!Source, Harness!Min

LEMMA BeginCovers ==
  ASSUME Harness!HarnessAssumption, HarnessTypes, CoverInv,
         NEW mode \in {"cycle", "scheduled", "emergency"}, NEW plans, Harness!Begin(mode, plans),
         UNCHANGED <<Harness!sampling, count, captured, Harness!schedule>>,
         \/ /\ catalog = "dense" /\ Harness!DenseReady(mode = "scheduled")
            /\ plans[Harness!Source] = Harness!DensePlan(Harness!Source, mode = "scheduled")
         \/ /\ catalog = "dynamic"
            /\ \E shapes \in {1, Shapes} : plans[Harness!Source] = Harness!SweepPlan(Harness!Source, shapes)
  PROVE  CoverInv'
<1>. DEFINE todo == plans[Harness!Source]
<1>1. /\ check' = [Harness!NoCheck EXCEPT !.mode = mode, !.todo = todo,
                                  !.position = position, !.baselines = baselines]
      /\ result' = result /\ position' = position /\ count' = count
      /\ catalog' = catalog /\ interval' = interval
  BY DEF Harness!Begin, Harness!sampling, Harness!schedule
<1>2. /\ check'.mode = mode /\ check'.todo = todo /\ check'.position = position
      /\ check'.done = <<>> /\ check'.rounds = <<>>
      /\ {"todo", "done", "rounds", "position"} \subseteq DOMAIN check'
  BY <1>1 DEF Harness!NoCheck
<1>3. Harness!CertifiedIsCovered' /\ position' \in 0 .. Shapes - 1
  BY <1>1 DEF CoverInv, Harness!CertifiedIsCovered, Harness!DueRecipes, Harness!Due, Harness!ScheduledAt, Harness!IntervalOf
<1>4. <<>> \in Seq(Range(<<>>))
  OBVIOUS
<1>5. CASE /\ catalog = "dense" /\ Harness!DenseReady(mode = "scheduled")
           /\ todo = Harness!DensePlan(Harness!Source, mode = "scheduled")
  <2>. DEFINE due == Harness!Due(Harness!Source, mode = "scheduled", count)
  <2>1. \A recipe \in due : Harness!RecipeReady(Harness!Source, recipe, mode = "scheduled")
    <3>. TAKE recipe \in due
    <3>1. recipe \in due \cap Recipes
      BY DEF Harness!Due, Recipes
    <3>2. PICK i \in DOMAIN Harness!InOrder(due) : Harness!InOrder(due)[i] = recipe
      BY <3>1, OrderListsAll
    <3>. QED
      BY <1>5, <3>2 DEF Harness!DenseReady, Harness!DueRecipes
  <2>2. due # {}
    <3>1. Harness!InOrder(due) # <<>> /\ Harness!InOrder(due) \in Seq(due \cap Recipes)
      BY <1>5, OrderListsAll DEF Harness!DenseReady, Harness!DueRecipes
    <3>. QED
      BY <3>1
  <2>3. {recipe \in due : Harness!RecipeReady(Harness!Source, recipe, mode = "scheduled")} = due
    BY <2>1
  <2>4. /\ EndsInAllToAll(todo) /\ todo # <<>> /\ todo[1] # "all_to_all"
        /\ Range(todo) = due \cup {"all_to_all"}
    BY <1>5, <2>2, <2>3, DenseStarts
  <2>5. TodoInv'
    BY <1>2, <1>4, <2>4 DEF TodoInv, EndsInAllToAll
  <2>6. Harness!Due(Harness!Source, check.mode = "scheduled", count)' = due
    BY <1>1, <1>2 DEF Harness!Due, Harness!ScheduledAt, Harness!IntervalOf
  <2>7. DenseInv'
    <3>1. ItemsOf(check.done)' = {}
      BY <1>2 DEF ItemsOf
    <3>2. "shape" \notin Range(todo)
      BY <2>4 DEF Harness!Due
    <3>. QED
      BY <1>2, <2>4, <2>6, <3>1, <3>2 DEF DenseInv, CoverInv
  <2>. QED
    BY <1>1, <1>2, <1>3, <1>5, <2>5, <2>7 DEF CoverInv
<1>6. CASE catalog = "dynamic" /\ \E shapes \in {1, Shapes} : todo = Harness!SweepPlan(Harness!Source, shapes)
  <2>1. PICK shapes \in {1, Shapes} : todo = Harness!SweepPlan(Harness!Source, shapes)
    BY <1>6
  <2>2. shapes \in Nat \ {0} /\ Shapes \in Nat \ {0} /\ shapes <= Shapes
    BY DEF Harness!HarnessAssumption
  <2>3. /\ EndsInAllToAll(todo) /\ todo # <<>> /\ todo[1] = "shape"
        /\ Range(todo) \subseteq {"shape", "optimizer", "all_to_all"}
        /\ \A i \in DOMAIN todo : todo[i] = "shape" =>
             \/ i <= shapes
             \/ i = shapes + 1 /\ \E j \in 1 .. i - 1 : todo[j] = "optimizer"
    BY <2>1, <2>2, SweepStarts
  <2>4. TodoInv'
    BY <1>2, <1>4, <2>3 DEF TodoInv, EndsInAllToAll
  <2>5. DOMAIN todo = 1 .. Len(todo) /\ Len(todo) \in Nat
    BY <2>3 DEF EndsInAllToAll
  <2>. HIDE DEF todo
  <2>6. \A i \in DOMAIN todo : todo[i] = "shape" =>
          0 + i <= Shapes \/ (0 + i = Shapes + 1 /\ \E j \in 1 .. i - 1 : todo[j] = "optimizer")
    BY <2>2, <2>3, <2>5
  <2>7. position \in 0 .. Shapes - 1 /\ position = Nth(position, 0)
    BY <2>2 DEF CoverInv, Nth
  <2>8. Len(<<>>) = 0 /\ DOMAIN <<>> = {}
    OBVIOUS
  <2>9. SweepInv'
    BY <1>1, <1>2, <2>2, <2>3, <2>6, <2>7, <2>8 DEF SweepInv, Nth
  <2>. QED
    BY <1>1, <1>2, <1>3, <1>6, <2>4, <2>9 DEF CoverInv
<1>. QED
  BY <1>5, <1>6

(* A comparison joins the result of what was replayed last; its record is  *)
(* the only one that changes, and stays the record of the same recipe.     *)
LEMMA JoinedSeq ==
  ASSUME NEW seq, seq \in Seq(Range(seq)), seq # <<>>, NEW x
  PROVE  LET joined == [seq EXCEPT ![Len(seq)] = x]
         IN  /\ joined \in Seq(Range(joined)) /\ joined # <<>>
             /\ Len(seq) \in DOMAIN seq /\ DOMAIN joined = DOMAIN seq
             /\ Len(joined) = Len(seq) /\ DOMAIN seq = 1 .. Len(seq)
             /\ joined[Len(seq)] = x
             /\ \A i \in DOMAIN seq : i # Len(seq) => joined[i] = seq[i]
<1>. DEFINE joined == [seq EXCEPT ![Len(seq)] = x]
            S == Range(seq) \cup {x}
<1>1. Len(seq) \in Nat \ {0} /\ seq \in [1 .. Len(seq) -> Range(seq)] /\ DOMAIN seq = 1 .. Len(seq)
  OBVIOUS
<1>2. seq \in Seq(S) /\ x \in S /\ Len(seq) \in 1 .. Len(seq)
  <2>1. seq \in [1 .. Len(seq) -> S]
    BY <1>1
  <2>2. x \in S
    OBVIOUS
  <2>. HIDE DEF S
  <2>. QED
    BY <1>1, <2>1, <2>2
<1>. HIDE DEF S
<1>3. /\ joined \in Seq(S) /\ Len(joined) = Len(seq)
      /\ \A i \in 1 .. Len(seq) : joined[i] = IF i = Len(seq) THEN x ELSE seq[i]
  BY <1>2, ExceptSeq
<1>. HIDE DEF joined
<1>4. joined \in Seq(Range(joined))
  BY <1>3, SeqOfRange
<1>5. joined # <<>> /\ DOMAIN joined = 1 .. Len(seq)
  <2>1. DOMAIN joined = 1 .. Len(joined) /\ Len(joined) # 0
    BY <1>1, <1>3, LenProperties
  <2>2. DOMAIN joined = 1 .. Len(seq)
    BY <1>3, <2>1
  <2>3. joined # <<>>
    BY <2>1, EmptySeq
  <2>. QED
    BY <2>2, <2>3
<1>. QED
  BY <1>1, <1>2, <1>3, <1>4, <1>5 DEF joined

LEMMA CompareCovers ==
  ASSUME Harness!HarnessAssumption, HarnessTypes, CoverInv, check.mode # "none", check.todo # <<>>,
         NEW wrong, NEW prefix, NEW c3, Harness!Compare(wrong, prefix, c3), prefix = Head(check.todo),
         prefix = "optimizer" \/ check.todo = <<"all_to_all">>
  PROVE  CoverInv'
<1>. DEFINE none == [item |-> prefix, c3 |-> <<>>, sdc |-> {}, spatial |-> {},
                     temporal |-> {}, group |-> FALSE]
            done == IF check.done = <<>> THEN <<none>> ELSE check.done
            joined == Harness!AddComparisons(done[Len(done)], prefix, c3)
            added == [done EXCEPT ![Len(done)] = joined]
            left == IF Len(check.todo) = 1 THEN <<>> ELSE Harness!Rest(check.todo, added)
<1>1. /\ check' = [check EXCEPT !.done = added, !.todo = left]
      /\ UNCHANGED <<catalog, interval, count, position, result>>
  BY DEF Harness!Compare, Harness!sampling, Harness!schedule
<1>2. TodoInv /\ "mode" \in DOMAIN check
  BY DEF CoverInv, HarnessTypes
<1>3. check'.done = added /\ check'.todo = left /\ check'.mode = check.mode
      /\ check'.rounds = check.rounds /\ check'.position = check.position
      /\ DOMAIN check' = DOMAIN check
  <2>. HIDE DEF added, left
  <2>. QED
    BY <1>1, <1>2 DEF TodoInv
<1>4. /\ done \in Seq(Range(done)) /\ done # <<>>
      /\ \A i \in DOMAIN done : {"item", "c3", "sdc"} \subseteq DOMAIN done[i]
  <2>1. CASE check.done = <<>>
    <3>1. done = <<none>>
      BY <2>1
    <3>2. {"item", "c3", "sdc"} \subseteq DOMAIN none
      OBVIOUS
    <3>. HIDE DEF none, done
    <3>3. DOMAIN done = {1} /\ done[1] = none /\ done \in Seq({none}) /\ Range(done) = {none}
      BY <3>1 DEF Range
    <3>. QED
      BY <3>2, <3>3
  <2>2. CASE check.done # <<>>
    BY <1>2, <2>2 DEF TodoInv
  <2>. QED
    BY <2>1, <2>2
<1>5. /\ added \in Seq(Range(added)) /\ added # <<>>
      /\ Len(done) \in DOMAIN done /\ DOMAIN added = DOMAIN done /\ DOMAIN done = 1 .. Len(done)
      /\ added[Len(done)] = joined /\ Len(added) = Len(done)
      /\ \A i \in DOMAIN done : i # Len(done) => added[i] = done[i]
  <2>. HIDE DEF done, joined
  <2>. QED
    BY <1>4, JoinedSeq
<1>6. /\ joined.item = done[Len(done)].item /\ {"item", "c3", "sdc"} \subseteq DOMAIN joined
  <2>1. {"item", "c3", "sdc"} \subseteq DOMAIN done[Len(done)]
    BY <1>4, <1>5
  <2>. HIDE DEF done
  <2>. QED
    BY <2>1 DEF Harness!AddComparisons
<1>. HIDE DEF added, joined
<1>7. \A i \in DOMAIN added : added[i].item = done[i].item /\ {"item", "c3", "sdc"} \subseteq DOMAIN added[i]
  BY <1>4, <1>5, <1>6
<1>8. check.todo[1] = prefix
  OBVIOUS
<1>9. CASE check.todo = <<"all_to_all">>
  <2>1. left = <<>> /\ check.done # <<>> /\ done = check.done
    BY <1>2, <1>9 DEF TodoInv
  <2>2. check.rounds = <<>>
    BY <1>2, <1>9 DEF TodoInv
  <2>3. EndsInAllToAll(<<>>) /\ Range(<<>>) = {} /\ Range(check.todo) = {"all_to_all"}
    BY <1>9 DEF EndsInAllToAll, Range
  <2>. HIDE DEF left, done
  <2>4. TodoInv'
    BY <1>2, <1>3, <1>5, <1>7, <2>1, <2>2, <2>3 DEF TodoInv
  <2>5. ItemsOf(added) = ItemsOf(check.done) /\ Len(added) = Len(check.done)
    BY <1>5, <1>7, <2>1 DEF ItemsOf
  <2>6. catalog = "dense" => DenseInv'
    <3>1. Harness!Due(Harness!Source, check.mode = "scheduled", count)' = Harness!Due(Harness!Source, check.mode = "scheduled", count)
      BY <1>1, <1>3 DEF Harness!Due, Harness!ScheduledAt, Harness!IntervalOf
    <3>. QED
      BY <1>3, <2>1, <2>3, <2>5, <3>1 DEF CoverInv, DenseInv
  <2>7. catalog = "dynamic" => SweepInv'
    BY <1>1, <1>3, <1>5, <1>7, <2>1, <2>3 DEF CoverInv, SweepInv
  <2>. QED
    BY <1>1, <1>3, <2>4, <2>6, <2>7 DEF CoverInv, Harness!CertifiedIsCovered, Harness!DueRecipes, Harness!Due, Harness!ScheduledAt,
                                        Harness!IntervalOf
<1>10. CASE prefix = "optimizer" /\ check.todo # <<"all_to_all">>
  <2>1. EndsInAllToAll(check.todo) /\ check.todo[1] = "optimizer"
    BY <1>2, <1>8, <1>10 DEF TodoInv
  <2>. DEFINE tail == Tail(check.todo)
  <2>2. /\ EndsInAllToAll(left) /\ left # <<>>
        /\ Len(tail) = Len(check.todo) - 1 /\ Len(check.todo) \in Nat \ {0, 1}
        /\ \A i \in 1 .. Len(check.todo) - 1 : tail[i] = check.todo[i + 1]
        /\ Range(check.todo) = {"optimizer"} \cup Range(tail)
        /\ left = tail \/ (left = <<"all_to_all">> /\ check.todo[2] = "shape")
    <3>1. left = Harness!Rest(check.todo, added)
      BY <2>1, RestLeft
    <3>. HIDE DEF left
    <3>. QED
      BY <2>1, <3>1, RestLeft
  <2>3. check.rounds = <<>>
    BY <1>2, <2>1 DEF TodoInv
  <2>4. ItemsOf(added) = IF check.done = <<>> THEN {"optimizer"} ELSE ItemsOf(check.done)
    <3>1. ItemsOf(added) = ItemsOf(done)
      <4>. HIDE DEF done
      <4>. QED
        BY <1>5, <1>7 DEF ItemsOf
    <3>2. check.done = <<>> => ItemsOf(done) = {"optimizer"}
      BY <1>10 DEF ItemsOf
    <3>. QED
      BY <3>1, <3>2
  <2>5. check.done = <<>> => ItemsOf(check.done) = {}
    BY DEF ItemsOf
  <2>6. check.done # <<>> => done = check.done
    OBVIOUS
  <2>. HIDE DEF left, done, tail
  <2>7. TodoInv'
    BY <1>2, <1>3, <1>5, <1>7, <2>2, <2>3 DEF TodoInv
  <2>8. catalog = "dense" => DenseInv'
    <3>. SUFFICES ASSUME catalog = "dense" PROVE DenseInv'
      OBVIOUS
    <3>1. DenseInv
      BY DEF CoverInv
    <3>2. Harness!Due(Harness!Source, check.mode = "scheduled", count)' = Harness!Due(Harness!Source, check.mode = "scheduled", count)
      BY <1>1, <1>3 DEF Harness!Due, Harness!ScheduledAt, Harness!IntervalOf
    <3>3. check.todo[2] \in Range(check.todo)
      BY <2>1, <2>2 DEF EndsInAllToAll, Range
    <3>4. left = tail /\ "shape" \notin Range(left)
      BY <2>2, <3>1, <3>3 DEF DenseInv
    <3>. QED
      BY <1>3, <2>2, <2>4, <2>5, <3>1, <3>2, <3>4 DEF DenseInv
  <2>9. catalog = "dynamic" => SweepInv'
    <3>. SUFFICES ASSUME catalog = "dynamic" PROVE SweepInv'
      OBVIOUS
    <3>1. SweepInv /\ check.done # <<>> /\ done = check.done
      BY <2>1, <2>6 DEF CoverInv, SweepInv
    <3>2. Len(check.done) \in Nat /\ DOMAIN check.todo = 1 .. Len(check.todo)
      BY <1>2, <2>1 DEF TodoInv, EndsInAllToAll
    <3>3. Range(left) \subseteq {"shape", "optimizer", "all_to_all"}
      <4>1. CASE left = tail
        BY <2>2, <3>1, <4>1 DEF SweepInv
      <4>2. CASE left = <<"all_to_all">>
        BY <4>2 DEF Range
      <4>. QED
        BY <2>2, <4>1, <4>2
    <3>4. \A i \in DOMAIN left : left[i] = "shape" => Len(check.done) + i <= Shapes
      <4>1. CASE left = tail
        <5>. SUFFICES ASSUME NEW i \in DOMAIN left, left[i] = "shape"
                      PROVE  Len(check.done) + i <= Shapes
          OBVIOUS
        <5>1. i \in 1 .. Len(check.todo) - 1 /\ i + 1 \in DOMAIN check.todo
          BY <2>2, <3>2, <4>1 DEF EndsInAllToAll
        <5>2. check.todo[i + 1] = "shape"
          BY <2>2, <4>1, <5>1
        <5>3. Len(check.done) + (i + 1) <= Shapes + 1
          BY <3>1, <3>2, <5>1, <5>2, SMTT(30) DEF SweepInv, Harness!HarnessAssumption
        <5>. QED
          BY <3>2, <5>1, <5>3 DEF Harness!HarnessAssumption
      <4>2. CASE left = <<"all_to_all">>
        BY <4>2
      <4>. QED
        BY <2>2, <4>1, <4>2
    <3>. QED
      BY <1>1, <1>3, <1>5, <1>7, <3>1, <3>3, <3>4 DEF SweepInv
  <2>. QED
    BY <1>1, <1>3, <2>7, <2>8, <2>9 DEF CoverInv, Harness!CertifiedIsCovered, Harness!DueRecipes, Harness!Due, Harness!ScheduledAt,
                                        Harness!IntervalOf
<1>. QED
  BY <1>9, <1>10

(* The rotation goes on by one shape at a time. *)
LEMMA NextNth ==
  ASSUME Shapes \in Nat \ {0}, NEW p \in 0 .. Shapes - 1, NEW n \in Nat, n + 1 <= Shapes
  PROVE  Harness!Advance(Nth(p, n)) = Nth(p, n + 1) /\ Nth(p, n + 1) \in 0 .. Shapes - 1
BY DEF Harness!Advance, Nth

(* A replay: its round is confirmed by another, or its result is kept and  *)
(* the check goes on.                                                      *)
LEMMA ReplayCovers ==
  ASSUME Harness!HarnessAssumption, HarnessTypes, CoverInv, Harness!Replay
  PROVE  CoverInv'
<1>1. PICK wrong \in Corruptions, times \in TimeVectors : Harness!Replayed(wrong, times)
  BY DEF Harness!Replay
<1>. DEFINE item == Head(check.todo)
            replay == Harness!ReplayRound([n \in {<<item, "output">>} |-> Harness!Vector(wrong)], times)
            assessment == Harness!Assess(baselines, Harness!KeyOf(item), times)
            rounds == Append(check.rounds, [replay |-> replay, assessment |-> assessment])
            merged == Harness!MergeRounds([i \in DOMAIN rounds |-> rounds[i].replay],
                                  [i \in DOMAIN rounds |-> rounds[i].assessment], Rounds)
            kept == [item |-> IF item = "shape" THEN position ELSE item,
                     c3 |-> merged.c3, sdc |-> merged.sdc, spatial |-> merged.spatial,
                     temporal |-> merged.temporal, group |-> merged.group]
            done == Append(check.done, kept)
            left == Harness!Rest(check.todo, done)
<1>2. /\ check.mode # "none" /\ check.todo # <<>> /\ item \in Harness!Modules \cup {"shape"}
      /\ UNCHANGED <<catalog, interval, count, result>>
  BY DEF Harness!Replay, Harness!sampling
<1>3. TodoInv /\ "mode" \in DOMAIN check
  BY <1>2 DEF CoverInv, HarnessTypes
<1>4. check.todo[1] = item /\ check.todo[1] \notin {"optimizer", "all_to_all"}
  BY <1>2 DEF Harness!Modules
<1>5. Harness!CertifiedIsCovered'
  BY <1>2 DEF CoverInv, Harness!CertifiedIsCovered, Harness!DueRecipes, Harness!Due, Harness!ScheduledAt, Harness!IntervalOf
<1>7. CASE /\ check' = [check EXCEPT !.rounds = rounds]
           /\ position' = position
  <2>1. rounds \in Seq(Range(rounds))
    <3>. DEFINE round == [replay |-> replay, assessment |-> assessment]
    <3>. HIDE DEF round
    <3>1. Append(check.rounds, round) \in Seq(Range(Append(check.rounds, round)))
      BY <1>3, AppendedSeq DEF TodoInv
    <3>. QED
      BY <3>1 DEF round
  <2>. HIDE DEF rounds
  <2>2. /\ check'.rounds = rounds /\ check'.done = check.done /\ check'.todo = check.todo
        /\ check'.mode = check.mode /\ check'.position = check.position
        /\ DOMAIN check' = DOMAIN check
    BY <1>3, <1>7 DEF TodoInv
  <2>3. TodoInv'
    BY <1>2, <1>3, <1>4, <2>1, <2>2 DEF TodoInv
  <2>4. Harness!Due(Harness!Source, check.mode = "scheduled", count)' = Harness!Due(Harness!Source, check.mode = "scheduled", count)
    BY <1>2, <2>2 DEF Harness!Due, Harness!ScheduledAt, Harness!IntervalOf
  <2>5. catalog = "dense" => DenseInv'
    BY <1>2, <2>2, <2>4 DEF CoverInv, DenseInv
  <2>6. catalog = "dynamic" => SweepInv'
    BY <1>2, <1>7, <2>2 DEF CoverInv, SweepInv
  <2>. QED
    BY <1>2, <1>5, <1>7, <2>2, <2>3, <2>5, <2>6 DEF CoverInv
<1>8. CASE /\ check' = [check EXCEPT !.rounds = <<>>, !.done = done, !.todo = left]
           /\ position' = IF item = "shape" THEN Harness!Advance(position) ELSE position
  <2>1. kept.item = (IF item = "shape" THEN position ELSE item) /\ {"item", "c3", "sdc"} \subseteq DOMAIN kept
    OBVIOUS
  <2>. HIDE DEF kept
  <2>2. /\ done \in Seq(Range(done)) /\ Len(check.done) \in Nat
        /\ DOMAIN check.done = 1 .. Len(check.done) /\ DOMAIN done = 1 .. Len(check.done) + 1
        /\ Len(done) = Len(check.done) + 1
        /\ \A i \in 1 .. Len(check.done) : done[i] = check.done[i]
        /\ done[Len(check.done) + 1] = kept
    BY <1>3, AppendedSeq DEF TodoInv
  <2>. DEFINE tail == Tail(check.todo)
  <2>. HIDE DEF done
  <2>3. /\ EndsInAllToAll(left) /\ left # <<>>
        /\ Len(tail) = Len(check.todo) - 1 /\ Len(check.todo) \in Nat \ {0, 1}
        /\ \A i \in 1 .. Len(check.todo) - 1 : tail[i] = check.todo[i + 1]
        /\ Range(check.todo) = {item} \cup Range(tail)
        /\ left = tail \/ (left = <<"all_to_all">> /\ check.todo[2] = "shape")
    <3>. HIDE DEF item
    <3>. QED
      BY <1>2, <1>3, <1>4, RestLeft DEF TodoInv
  <2>. HIDE DEF left, tail
  <2>4. /\ check'.rounds = <<>> /\ check'.done = done /\ check'.todo = left
        /\ check'.mode = check.mode /\ check'.position = check.position
        /\ DOMAIN check' = DOMAIN check
    BY <1>3, <1>8 DEF TodoInv
  <2>5. done # <<>> /\ \A i \in DOMAIN done : {"item", "c3", "sdc"} \subseteq DOMAIN done[i]
    BY <1>3, <2>1, <2>2 DEF TodoInv
  <2>6. TodoInv'
    <3>1. <<>> \in Seq(Range(<<>>))
      OBVIOUS
    <3>. QED
      BY <1>3, <2>2, <2>3, <2>4, <2>5, <3>1 DEF TodoInv
  <2>7. ItemsOf(done) = ItemsOf(check.done) \cup {kept.item}
    BY <2>2 DEF ItemsOf
  <2>. HIDE DEF item
  <2>8. CASE catalog = "dense"
    <3>1. DenseInv
      BY <1>2, <2>8 DEF CoverInv
    <3>2. Harness!Due(Harness!Source, check.mode = "scheduled", count)' = Harness!Due(Harness!Source, check.mode = "scheduled", count)
      BY <1>2, <2>4 DEF Harness!Due, Harness!ScheduledAt, Harness!IntervalOf
    <3>0. DOMAIN check.todo = 1 .. Len(check.todo)
      BY <1>3 DEF TodoInv, EndsInAllToAll
    <3>3. check.todo[2] \in Range(check.todo) /\ item \in Range(check.todo)
      <4>1. 1 \in DOMAIN check.todo /\ 2 \in DOMAIN check.todo
        <5>1. Len(check.todo) \in Nat \ {0, 1}
          BY <2>3
        <5>2. \A n \in Nat \ {0, 1} : 1 \in 1 .. n /\ 2 \in 1 .. n
          OBVIOUS
        <5>. QED
          BY <3>0, <5>1, <5>2
      <4>. QED
        BY <1>4, <4>1 DEF Range
    <3>4. left = tail /\ "shape" \notin Range(left) /\ item # "shape"
      BY <2>3, <3>1, <3>3 DEF DenseInv
    <3>5. kept.item = item /\ item # "all_to_all"
      BY <1>4, <2>1, <3>4
    <3>6. DenseInv'
      BY <2>3, <2>4, <2>7, <3>1, <3>2, <3>4, <3>5 DEF DenseInv
    <3>7. position' = position
      BY <1>8, <3>4
    <3>. QED
      BY <1>2, <1>5, <2>4, <2>6, <2>8, <3>6, <3>7 DEF CoverInv
  <2>9. CASE catalog = "dynamic"
    <3>1. SweepInv /\ Shapes \in Nat \ {0}
      BY <1>2, <2>9 DEF CoverInv, Harness!HarnessAssumption
    <3>2. item \in Range(check.todo) /\ DOMAIN check.todo = 1 .. Len(check.todo)
      BY <1>3, <2>3 DEF TodoInv, EndsInAllToAll
    <3>3. item = "shape"
      BY <1>2, <1>4, <3>1, <3>2 DEF SweepInv, Harness!Modules
    <3>4. Len(check.done) + 1 <= Shapes
      <4>1. 1 \in DOMAIN check.todo /\ check.todo[1] = "shape"
        BY <1>4, <2>3, <3>2, <3>3
      <4>2. \/ Len(check.done) + 1 <= Shapes
            \/ \E j \in 1 .. 1 - 1 : check.todo[j] = "optimizer"
        BY <3>1, <4>1 DEF SweepInv
      <4>. QED
        BY <4>2
    <3>5. kept.item = Nth(check.position, Len(check.done))
      BY <2>1, <3>1, <3>3 DEF SweepInv
    <3>6. position' = Nth(check.position, Len(check.done) + 1) /\ position' \in 0 .. Shapes - 1
      <4>1. position' = Harness!Advance(position) /\ position = Nth(check.position, Len(check.done))
        BY <1>8, <3>1, <3>3 DEF SweepInv
      <4>2. check.position \in 0 .. Shapes - 1
        BY <3>1 DEF SweepInv
      <4>. QED
        BY <2>2, <3>1, <3>4, <4>1, <4>2, NextNth
    <3>7. Range(left) \subseteq {"shape", "optimizer", "all_to_all"}
      <4>1. CASE left = tail
        BY <2>3, <3>1, <4>1 DEF SweepInv
      <4>2. CASE left = <<"all_to_all">>
        BY <4>2 DEF Range
      <4>. QED
        BY <2>3, <4>1, <4>2
    <3>8. \A i \in DOMAIN left : left[i] = "shape" =>
            \/ Len(done) + i <= Shapes
            \/ Len(done) + i = Shapes + 1 /\ \E j \in 1 .. i - 1 : left[j] = "optimizer"
      <4>1. CASE left = tail
        <5>. SUFFICES ASSUME NEW i \in DOMAIN left, left[i] = "shape", ~(Len(done) + i <= Shapes)
                      PROVE  /\ Len(done) + i = Shapes + 1
                             /\ \E j \in 1 .. i - 1 : left[j] = "optimizer"
          OBVIOUS
        <5>1. i \in 1 .. Len(check.todo) - 1 /\ i + 1 \in DOMAIN check.todo
          BY <2>3, <3>2, <4>1 DEF EndsInAllToAll
        <5>2. check.todo[i + 1] = "shape"
          BY <2>3, <4>1, <5>1
        <5>3. ~(Len(check.done) + (i + 1) <= Shapes)
          BY <2>2, <3>1, <5>1
        <5>4. /\ Len(check.done) + (i + 1) = Shapes + 1
              /\ \E j \in 1 .. (i + 1) - 1 : check.todo[j] = "optimizer"
          BY <3>1, <5>1, <5>2, <5>3 DEF SweepInv
        <5>5. PICK j \in 1 .. (i + 1) - 1 : check.todo[j] = "optimizer"
          BY <5>4
        <5>6. j # 1
          BY <1>4, <3>3, <5>5
        <5>7. j - 1 \in 1 .. i - 1 /\ j - 1 \in 1 .. Len(check.todo) - 1
          BY <5>1, <5>6
        <5>8. left[j - 1] = "optimizer"
          <6>1. tail[j - 1] = check.todo[(j - 1) + 1]
            BY <2>3, <5>7
          <6>. QED
            BY <4>1, <5>5, <6>1
        <5>. QED
          BY <2>2, <3>1, <5>1, <5>4, <5>7, <5>8, SMTT(30)
      <4>2. CASE left = <<"all_to_all">>
        BY <4>2
      <4>. QED
        BY <2>3, <4>1, <4>2
    <3>9. \A i \in DOMAIN done : done[i].item = Nth(check.position, i - 1)
      <4>. TAKE i \in DOMAIN done
      <4>1. CASE i \in 1 .. Len(check.done)
        BY <2>2, <3>1, <4>1 DEF SweepInv
      <4>2. CASE i = Len(check.done) + 1
        <5>1. i - 1 = Len(check.done)
          BY <2>2, <4>2
        <5>. QED
          BY <2>2, <3>5, <4>2, <5>1
      <4>. QED
        BY <2>2, <4>1, <4>2
    <3>10. SweepInv'
      <4>1. /\ (\A i \in DOMAIN check.done : check.done[i].item = Nth(check.position, i - 1))'
            /\ (position = Nth(check.position, Len(check.done)))'
        BY <2>2, <2>4, <3>6, <3>9 DEF Nth
      <4>2. (\A i \in DOMAIN check.todo : check.todo[i] = "shape" =>
               \/ Len(check.done) + i <= Shapes
               \/ Len(check.done) + i = Shapes + 1
                  /\ \E j \in 1 .. i - 1 : check.todo[j] = "optimizer")'
        BY <2>4, <3>8
      <4>3. (/\ check.position \in 0 .. Shapes - 1
             /\ Len(check.done) <= Shapes
             /\ Range(check.todo) \subseteq {"shape", "optimizer", "all_to_all"}
             /\ check.done # <<>>)'
        BY <2>2, <2>4, <2>5, <3>1, <3>4, <3>7 DEF SweepInv
      <4>. QED
        BY <4>1, <4>2, <4>3 DEF SweepInv
    <3>. QED
      BY <1>2, <1>5, <2>4, <2>6, <2>9, <3>6, <3>10 DEF CoverInv
  <2>. QED
    BY <2>8, <2>9 DEF HarnessTypes
<1>. QED
  BY <1>1, <1>7, <1>8 DEF Harness!Replayed

(* The end of a check: what was certified is what was covered.             *)
LEMMA FinishCovers ==
  ASSUME Harness!HarnessAssumption, HarnessTypes, CoverInv, Harness!Finish
  PROVE  CoverInv'
<1>. DEFINE total == Harness!Aggregate(check.done)
            checked == {check.done[i].item : i \in DOMAIN check.done}
            complete == catalog = "dense" \/ Len(check.done) = Shapes
            certifies == Harness!Certifies([complete |-> complete, c3 |-> total.c3, sdc |-> total.sdc])
<1>1. /\ check.mode # "none" /\ check.todo = <<>> /\ check' = Harness!NoCheck
      /\ UNCHANGED <<catalog, interval, count>>
      /\ position' = IF check.mode = "emergency" THEN check.position ELSE position
      /\ result'.kind = check.mode /\ result'.checked = checked /\ result'.certifies = certifies
  BY DEF Harness!Finish, Harness!sampling
<1>2. certifies => complete
  BY DEF Harness!Certifies
<1>. HIDE DEF certifies
<1>3. check.mode \in {"cycle", "scheduled", "emergency"} /\ TodoInv
  BY <1>1 DEF CoverInv
<1>4. check'.mode = "none"
  BY <1>1 DEF Harness!NoCheck
<1>5. CASE catalog = "dense"
  <2>. DEFINE due == Harness!Due(Harness!Source, check.mode = "scheduled", count)
  <2>1. DenseInv /\ Range(check.todo) = {}
    BY <1>1, <1>5 DEF CoverInv, Range
  <2>2. checked \cup {"optimizer", "all_to_all"} = due \cup {"optimizer", "all_to_all"}
        /\ "all_to_all" \notin checked
    BY <2>1 DEF DenseInv, ItemsOf
  <2>3. "all_to_all" \notin due /\ due \cap Recipes = due
    BY DEF Harness!Due, Recipes
  <2>4. Range(Harness!InOrder(due)) = due
    BY <2>3, OrderListsAll
  <2>5. checked \cup {"optimizer"} = due \cup {"optimizer"}
    <3>. HIDE DEF checked, due
    <3>. QED
      BY <2>2, <2>3
  <2>6. Harness!Due(Harness!Source, result.kind = "scheduled", count)' = due
    BY <1>1 DEF Harness!Due, Harness!ScheduledAt, Harness!IntervalOf
  <2>7. Harness!CertifiedIsCovered'
    <3>1. Range(Harness!DueRecipes(Harness!Source, result.kind = "scheduled", count))' = due
      BY <2>4, <2>6 DEF Harness!DueRecipes
    <3>2. result'.checked \cup {"optimizer"} = due \cup {"optimizer"}
      BY <1>1, <2>5
    <3>3. catalog' # "dynamic"
      BY <1>1, <1>5
    <3>. QED
      BY <3>1, <3>2, <3>3, SameNotions DEF Harness!CertifiedIsCovered
  <2>8. position' \in 0 .. Shapes - 1
    BY <1>1, <2>1 DEF CoverInv, DenseInv
  <2>. QED
    BY <1>4, <2>7, <2>8 DEF CoverInv
<1>6. CASE catalog = "dynamic"
  <2>1. SweepInv /\ Shapes \in Nat \ {0}
    BY <1>1, <1>6 DEF CoverInv, Harness!HarnessAssumption
  <2>2. position' \in 0 .. Shapes - 1
    BY <1>1, <2>1 DEF CoverInv, SweepInv
  <2>3. ASSUME Len(check.done) = Shapes
        PROVE  checked = 0 .. Shapes - 1
    <3>1. DOMAIN check.done = 1 .. Shapes
      BY <1>3, <2>3 DEF TodoInv
    <3>2. \A i \in 1 .. Shapes : Nth(check.position, i - 1) \in 0 .. Shapes - 1
      BY <2>1 DEF SweepInv, Nth
    <3>3. \A v \in 0 .. Shapes - 1 : \E i \in 1 .. Shapes : Nth(check.position, i - 1) = v
      <4>. TAKE v \in 0 .. Shapes - 1
      <4>. DEFINE p == check.position
                  i == IF v >= p THEN v - p + 1 ELSE v - p + 1 + Shapes
      <4>1. p \in 0 .. Shapes - 1
        BY <2>1 DEF SweepInv
      <4>. HIDE DEF p
      <4>2. i \in 1 .. Shapes /\ Nth(p, i - 1) = v
        BY <2>1, <4>1 DEF Nth
      <4>. QED
        BY <4>2 DEF p
    <3>4. \A i \in 1 .. Shapes : check.done[i].item = Nth(check.position, i - 1)
      BY <2>1, <3>1 DEF SweepInv
    <3>5. checked \subseteq 0 .. Shapes - 1
      BY <3>1, <3>2, <3>4
    <3>6. 0 .. Shapes - 1 \subseteq checked
      <4>. SUFFICES ASSUME NEW v \in 0 .. Shapes - 1 PROVE v \in checked
        OBVIOUS
      <4>1. PICK i \in 1 .. Shapes : Nth(check.position, i - 1) = v
        BY <3>3
      <4>. QED
        BY <3>1, <3>4, <4>1
    <3>. QED
      BY <3>5, <3>6
  <2>4. Harness!CertifiedIsCovered'
    BY <1>1, <1>2, <1>6, <2>3 DEF Harness!CertifiedIsCovered
  <2>. QED
    BY <1>4, <2>2, <2>4 DEF CoverInv
<1>. QED
  BY <1>5, <1>6 DEF HarnessTypes

(* count() without a replay leaves nothing certified behind.                *)
LEMMA ReturnCovers ==
  ASSUME CoverInv, NEW outcome, outcome.certifies = FALSE, NEW waiting,
         Harness!Return(outcome, waiting), check.mode = "none", UNCHANGED Harness!schedule
  PROVE  CoverInv'
BY DEF CoverInv, Harness!Return, Harness!schedule, Harness!CertifiedIsCovered

LEMMA CoverStep ==
  ASSUME Harness!HarnessAssumption, HarnessInv, CoverInv, [Harness!Next]_(Harness!vars)
  PROVE  CoverInv'
<1>. USE DEF HarnessInv
<1>1. CASE Harness!TrainStep
  <2>1. /\ check' = check /\ check.mode = "none" /\ position' = position
        /\ result'.certifies = FALSE
    BY <1>1 DEF Harness!TrainStep, Harness!schedule, Harness!NoResult
  <2>. QED
    BY <2>1 DEF CoverInv, Harness!CertifiedIsCovered
<1>2. ASSUME NEW complete \in BOOLEAN, Harness!Step(complete)
      PROVE  CoverInv'
  <2>. DEFINE mode == IF complete THEN "cycle" ELSE "scheduled"
              due == {r \in Peers : Harness!DueRecipes(r, TRUE, count) # <<>>}
              plans == [r \in Peers |->
                          IF catalog = "dense" THEN Harness!DensePlan(r, ~complete)
                          ELSE Harness!SweepPlan(r, IF complete THEN Shapes ELSE 1)]
              ready == IF catalog = "dense" THEN Harness!DenseReady(~complete) ELSE Harness!DynamicReady
  <2>1. /\ check.mode = "none" /\ UNCHANGED <<Harness!sampling, count, captured, Harness!schedule>>
        /\ \/ Harness!Return(Harness!Incomplete, {}) \/ Harness!Return(Harness!NoResult, due)
           \/ ready /\ Harness!Begin(mode, plans)
    BY <1>2 DEF Harness!Step
  <2>2. CASE Harness!Return(Harness!Incomplete, {}) \/ Harness!Return(Harness!NoResult, due)
    <3>. HIDE DEF due
    <3>. QED
      BY <2>1, <2>2, ReturnCovers DEF Harness!Incomplete, Harness!NoResult
  <2>3. CASE ready /\ Harness!Begin(mode, plans)
    <3>0. Harness!Source \in Peers
      BY SourceIsRank
    <3>1. CASE catalog = "dense" /\ complete
      <4>1. mode = "cycle" /\ plans[Harness!Source] = Harness!DensePlan(Harness!Source, FALSE) /\ Harness!DenseReady(FALSE)
        BY <2>3, <3>0, <3>1
      <4>. HIDE DEF mode, plans
      <4>. QED
        BY <2>1, <2>3, <3>1, <4>1, BeginCovers
    <3>2. CASE catalog = "dense" /\ ~complete
      <4>1. mode = "scheduled" /\ plans[Harness!Source] = Harness!DensePlan(Harness!Source, TRUE) /\ Harness!DenseReady(TRUE)
        BY <2>3, <3>0, <3>2
      <4>. HIDE DEF mode, plans
      <4>. QED
        BY <2>1, <2>3, <3>2, <4>1, BeginCovers
    <3>3. CASE catalog = "dynamic"
      <4>1. \E shapes \in {1, Shapes} : plans[Harness!Source] = Harness!SweepPlan(Harness!Source, shapes)
        BY <3>0, <3>3
      <4>2. mode \in {"cycle", "scheduled", "emergency"}
        OBVIOUS
      <4>. HIDE DEF mode, plans
      <4>. QED
        BY <2>1, <2>3, <3>3, <4>1, <4>2, BeginCovers
    <3>. QED
      BY <3>1, <3>2, <3>3 DEF HarnessTypes
  <2>. QED
    BY <2>1, <2>2, <2>3
<1>3. CASE Harness!EmergencyCheck
  <2>. DEFINE sweep == [r \in Peers |-> Harness!SweepPlan(r, Shapes)]
              dense == [r \in Peers |-> Harness!DensePlan(r, FALSE)]
  <2>0. Harness!Source \in Peers
    BY SourceIsRank
  <2>1. /\ check.mode = "none" /\ UNCHANGED <<Harness!sampling, count, captured, Harness!schedule>>
        /\ \/ catalog = "dynamic" /\ Harness!Begin("emergency", sweep)
           \/ catalog # "dynamic" /\ Harness!DenseReady(FALSE) /\ Harness!Begin("emergency", dense)
           \/ Harness!Return([Harness!Incomplete EXCEPT !.kind = "emergency"], {})
    BY <1>3 DEF Harness!EmergencyCheck
  <2>2. CASE catalog = "dynamic" /\ Harness!Begin("emergency", sweep)
    <3>1. sweep[Harness!Source] = Harness!SweepPlan(Harness!Source, Shapes)
      BY <2>0
    <3>. HIDE DEF sweep
    <3>. QED
      BY <2>1, <2>2, <3>1, BeginCovers
  <2>3. CASE catalog # "dynamic" /\ Harness!DenseReady(FALSE) /\ Harness!Begin("emergency", dense)
    <3>1. dense[Harness!Source] = Harness!DensePlan(Harness!Source, FALSE) /\ catalog = "dense"
      BY <2>0, <2>3 DEF HarnessTypes
    <3>. HIDE DEF dense
    <3>. QED
      BY <2>1, <2>3, <3>1, BeginCovers
  <2>4. CASE Harness!Return([Harness!Incomplete EXCEPT !.kind = "emergency"], {})
    BY <2>1, <2>4, ReturnCovers DEF Harness!Incomplete
  <2>. QED
    BY <2>1, <2>2, <2>3, <2>4
<1>4. CASE Harness!Replay
  BY <1>4, ReplayCovers
<1>5. CASE Harness!ReplayOptimizer \/ Harness!ReplayAllToAll
  <2>1. CASE Harness!ReplayOptimizer
    <3>1. PICK wrong, c3 : Harness!Compare(wrong, "optimizer", c3)
      BY <2>1 DEF Harness!ReplayOptimizer
    <3>. QED
      BY <2>1, <3>1, CompareCovers DEF Harness!ReplayOptimizer
  <2>2. CASE Harness!ReplayAllToAll
    <3>1. PICK wrong, c3 : Harness!Compare(wrong, "all_to_all", c3)
      BY <2>2 DEF Harness!ReplayAllToAll
    <3>. QED
      BY <2>2, <3>1, CompareCovers DEF Harness!ReplayAllToAll
  <2>. QED
    BY <1>5, <2>1, <2>2
<1>6. CASE Harness!Finish
  BY <1>6, FinishCovers
<1>7. CASE UNCHANGED Harness!vars
  BY <1>7 DEF Harness!vars, Harness!sampling, Harness!schedule, CoverInv, TodoInv, DenseInv, SweepInv, Harness!CertifiedIsCovered,
              Harness!DueRecipes, Harness!Due, Harness!ScheduledAt, Harness!IntervalOf
<1>. QED
  BY <1>1, <1>2, <1>3, <1>4, <1>5, <1>6, <1>7 DEF Harness!Next

LEMMA CoverInit == Harness!HarnessAssumption /\ Harness!Init => CoverInv
BY DEF Harness!Init, Harness!HarnessAssumption, CoverInv, Harness!CertifiedIsCovered, Harness!NoCheck, Harness!NoResult

(* Who is wrong is a minority or a majority, and an exact comparison names *)
(* the minority of the two.                                                *)
LEMMA WrongIsNamed ==
  ASSUME Harness!HarnessAssumption, Harness!NobodyTies, NEW wrong \in Corruptions, wrong # {}
  PROVE  Harness!ClassifyExact(Harness!Vector(wrong)).bitmap # {}
<1>. DEFINE v == Harness!Vector(wrong)
            right == Peers \ wrong
<1>1. /\ wrong \subseteq Peers /\ right # {} /\ IsFiniteSet(Peers)
      /\ IsFiniteSet(wrong) /\ IsFiniteSet(right)
  <2>1. wrong \subseteq Peers /\ wrong # Peers /\ IsFiniteSet(Peers)
    <3>1. Corruptions \subseteq (SUBSET Peers) \ {Peers} /\ IsFiniteSet(Peers)
      BY SameNotions DEF Harness!HarnessAssumption
    <3>2. wrong \in SUBSET Peers /\ wrong \notin {Peers}
      BY <3>1
    <3>. QED
      BY <3>1, <3>2
  <2>2. right # {} /\ right \subseteq Peers
    BY <2>1
  <2>. HIDE DEF right
  <2>. QED
    BY <2>1, <2>2, FS_Subset
<1>2. /\ Cardinality(wrong) \in Nat /\ Cardinality(right) \in Nat /\ Cardinality(Peers) \in Nat
      /\ Cardinality(wrong) + Cardinality(right) = Cardinality(Peers)
      /\ 2 * Cardinality(wrong) # Cardinality(Peers)
  <2>1. Cardinality(wrong) \in Nat /\ Cardinality(right) \in Nat /\ Cardinality(Peers) \in Nat
    BY <1>1, FS_CardinalityType
  <2>2. Cardinality(right) = Cardinality(Peers) - Cardinality(Peers \cap wrong)
    BY <1>1, FS_Difference
  <2>3. Peers \cap wrong = wrong
    BY <1>1
  <2>4. 2 * Cardinality(wrong) # Cardinality(Peers)
    BY SameNotions DEF Harness!NobodyTies
  <2>5. Cardinality(right) = Cardinality(Peers) - Cardinality(wrong)
    BY <2>2, <2>3
  <2>. HIDE DEF right
  <2>. QED
    BY <2>1, <2>4, <2>5
<1>3. /\ DOMAIN v = Peers
      /\ \A r \in Peers : v[r] = IF r \in wrong THEN "wrong" ELSE "right"
  BY DEF Harness!Vector
<1>. HIDE DEF v
<1>4. Harness!Values(v) = {"wrong", "right"}
  BY <1>1, <1>3 DEF Harness!Values
<1>5. Harness!Holders(v, "wrong") = wrong /\ Harness!Holders(v, "right") = right
  BY <1>1, <1>3 DEF Harness!Holders
<1>6. Cardinality(Harness!Values(v)) # 1
  <2>1. IsFiniteSet({"wrong", "right"})
    <3>1. IsFiniteSet({"wrong"})
      BY FS_Singleton
    <3>2. IsFiniteSet({"wrong"} \cup {"right"})
      BY <3>1, FS_AddElement
    <3>3. {"wrong"} \cup {"right"} = {"wrong", "right"}
      OBVIOUS
    <3>. QED
      BY <3>2, <3>3
  <2>2. Cardinality({"wrong", "right"}) = 1 => \E x : {"wrong", "right"} = {x}
    BY <2>1, FS_Singleton
  <2>3. ~ \E x : {"wrong", "right"} = {x}
    OBVIOUS
  <2>. QED
    BY <1>4, <2>2, <2>3
<1>. HIDE DEF right
<1>7. CASE Cardinality(wrong) > Cardinality(right)
  <2>1. /\ Cardinality(wrong) > Cardinality(Peers) \div 2
        /\ ~(Cardinality(right) > Cardinality(Peers) \div 2)
    BY <1>2, <1>7
  <2>2. Harness!StrictMajority(v) = {"wrong"}
    BY <1>3, <1>4, <1>5, <2>1, SameNotions DEF Harness!StrictMajority
  <2>3. PICK r \in right : r \in Peers /\ v[r] = "right"
    BY <1>1, <1>3 DEF right
  <2>4. Harness!ClassifyExact(v).bitmap = {q \in DOMAIN v : v[q] \notin Harness!StrictMajority(v)}
    BY <1>6, <2>2, SameNotions DEF Harness!ClassifyExact
  <2>5. r \in {q \in DOMAIN v : v[q] \notin Harness!StrictMajority(v)}
    BY <1>3, <2>2, <2>3
  <2>. QED
    BY <2>4, <2>5 DEF v
<1>8. CASE Cardinality(right) > Cardinality(wrong)
  <2>1. /\ Cardinality(right) > Cardinality(Peers) \div 2
        /\ ~(Cardinality(wrong) > Cardinality(Peers) \div 2)
    BY <1>2, <1>8
  <2>2. Harness!StrictMajority(v) = {"right"}
    BY <1>3, <1>4, <1>5, <2>1, SameNotions DEF Harness!StrictMajority
  <2>3. PICK r \in wrong : r \in Peers /\ v[r] = "wrong"
    BY <1>1, <1>3
  <2>4. Harness!ClassifyExact(v).bitmap = {q \in DOMAIN v : v[q] \notin Harness!StrictMajority(v)}
    BY <1>6, <2>2, SameNotions DEF Harness!ClassifyExact
  <2>5. r \in {q \in DOMAIN v : v[q] \notin Harness!StrictMajority(v)}
    BY <1>3, <2>2, <2>3
  <2>. QED
    BY <2>4, <2>5 DEF v
<1>. QED
  BY <1>2, <1>7, <1>8

(* A comparison with what is expected names the minority, or nobody and    *)
(* says so.                                                                *)
LEMMA UnexpectedIsSeen ==
  ASSUME NEW wrong, wrong \subseteq Peers, wrong # {}
  PROVE  LET c == Harness!ExpectedBoolean([r \in Peers |-> r \notin wrong])
         IN  c.bitmap # {} \/ c.status = Harness!Inconclusive
<1>. DEFINE v == [r \in Peers |-> r \notin wrong]
            false == {r \in DOMAIN v : ~v[r]}
<1>1. false = wrong
  OBVIOUS
<1>2. \/ Harness!ExpectedBoolean(v) = [status |-> Harness!Attributed, bitmap |-> false]
      \/ Harness!ExpectedBoolean(v) = [status |-> Harness!Inconclusive, bitmap |-> {}]
  BY <1>1 DEF Harness!ExpectedBoolean
<1>. HIDE DEF v, false
<1>. QED
  BY <1>1, <1>2 DEF v

(* What a comparison adds to a result, and that it takes nothing away.     *)
LEMMA JoinedFault ==
  ASSUME NEW result0, {"c3", "sdc"} \subseteq DOMAIN result0, NEW prefix, NEW c3
  PROVE  LET joined == Harness!AddComparisons(result0, prefix, c3)
         IN  /\ Harness!HasSDC(result0) => Harness!HasSDC(joined)
             /\ \A name \in DOMAIN c3 : c3[name].bitmap # {} => Harness!HasSDC(joined)
             /\ \A name \in DOMAIN c3 :
                  c3[name].status = Harness!Inconclusive /\ <<prefix, name>> \notin DOMAIN result0.c3
                    => Harness!HasSDC(joined)
             /\ DOMAIN joined.c3 = DOMAIN result0.c3 \cup {<<prefix, name>> : name \in DOMAIN c3}
<1>. DEFINE names == DOMAIN result0.c3 \cup {<<prefix, name>> : name \in DOMAIN c3}
            joined == Harness!AddComparisons(result0, prefix, c3)
<1>1. /\ joined.sdc = result0.sdc \cup UNION {c3[name].bitmap : name \in DOMAIN c3}
      /\ joined.c3 = [n \in names |-> IF n \in DOMAIN result0.c3 THEN result0.c3[n] ELSE c3[n[2]]]
  BY DEF Harness!AddComparisons
<1>. HIDE DEF joined
<1>2. DOMAIN joined.c3 = names
  BY <1>1
<1>3. \A n \in DOMAIN result0.c3 : n \in names /\ joined.c3[n] = result0.c3[n]
  BY <1>1
<1>4. \A name \in DOMAIN c3 : <<prefix, name>> \in names
  OBVIOUS
<1>5. \A name \in DOMAIN c3 : <<prefix, name>> \notin DOMAIN result0.c3
                                => joined.c3[<<prefix, name>>] = c3[name]
  BY <1>1, <1>4
<1>6. Harness!HasSDC(result0) => Harness!HasSDC(joined)
  <2>1. result0.sdc # {} => joined.sdc # {}
    BY <1>1
  <2>. HIDE DEF names
  <2>. QED
    BY <1>2, <1>3, <2>1 DEF Harness!HasSDC
<1>7. \A name \in DOMAIN c3 : c3[name].bitmap # {} => joined.sdc # {}
  BY <1>1
<1>. QED
  BY <1>2, <1>4, <1>5, <1>6, <1>7 DEF Harness!HasSDC, joined

(* A fault on record makes the aggregate one that does not certify.        *)
LEMMA AggregateKeeps ==
  ASSUME NEW results, NEW i \in DOMAIN results, Harness!HasSDC(results[i]), NEW complete
  PROVE  ~Harness!Certifies([complete |-> complete, c3 |-> Harness!Aggregate(results).c3,
                     sdc |-> Harness!Aggregate(results).sdc])
<1>. DEFINE total == Harness!Aggregate(results)
            names == {<<j, name>> : j \in DOMAIN results,
                        name \in UNION {DOMAIN results[j].c3 : j \in DOMAIN results}}
            kept == {n \in names : n[2] \in DOMAIN results[n[1]].c3}
<1>1. /\ total.c3 = [n \in kept |-> results[n[1]].c3[n[2]]]
      /\ total.sdc = UNION {results[j].sdc : j \in DOMAIN results}
  BY DEF Harness!Aggregate
<1>. HIDE DEF total
<1>2. CASE results[i].sdc # {}
  <2>1. total.sdc # {}
    BY <1>1, <1>2
  <2>. QED
    BY <2>1 DEF Harness!Certifies, Harness!HasSDC, total
<1>3. CASE \E n \in DOMAIN results[i].c3 : results[i].c3[n].status = Harness!Inconclusive
  <2>1. PICK n \in DOMAIN results[i].c3 : results[i].c3[n].status = Harness!Inconclusive
    BY <1>3
  <2>2. n \in UNION {DOMAIN results[j].c3 : j \in DOMAIN results}
    OBVIOUS
  <2>3. <<i, n>> \in names
    <3>. HIDE DEF names
    <3>. QED
      BY <2>2 DEF names
  <2>4. <<i, n>> \in kept
    BY <2>3
  <2>5. <<i, n>> \in DOMAIN total.c3 /\ total.c3[<<i, n>>].status = Harness!Inconclusive
    BY <1>1, <2>1, <2>4
  <2>. QED
    BY <2>5 DEF Harness!Certifies, Harness!HasSDC, total
<1>. QED
  BY <1>2, <1>3 DEF Harness!HasSDC

(* Merged rounds keep every accusation of every round. *)
LEMMA MergedKeeps ==
  ASSUME NEW rounds, 1 \in DOMAIN rounds, "sdc" \in DOMAIN rounds[1].replay,
         NEW i \in DOMAIN rounds, rounds[i].replay.sdc # {}
  PROVE  Harness!MergeRounds([j \in DOMAIN rounds |-> rounds[j].replay],
                     [j \in DOMAIN rounds |-> rounds[j].assessment], Rounds).sdc # {}
<1>. DEFINE replays == [j \in DOMAIN rounds |-> rounds[j].replay]
            merged == Harness!MergeRounds(replays, [j \in DOMAIN rounds |-> rounds[j].assessment], Rounds)
<1>1. merged.sdc = UNION {replays[j].sdc : j \in DOMAIN replays}
  BY DEF Harness!MergeRounds
<1>2. DOMAIN replays = DOMAIN rounds /\ replays[i] = rounds[i].replay
  OBVIOUS
<1>. HIDE DEF merged, replays
<1>3. merged.sdc # {}
  BY <1>1, <1>2
<1>. QED
  BY <1>3 DEF merged, replays

-----------------------------------------------------------------------------
(* A replay that is wrong is on record in its round, and stays on record.  *)
LEMMA ReplayTaints ==
  ASSUME Harness!HarnessAssumption, Harness!NobodyTies, HarnessTypes, CoverInv, TaintInv, Harness!Replay
  PROVE  TaintInv'
<1>1. PICK wrong \in Corruptions, times \in TimeVectors : Harness!Replayed(wrong, times)
  BY DEF Harness!Replay
<1>. DEFINE item == Head(check.todo)
            replay == Harness!ReplayRound([n \in {<<item, "output">>} |-> Harness!Vector(wrong)], times)
            assessment == Harness!Assess(baselines, Harness!KeyOf(item), times)
            round == [replay |-> replay, assessment |-> assessment]
            rounds == Append(check.rounds, round)
            merged == Harness!MergeRounds([i \in DOMAIN rounds |-> rounds[i].replay],
                                  [i \in DOMAIN rounds |-> rounds[i].assessment], Rounds)
            kept == [item |-> IF item = "shape" THEN position ELSE item,
                     c3 |-> merged.c3, sdc |-> merged.sdc, spatial |-> merged.spatial,
                     temporal |-> merged.temporal, group |-> merged.group]
            done == Append(check.done, kept)
            left == Harness!Rest(check.todo, done)
<1>2. /\ check.mode # "none" /\ check.todo # <<>> /\ item \in Harness!Modules \cup {"shape"}
      /\ tainted' = (tainted \/ wrong # {})
  BY <1>1 DEF Harness!Replay, Harness!Replayed
<1>3. TodoInv /\ "mode" \in DOMAIN check
  BY <1>2 DEF CoverInv, HarnessTypes
<1>4. wrong # {} => replay.sdc # {}
  <2>. DEFINE evidence == [n \in {<<item, "output">>} |-> Harness!Vector(wrong)]
  <2>1. evidence[<<item, "output">>] = Harness!Vector(wrong) /\ DOMAIN evidence = {<<item, "output">>}
    OBVIOUS
  <2>. HIDE DEF evidence
  <2>2. Harness!ReplayRound(evidence, times).sdc = UNION {Harness!ClassifyExact(evidence[n]).bitmap : n \in DOMAIN evidence}
    BY DEF Harness!ReplayRound
  <2>3. wrong # {} => Harness!ClassifyExact(Harness!Vector(wrong)).bitmap # {}
    BY WrongIsNamed
  <2>. QED
    BY <2>1, <2>2, <2>3 DEF evidence
<1>5. WithoutAllToAll(replay)
  <2>1. {"c3", "sdc"} \subseteq DOMAIN replay /\ DOMAIN replay.c3 = {<<item, "output">>}
    BY DEF Harness!ReplayRound
  <2>2. item # "all_to_all"
    BY <1>2 DEF Harness!Modules
  <2>. HIDE DEF replay, item
  <2>. QED
    BY <2>1, <2>2 DEF WithoutAllToAll
<1>6. round.replay = replay
  OBVIOUS
<1>. HIDE DEF round, replay, assessment
<1>7. /\ Len(check.rounds) \in Nat /\ DOMAIN check.rounds = 1 .. Len(check.rounds)
      /\ DOMAIN rounds = 1 .. Len(check.rounds) + 1
      /\ \A i \in 1 .. Len(check.rounds) : rounds[i] = check.rounds[i]
      /\ rounds[Len(check.rounds) + 1] = round
  BY <1>3, AppendedSeq DEF TodoInv
<1>8. \A i \in DOMAIN rounds : WithoutAllToAll(rounds[i].replay)
  <2>. TAKE i \in DOMAIN rounds
  <2>1. CASE i \in 1 .. Len(check.rounds)
    BY <1>2, <1>7, <2>1 DEF TaintInv
  <2>2. CASE i = Len(check.rounds) + 1
    BY <1>5, <1>6, <1>7, <2>2
  <2>. QED
    BY <1>7, <2>1, <2>2
<1>9. tainted' => \/ \E i \in DOMAIN rounds : rounds[i].replay.sdc # {}
                  \/ \E i \in DOMAIN check.done : Harness!HasSDC(check.done[i])
  <2>1. CASE wrong # {}
    BY <1>4, <1>6, <1>7, <2>1
  <2>2. CASE wrong = {} /\ tainted
    <3>1. CASE \E i \in DOMAIN check.rounds : check.rounds[i].replay.sdc # {}
      BY <1>7, <3>1
    <3>. QED
      BY <1>2, <2>2, <3>1 DEF TaintInv
  <2>. QED
    BY <1>2, <2>1, <2>2
<1>10. CASE check' = [check EXCEPT !.rounds = rounds]
  <2>. HIDE DEF rounds
  <2>1. check'.rounds = rounds /\ check'.done = check.done /\ check'.todo = check.todo
        /\ check'.mode = check.mode
    BY <1>3, <1>10 DEF TodoInv
  <2>. QED
    BY <1>2, <1>8, <1>9, <2>1 DEF TaintInv, Harness!CertifiedMeansClean
<1>11. CASE check' = [check EXCEPT !.rounds = <<>>, !.done = done, !.todo = left]
  <2>1. 1 \in DOMAIN rounds
    BY <1>7
  <2>. HIDE DEF rounds
  <2>2. ASSUME NEW i \in DOMAIN rounds, rounds[i].replay.sdc # {}
        PROVE  merged.sdc # {}
    BY <1>8, <2>1, <2>2, MergedKeeps DEF WithoutAllToAll
  <2>3. merged.c3 = rounds[1].replay.c3
    BY <1>8, <2>1 DEF Harness!MergeRounds, WithoutAllToAll
  <2>4. WithoutAllToAll(rounds[1].replay)
    BY <1>8, <2>1
  <2>. HIDE DEF merged
  <2>5. kept.sdc = merged.sdc /\ kept.c3 = merged.c3 /\ {"c3", "sdc"} \subseteq DOMAIN kept
    OBVIOUS
  <2>. HIDE DEF kept
  <2>6. WithoutAllToAll(kept)
    BY <2>3, <2>4, <2>5 DEF WithoutAllToAll
  <2>7. /\ Len(check.done) \in Nat /\ DOMAIN check.done = 1 .. Len(check.done)
        /\ DOMAIN done = 1 .. Len(check.done) + 1
        /\ \A i \in 1 .. Len(check.done) : done[i] = check.done[i]
        /\ done[Len(check.done) + 1] = kept
    BY <1>3, AppendedSeq DEF TodoInv
  <2>. HIDE DEF done, left
  <2>8. check'.rounds = <<>> /\ check'.done = done /\ check'.todo = left
        /\ check'.mode = check.mode
    BY <1>3, <1>11 DEF TodoInv
  <2>9. \A i \in DOMAIN done : WithoutAllToAll(done[i])
    <3>. TAKE i \in DOMAIN done
    <3>1. CASE i \in 1 .. Len(check.done)
      BY <1>2, <2>7, <3>1 DEF TaintInv
    <3>2. CASE i = Len(check.done) + 1
      BY <2>6, <2>7, <3>2
    <3>. QED
      BY <2>7, <3>1, <3>2
  <2>10. tainted' => \E i \in DOMAIN done : Harness!HasSDC(done[i])
    <3>1. CASE \E i \in DOMAIN rounds : rounds[i].replay.sdc # {}
      <4>1. Harness!HasSDC(kept)
        BY <2>2, <2>5, <3>1 DEF Harness!HasSDC
      <4>. QED
        BY <2>7, <4>1
    <3>2. CASE \E i \in DOMAIN check.done : Harness!HasSDC(check.done[i])
      BY <2>7, <3>2
    <3>. QED
      BY <1>9, <3>1, <3>2
  <2>11. DOMAIN <<>> = {}
    OBVIOUS
  <2>. QED
    BY <1>2, <2>8, <2>9, <2>10, <2>11 DEF TaintInv, Harness!CertifiedMeansClean
<1>. QED
  BY <1>1, <1>10, <1>11 DEF Harness!Replayed, round, replay, assessment

(* So is a wrong comparison of the optimizer or of AllToAll.               *)
LEMMA CompareTaints ==
  ASSUME HarnessTypes, CoverInv, TaintInv, check.mode # "none", check.todo # <<>>,
         NEW wrong, NEW prefix, NEW c3, Harness!Compare(wrong, prefix, c3), prefix = Head(check.todo),
         \/ /\ prefix = "optimizer" /\ check.todo # <<"all_to_all">>
            /\ wrong # {} => \E name \in DOMAIN c3 : c3[name].bitmap # {}
         \/ /\ prefix = "all_to_all" /\ check.todo = <<"all_to_all">> /\ DOMAIN c3 = {"output"}
            /\ wrong # {} => c3["output"].bitmap # {} \/ c3["output"].status = Harness!Inconclusive
  PROVE  TaintInv'
<1>. DEFINE none == [item |-> prefix, c3 |-> <<>>, sdc |-> {}, spatial |-> {},
                     temporal |-> {}, group |-> FALSE]
            done == IF check.done = <<>> THEN <<none>> ELSE check.done
            joined == Harness!AddComparisons(done[Len(done)], prefix, c3)
            added == [done EXCEPT ![Len(done)] = joined]
            left == IF Len(check.todo) = 1 THEN <<>> ELSE Harness!Rest(check.todo, added)
<1>1. /\ check' = [check EXCEPT !.done = added, !.todo = left]
      /\ tainted' = (tainted \/ wrong # {})
  BY DEF Harness!Compare
<1>2. TodoInv /\ "mode" \in DOMAIN check
  BY DEF CoverInv, HarnessTypes
<1>3. check'.done = added /\ check'.todo = left /\ check'.mode = check.mode
      /\ check'.rounds = check.rounds
  <2>. HIDE DEF added, left
  <2>. QED
    BY <1>1, <1>2 DEF TodoInv
<1>4. check.todo[1] = prefix
  OBVIOUS
<1>5. check.rounds = <<>>
  BY <1>2, <1>4 DEF TodoInv
<1>6. /\ done \in Seq(Range(done)) /\ done # <<>>
      /\ \A i \in DOMAIN done : WithoutAllToAll(done[i])
      /\ \A i \in DOMAIN check.done : i \in DOMAIN done /\ done[i] = check.done[i]
  <2>1. CASE check.done = <<>>
    <3>1. done = <<none>> /\ DOMAIN check.done = {}
      BY <2>1
    <3>2. {"c3", "sdc"} \subseteq DOMAIN none /\ none.c3 = <<>>
      OBVIOUS
    <3>3. DOMAIN <<>> = {}
      OBVIOUS
    <3>. HIDE DEF none, done
    <3>4. DOMAIN done = {1} /\ done[1] = none /\ done \in Seq({none}) /\ Range(done) = {none}
      BY <3>1 DEF Range
    <3>. QED
      BY <3>1, <3>2, <3>3, <3>4 DEF WithoutAllToAll
  <2>2. CASE check.done # <<>>
    BY <1>2, <2>2 DEF TodoInv, TaintInv
  <2>. QED
    BY <2>1, <2>2
<1>7. /\ added \in Seq(Range(added)) /\ added # <<>>
      /\ Len(done) \in DOMAIN done /\ DOMAIN added = DOMAIN done
      /\ added[Len(done)] = joined
      /\ \A i \in DOMAIN done : i # Len(done) => added[i] = done[i]
  <2>. HIDE DEF done, joined
  <2>. QED
    BY <1>6, JoinedSeq
<1>8. /\ Harness!HasSDC(done[Len(done)]) => Harness!HasSDC(joined)
      /\ \A name \in DOMAIN c3 : c3[name].bitmap # {} => Harness!HasSDC(joined)
      /\ \A name \in DOMAIN c3 :
           c3[name].status = Harness!Inconclusive /\ <<prefix, name>> \notin DOMAIN done[Len(done)].c3
             => Harness!HasSDC(joined)
      /\ DOMAIN joined.c3 = DOMAIN done[Len(done)].c3 \cup {<<prefix, name>> : name \in DOMAIN c3}
      /\ {"c3", "sdc"} \subseteq DOMAIN joined
  <2>1. WithoutAllToAll(done[Len(done)])
    BY <1>6, <1>7
  <2>. HIDE DEF done
  <2>2. {"c3", "sdc"} \subseteq DOMAIN joined
    BY <2>1 DEF Harness!AddComparisons, WithoutAllToAll
  <2>. DEFINE last == done[Len(done)]
  <2>3. {"c3", "sdc"} \subseteq DOMAIN last
    BY <2>1 DEF WithoutAllToAll
  <2>. HIDE DEF last
  <2>4. /\ Harness!HasSDC(last) => Harness!HasSDC(Harness!AddComparisons(last, prefix, c3))
        /\ \A name \in DOMAIN c3 : c3[name].bitmap # {} => Harness!HasSDC(Harness!AddComparisons(last, prefix, c3))
        /\ \A name \in DOMAIN c3 :
             c3[name].status = Harness!Inconclusive /\ <<prefix, name>> \notin DOMAIN last.c3
               => Harness!HasSDC(Harness!AddComparisons(last, prefix, c3))
        /\ DOMAIN Harness!AddComparisons(last, prefix, c3).c3
             = DOMAIN last.c3 \cup {<<prefix, name>> : name \in DOMAIN c3}
    BY <2>3, JoinedFault
  <2>. QED
    BY <2>2, <2>4 DEF last
<1>. HIDE DEF added, joined, left, done
<1>9. wrong # {} => Harness!HasSDC(joined)
  <2>1. <<"all_to_all", "output">> \notin DOMAIN done[Len(done)].c3
    BY <1>6, <1>7 DEF WithoutAllToAll
  <2>. QED
    BY <1>8, <2>1
<1>10. tainted' => \E i \in DOMAIN added : Harness!HasSDC(added[i])
  <2>1. CASE wrong # {}
    BY <1>7, <1>9, <2>1
  <2>2. CASE wrong = {} /\ tainted
    <3>1. PICK i \in DOMAIN check.done : Harness!HasSDC(check.done[i])
      BY <1>5, <2>2 DEF TaintInv
    <3>2. i \in DOMAIN done /\ Harness!HasSDC(done[i])
      BY <1>6, <3>1
    <3>3. Harness!HasSDC(added[i])
      BY <1>7, <1>8, <3>2
    <3>. QED
      BY <1>7, <3>2, <3>3
  <2>. QED
    BY <1>1, <2>1, <2>2
<1>11. left # <<>> => \A i \in DOMAIN added : WithoutAllToAll(added[i])
  <2>. SUFFICES ASSUME left # <<>>, NEW i \in DOMAIN added
                PROVE  WithoutAllToAll(added[i])
    OBVIOUS
  <2>1. prefix = "optimizer"
    <3>1. check.todo = <<"all_to_all">> => left = <<>>
      BY DEF left
    <3>. QED
      BY <3>1
  <2>2. CASE i = Len(done)
    BY <1>6, <1>7, <1>8, <2>1, <2>2 DEF WithoutAllToAll
  <2>3. CASE i # Len(done)
    BY <1>6, <1>7, <2>3
  <2>. QED
    BY <2>2, <2>3
<1>12. DOMAIN <<>> = {}
  OBVIOUS
<1>. QED
  BY <1>3, <1>5, <1>10, <1>11, <1>12 DEF TaintInv, Harness!CertifiedMeansClean

LEMMA TaintStep ==
  ASSUME Harness!HarnessAssumption, Harness!NobodyTies, HarnessTypes, CoverInv, TaintInv, [Harness!Next]_(Harness!vars)
  PROVE  TaintInv'
<1>1. CASE Harness!TrainStep
  <2>1. check' = check /\ check.mode = "none" /\ result'.certifies = FALSE
    BY <1>1 DEF Harness!TrainStep, Harness!NoResult
  <2>. QED
    BY <2>1 DEF TaintInv, Harness!CertifiedMeansClean
<1>2. ASSUME NEW mode, NEW plans, Harness!Begin(mode, plans), tainted' = FALSE,
             mode \in {"cycle", "scheduled", "emergency"}
      PROVE  TaintInv'
  <2>1. check'.mode = mode /\ check'.rounds = <<>> /\ check'.done = <<>>
    BY <1>2 DEF Harness!Begin, Harness!NoCheck
  <2>2. DOMAIN <<>> = {}
    OBVIOUS
  <2>. QED
    BY <1>2, <2>1, <2>2 DEF TaintInv, Harness!CertifiedMeansClean
<1>3. ASSUME NEW outcome, NEW waiting, Harness!Return(outcome, waiting), tainted' = FALSE,
             check.mode = "none"
      PROVE  TaintInv'
  BY <1>3 DEF Harness!Return, TaintInv, Harness!CertifiedMeansClean
<1>4. ASSUME NEW complete \in BOOLEAN, Harness!Step(complete)
      PROVE  TaintInv'
  <2>1. /\ check.mode = "none" /\ tainted' = FALSE
        /\ \/ \E outcome, waiting : Harness!Return(outcome, waiting)
           \/ \E mode \in {"cycle", "scheduled", "emergency"} : \E plans : Harness!Begin(mode, plans)
    <3>. DEFINE mode == IF complete THEN "cycle" ELSE "scheduled"
                due == {r \in Peers : Harness!DueRecipes(r, TRUE, count) # <<>>}
                plans == [r \in Peers |->
                            IF catalog = "dense" THEN Harness!DensePlan(r, ~complete)
                            ELSE Harness!SweepPlan(r, IF complete THEN Shapes ELSE 1)]
    <3>1. /\ check.mode = "none" /\ tainted' = FALSE
          /\ Harness!Return(Harness!Incomplete, {}) \/ Harness!Return(Harness!NoResult, due) \/ Harness!Begin(mode, plans)
      BY <1>4 DEF Harness!Step
    <3>2. mode \in {"cycle", "scheduled", "emergency"}
      OBVIOUS
    <3>. HIDE DEF mode, due, plans
    <3>. QED
      BY <3>1, <3>2
  <2>. QED
    BY <1>2, <1>3, <2>1
<1>5. CASE Harness!EmergencyCheck
  <2>1. /\ check.mode = "none" /\ tainted' = FALSE
        /\ \/ \E outcome, waiting : Harness!Return(outcome, waiting)
           \/ \E plans : Harness!Begin("emergency", plans)
    BY <1>5 DEF Harness!EmergencyCheck
  <2>. QED
    BY <1>2, <1>3, <2>1
<1>6. CASE Harness!Replay
  BY <1>6, ReplayTaints
<1>7. CASE Harness!ReplayOptimizer
  <2>. DEFINE ok == [status |-> [status |-> Harness!Agree, bitmap |-> {}]]
              bad == [status |-> [status |-> Harness!Inconclusive, bitmap |-> {}]]
  <2>1. PICK wrong \in Corruptions :
          \/ Harness!Compare(wrong, "optimizer", [status |-> [status |-> Harness!Agree, bitmap |-> {}],
                                          updated_weight |-> Harness!ClassifyExact(Harness!Vector(wrong))])
          \/ Harness!Compare({}, "optimizer", bad)
    BY <1>7 DEF Harness!ReplayOptimizer
  <2>2. /\ check.mode # "none" /\ check.todo # <<>> /\ Head(check.todo) = "optimizer"
        /\ check.todo # <<"all_to_all">>
    BY <1>7 DEF Harness!ReplayOptimizer
  <2>. DEFINE c3 == [status |-> [status |-> Harness!Agree, bitmap |-> {}],
                     updated_weight |-> Harness!ClassifyExact(Harness!Vector(wrong))]
  <2>3. wrong # {} => \E name \in DOMAIN c3 : c3[name].bitmap # {}
    <3>1. "updated_weight" \in DOMAIN c3 /\ c3["updated_weight"] = Harness!ClassifyExact(Harness!Vector(wrong))
      OBVIOUS
    <3>2. wrong # {} => Harness!ClassifyExact(Harness!Vector(wrong)).bitmap # {}
      BY WrongIsNamed
    <3>. HIDE DEF c3
    <3>. QED
      BY <3>1, <3>2
  <2>4. Harness!Compare(wrong, "optimizer", c3) \/ Harness!Compare({}, "optimizer", bad)
    BY <2>1
  <2>. HIDE DEF c3, bad
  <2>. QED
    BY <2>2, <2>3, <2>4, CompareTaints
<1>8. CASE Harness!ReplayAllToAll
  <2>1. PICK wrong \in Corruptions :
          Harness!Compare(wrong, "all_to_all", [output |-> Harness!ExpectedBoolean([r \in Peers |-> r \notin wrong])])
    BY <1>8 DEF Harness!ReplayAllToAll
  <2>. DEFINE c3 == [output |-> Harness!ExpectedBoolean([r \in Peers |-> r \notin wrong])]
  <2>2. check.mode # "none" /\ check.todo = <<"all_to_all">>
    BY <1>8 DEF Harness!ReplayAllToAll
  <2>3. wrong # {} => c3["output"].bitmap # {} \/ c3["output"].status = Harness!Inconclusive
    <3>1. wrong \subseteq Peers
      BY DEF Harness!HarnessAssumption
    <3>. QED
      BY <3>1, UnexpectedIsSeen
  <2>4. DOMAIN c3 = {"output"} /\ Harness!Compare(wrong, "all_to_all", c3)
    BY <2>1
  <2>. HIDE DEF c3
  <2>5. check.todo # <<>> /\ Head(check.todo) = "all_to_all"
    BY <2>2
  <2>. QED
    BY <2>2, <2>3, <2>4, <2>5, CompareTaints
<1>9. CASE Harness!Finish
  <2>. DEFINE total == Harness!Aggregate(check.done)
              complete == catalog = "dense" \/ Len(check.done) = Shapes
              certifies == Harness!Certifies([complete |-> complete, c3 |-> total.c3, sdc |-> total.sdc])
  <2>1. /\ check.mode # "none" /\ check.todo = <<>> /\ check' = Harness!NoCheck
        /\ result'.certifies = certifies /\ tainted' = tainted
    BY <1>9 DEF Harness!Finish
  <2>2. tainted => \E i \in DOMAIN check.done : Harness!HasSDC(check.done[i])
    <3>1. check.rounds = <<>>
      BY <2>1 DEF CoverInv, TodoInv
    <3>. QED
      BY <2>1, <3>1 DEF TaintInv
  <2>3. tainted => ~certifies
    BY <2>2, AggregateKeeps
  <2>. HIDE DEF certifies
  <2>4. check'.mode = "none"
    BY <2>1 DEF Harness!NoCheck
  <2>. QED
    BY <2>1, <2>3, <2>4 DEF TaintInv, Harness!CertifiedMeansClean
<1>10. CASE UNCHANGED Harness!vars
  BY <1>10 DEF Harness!vars, TaintInv, Harness!CertifiedMeansClean
<1>. QED
  BY <1>1, <1>4, <1>5, <1>6, <1>7, <1>8, <1>9, <1>10 DEF Harness!Next

-----------------------------------------------------------------------------
(* What a certified check checked: every shape of the plan, or every       *)
(* recipe that was due.                                                    *)
THEOREM CertifiedIsCoveredAlways ==
  ASSUME Harness!HarnessAssumption
  PROVE  Harness!Spec => []Harness!CertifiedIsCovered
<1>. DEFINE Inv == HarnessInv /\ CoverInv
<1>1. Harness!Init => Inv
  BY HarnessInit, CoverInit
<1>2. Inv /\ [Harness!Next]_(Harness!vars) => Inv'
  BY HarnessStep, CoverStep
<1>3. Inv => Harness!CertifiedIsCovered
  BY DEF CoverInv
<1>. QED
  BY <1>1, <1>2, <1>3, PTL DEF Harness!Spec

(* Nor did any rank compute a wrong value in it: one that an exact         *)
(* comparison saw is in the bitmaps or made it inconclusive, as long as no *)
(* corruption splits the group in halves (replay_result_certifies).        *)
THEOREM CertifiedMeansCleanAlways ==
  ASSUME Harness!HarnessAssumption, Harness!NobodyTies
  PROVE  Harness!Spec => []CertifiedMeansClean
<1>. DEFINE Inv == HarnessInv /\ CoverInv /\ TaintInv
<1>1. Harness!Init => Inv
  <2>1. Harness!Init => TaintInv
    BY DEF Harness!Init, TaintInv, Harness!CertifiedMeansClean, Harness!NoCheck
  <2>. QED
    BY <2>1, HarnessInit, CoverInit
<1>2. Inv /\ [Harness!Next]_(Harness!vars) => Inv'
  <2>. SUFFICES ASSUME Inv, [Harness!Next]_(Harness!vars) PROVE Inv'
    OBVIOUS
  <2>1. HarnessInv' /\ CoverInv'
    BY HarnessStep, CoverStep
  <2>2. TaintInv'
    BY TaintStep DEF HarnessInv
  <2>. QED
    BY <2>1, <2>2
<1>3. Inv => CertifiedMeansClean
  BY DEF CoverInv, TaintInv, CertifiedMeansClean
<1>. QED
  BY <1>1, <1>2, <1>3, PTL DEF Harness!Spec

-----------------------------------------------------------------------------
(***************************************************************************)
(* Localization.  What the window holds of the fault (WindowInv), and what *)
(* the streaks say of the faults of past rounds (StreakInv).               *)
(***************************************************************************)
LevelSet == {10, Local!Levels.neutral, 2 * SlowFactor}

WindowInv ==
  /\ fault \in Local!Faults
  /\ samples \in [Groups -> Seq(LevelSet)]
  /\ \A g \in Groups : \A i \in DOMAIN samples[g] :
       \E level \in Local!Observable(g) : samples[g][i] = Local!Levels[level]
  /\ failed \subseteq {g \in Groups : "slow" \in Local!Observable(g)}

BlamedForIt(truth) == truth = [kind |-> "switch", at |-> switch.suspect]

StreakInv ==
  /\ truths \in Seq(Local!Faults)
  /\ endpoint.streak \in 0 .. Len(truths)
  /\ \A r \in endpoint.suspect :
       \A i \in (Len(truths) - endpoint.streak + 1) .. Len(truths) : Local!Guilty(r, truths[i])
  /\ verdict.endpoint # {} =>
       verdict.endpoint = endpoint.suspect /\ endpoint.streak >= Persistence

SwitchInv ==
  /\ truths \in Seq(Local!Faults)
  /\ switch.streak \in 0 .. Len(truths)
  /\ switch.suspect # {} =>
       \A i \in (Len(truths) - switch.streak + 1) .. Len(truths) : BlamedForIt(truths[i])
  /\ verdict.switch # {} =>
       verdict.switch = switch.suspect /\ switch.streak >= Persistence

-----------------------------------------------------------------------------
(* The three levels.                                                       *)
LEMMA LevelsAre ==
  ASSUME Local!LocalizationAssumption
  PROVE  /\ Local!Levels.healthy = 10 /\ Local!Levels.slow = 2 * SlowFactor
         /\ Local!Levels.neutral \in Nat
         /\ HealthyFactor < Local!Levels.neutral /\ Local!Levels.neutral < 2 * SlowFactor
         /\ DOMAIN Local!Levels = {"healthy", "neutral", "slow"}
         /\ LevelSet \subseteq Nat
         /\ \A level \in DOMAIN Local!Levels : Local!Levels[level] \in LevelSet
<1>1. (HealthyFactor + SlowFactor) \div 2 > HealthyFactor
  BY DEF Local!LocalizationAssumption
<1>2. (HealthyFactor + SlowFactor) \div 2 < 2 * SlowFactor
  BY DEF Local!LocalizationAssumption
<1>. QED
  BY <1>1, <1>2 DEF Local!LocalizationAssumption, Local!Levels, LevelSet

(* A set of numbers that is not empty has a least one.                     *)
LEMMA LeastNatural ==
  ASSUME NEW S \in SUBSET Nat, S # {}
  PROVE  \E x \in S : \A y \in S : x <= y
<1>1. PICK k \in S : \A y \in S : ~ (<<y, k>> \in OpToRel(<, Nat))
  BY NatLessThanWellFounded, WFMin
<1>2. \A y \in S : ~ (y < k)
  BY <1>1 DEF OpToRel
<1>3. \A y \in S : k <= y
  BY <1>2
<1>. QED BY <1>3

(* Localization names these notions for itself.                            *)
LEMMA SameCardinality ==
  ASSUME NEW S
  PROVE  /\ Local!IsFiniteSet(S) <=> IsFiniteSet(S)
         /\ Local!Cardinality(S) = Cardinality(S)
<1>1. Local!IsFiniteSet(S) <=> IsFiniteSet(S)
  BY DEF Local!IsFiniteSet, IsFiniteSet
<1>2. Local!Cardinality(S) = Cardinality(S)
  BY DEF Local!Cardinality, Cardinality
<1>. QED BY <1>1, <1>2

(* The k-th smallest sample is one of the samples.                         *)
LEMMA SmallestIsSample ==
  ASSUME Local!LocalizationAssumption, NEW q \in Seq(LevelSet), NEW k \in 1 .. Len(q)
  PROVE  \E i \in DOMAIN q : Local!Smallest(q, k) = q[i]
<1>. DEFINE Below(v) == {i \in DOMAIN q : q[i] <= v}
            S == {v \in Local!Range(q) : Cardinality(Below(v)) >= k}
<1>. HIDE DEF S, Below
<1>0. SlowFactor \in Nat
  BY DEF Local!LocalizationAssumption
<1>1. /\ DOMAIN q = 1 .. Len(q) /\ Len(q) \in Nat /\ \A i \in DOMAIN q : q[i] \in LevelSet
      /\ Local!Range(q) = {q[i] : i \in DOMAIN q}
  BY DEF Local!Range
<1>2. LevelSet \subseteq Nat /\ \A v \in LevelSet : v <= 2 * SlowFactor
  BY LevelsAre DEF LevelSet, Local!LocalizationAssumption
<1>3. PICK m \in DOMAIN q : \A i \in DOMAIN q : q[i] <= q[m]
  <2>. DEFINE T == {2 * SlowFactor - q[i] : i \in DOMAIN q}
  <2>1. T \in SUBSET Nat /\ T # {}
    <3>1. ASSUME NEW i \in DOMAIN q PROVE 2 * SlowFactor - q[i] \in Nat
      <4>1. q[i] \in Nat /\ q[i] <= 2 * SlowFactor
        BY <1>1, <1>2
      <4>. QED BY <4>1, <1>0
    <3>2. 1 \in DOMAIN q
      BY <1>1
    <3>. QED BY <3>1, <3>2
  <2>2. PICK x \in T : \A y \in T : x <= y
    BY <2>1, LeastNatural
  <2>3. PICK m \in DOMAIN q : x = 2 * SlowFactor - q[m]
    BY <2>2
  <2>4. ASSUME NEW i \in DOMAIN q PROVE q[i] <= q[m]
    <3>1. x <= 2 * SlowFactor - q[i]
      BY <2>2
    <3>2. q[i] \in Nat /\ q[m] \in Nat
      BY <1>1, <1>2
    <3>. QED BY <3>1, <3>2, <2>3, <1>0
  <2>. QED BY <2>4
<1>4. q[m] \in S
  <2>1. Below(q[m]) = 1 .. Len(q)
    BY <1>1, <1>3 DEF Below
  <2>2. Cardinality(1 .. Len(q)) = Len(q)
    <3>1. 1 \in Int /\ Len(q) \in Int /\ 1 <= Len(q)
      BY <1>1
    <3>2. Cardinality(1 .. Len(q)) = IF 1 > Len(q) THEN 0 ELSE Len(q) - 1 + 1
      BY <3>1, FS_Interval
    <3>. QED BY <3>1, <3>2
  <2>3. q[m] \in Local!Range(q)
    BY <1>1
  <2>. QED BY <2>1, <2>2, <2>3, <1>1 DEF S
<1>5. S \in SUBSET Nat
  BY <1>1, <1>2 DEF S
<1>6. PICK x \in S : \A y \in S : x <= y
  BY <1>4, <1>5, LeastNatural
<1>7. Local!Min(S) \in S
  BY <1>6 DEF Local!Min
<1>8. Local!Smallest(q, k) = Local!Min(S)
  BY SameCardinality DEF Local!Smallest, S, Below
<1>. QED
  BY <1>1, <1>7, <1>8 DEF S

(* The median lies between two samples.                                    *)
LEMMA MedianBounds ==
  ASSUME Local!LocalizationAssumption, NEW q \in Seq(LevelSet), q # <<>>,
         NEW lo \in Nat, NEW hi \in Nat,
         \A i \in DOMAIN q : lo <= q[i] /\ q[i] <= hi
  PROVE  Local!Median(q) \in lo .. hi
<1>. DEFINE n == Len(q)
            a == Local!Smallest(q, (n + 1) \div 2)
            b == Local!Smallest(q, n \div 2 + 1)
<1>1. n \in Nat \ {0} /\ DOMAIN q = 1 .. n
  BY EmptySeq
<1>2. (n + 1) \div 2 \in 1 .. n /\ n \div 2 + 1 \in 1 .. n
  BY <1>1
<1>. HIDE DEF n
<1>3. PICK i \in DOMAIN q : a = q[i]
  BY <1>2, SmallestIsSample DEF n
<1>4. PICK j \in DOMAIN q : b = q[j]
  BY <1>2, SmallestIsSample DEF n
<1>. HIDE DEF a, b
<1>5. a \in Nat /\ b \in Nat /\ lo <= a /\ a <= hi /\ lo <= b /\ b <= hi
  <2>1. LevelSet \subseteq Nat
    BY LevelsAre
  <2>2. q[i] \in LevelSet /\ q[j] \in LevelSet
    BY <1>1
  <2>. QED BY <1>3, <1>4, <2>1, <2>2
<1>6. (a + b) \div 2 \in lo .. hi
  BY <1>5
<1>. QED
  BY <1>6 DEF Local!Median, n, a, b

(* What the latency of a group says of the fault.                          *)
LEMMA LatencyTells ==
  ASSUME Local!LocalizationAssumption, WindowInv, NEW g \in Groups, samples[g] # <<>>
  PROVE  /\ Local!Latency(g) \in 10 .. 2 * SlowFactor
         /\ ~ Local!Touches(g) /\ straggler \cap Members[g] = {} => Local!Latency(g) = 10
         /\ Local!Touches(g) => Local!Latency(g) > HealthyFactor
         /\ Local!Touches(g) /\ fault.kind = "switch" => Local!Latency(g) = 2 * SlowFactor
<1>. DEFINE q == samples[g]
<1>1. q \in Seq(LevelSet) /\ q # <<>> /\ Local!Latency(g) = Local!Median(q)
  BY DEF WindowInv, Local!Latency
<1>2. \A i \in DOMAIN q : \E level \in Local!Observable(g) : q[i] = Local!Levels[level]
  BY DEF WindowInv
<1>. HIDE DEF q
<1>3. {HealthyFactor, SlowFactor} \subseteq Nat /\ 10 <= HealthyFactor /\ HealthyFactor < SlowFactor
  BY DEF Local!LocalizationAssumption
<1>4. /\ Local!Levels.healthy = 10 /\ Local!Levels.slow = 2 * SlowFactor
      /\ Local!Levels.neutral \in Nat
      /\ HealthyFactor < Local!Levels.neutral /\ Local!Levels.neutral < 2 * SlowFactor
      /\ DOMAIN Local!Levels = {"healthy", "neutral", "slow"}
  BY LevelsAre
<1>5. ASSUME NEW i \in DOMAIN q
      PROVE  /\ 10 <= q[i] /\ q[i] <= 2 * SlowFactor
             /\ ~ Local!Touches(g) /\ straggler \cap Members[g] = {} => q[i] = 10
             /\ Local!Touches(g) => Local!Levels.neutral <= q[i]
             /\ Local!Touches(g) /\ fault.kind = "switch" => q[i] = 2 * SlowFactor
  <2>1. PICK level \in Local!Observable(g) : q[i] = Local!Levels[level]
    BY <1>2
  <2>2. /\ level \in {"healthy", "neutral", "slow"}
        /\ level = "healthy" => ~ Local!Touches(g)
        /\ level = "neutral" => Local!Touches(g) /\ fault.kind = "endpoint"
        /\ level = "slow" => Local!Touches(g) \/ straggler \cap Members[g] # {}
    BY <2>1, <1>4 DEF Local!Observable
  <2>3. CASE level = "healthy"
    BY <2>1, <2>2, <2>3, <1>3, <1>4
  <2>4. CASE level = "neutral"
    BY <2>1, <2>2, <2>4, <1>3, <1>4
  <2>5. CASE level = "slow"
    BY <2>1, <2>2, <2>5, <1>3, <1>4
  <2>. QED BY <2>2, <2>3, <2>4, <2>5
<1>6. 10 \in Nat /\ 2 * SlowFactor \in Nat
  BY <1>3
<1>7. Local!Latency(g) \in 10 .. 2 * SlowFactor
  BY <1>1, <1>5, <1>6, MedianBounds
<1>8. ASSUME ~ Local!Touches(g), straggler \cap Members[g] = {} PROVE Local!Latency(g) = 10
  <2>1. \A i \in DOMAIN q : 10 <= q[i] /\ q[i] <= 10
    BY <1>5, <1>8
  <2>2. Local!Median(q) \in 10 .. 10
    BY <2>1, <1>1, <1>6, MedianBounds
  <2>. QED BY <2>2, <1>1
<1>9. ASSUME Local!Touches(g) PROVE Local!Latency(g) > HealthyFactor
  <2>1. \A i \in DOMAIN q : Local!Levels.neutral <= q[i] /\ q[i] <= 2 * SlowFactor
    BY <1>5, <1>9
  <2>2. Local!Median(q) \in Local!Levels.neutral .. 2 * SlowFactor
    BY <2>1, <1>1, <1>4, <1>6, MedianBounds
  <2>. QED BY <2>2, <1>1, <1>3, <1>4
<1>10. ASSUME Local!Touches(g), fault.kind = "switch" PROVE Local!Latency(g) = 2 * SlowFactor
  <2>1. \A i \in DOMAIN q : 2 * SlowFactor <= q[i] /\ q[i] <= 2 * SlowFactor
    BY <1>5, <1>6, <1>10
  <2>2. Local!Median(q) \in 2 * SlowFactor .. 2 * SlowFactor
    BY <2>1, <1>1, <1>6, MedianBounds
  <2>. QED BY <2>2, <1>1, <1>6
<1>. QED BY <1>7, <1>8, <1>9, <1>10

-----------------------------------------------------------------------------
(* Only the fault makes a group slow in which no straggler computes.       *)
LEMMA SlowIsTouched ==
  ASSUME Local!LocalizationAssumption, WindowInv, NEW g \in Local!SlowGroups,
         Members[g] \cap straggler = {}
  PROVE  g \in Groups /\ Local!Touches(g)
<1>1. CASE g \in failed
  BY <1>1 DEF WindowInv, Local!Observable
<1>2. CASE g \notin failed
  <2>1. g \in Groups /\ samples[g] # <<>> /\ Local!Latency(g) >= SlowFactor
    BY <1>2 DEF Local!SlowGroups, Local!Reported
  <2>2. SlowFactor \in Nat /\ SlowFactor > 10
    BY DEF Local!LocalizationAssumption
  <2>3. straggler \cap Members[g] = {}
    OBVIOUS
  <2>4. Local!Latency(g) # 10
    BY <2>1, <2>2
  <2>. QED BY <2>1, <2>3, <2>4, LatencyTells
<1>. QED BY <1>1, <1>2

(* A group that the fault is on does not look healthy.                     *)
LEMMA HealthyIsNotTouched ==
  ASSUME Local!LocalizationAssumption, WindowInv, NEW g \in Local!HealthyGroups
  PROVE  g \in Groups /\ ~ Local!Touches(g)
<1>1. g \in Groups /\ samples[g] # <<>> /\ Local!Latency(g) <= HealthyFactor
  BY DEF Local!HealthyGroups, Local!Reported
<1>2. HealthyFactor \in Nat /\ SlowFactor \in Nat
  BY DEF Local!LocalizationAssumption
<1>3. Local!Latency(g) \in Nat
  BY <1>1, <1>2, LatencyTells
<1>. QED BY <1>1, <1>2, <1>3, LatencyTells

(* A suspect is the only endpoint that the slow groups share and no healthy*)
(* group has, and two of the slow groups differ.                           *)
LEMMA SuspectIsExact ==
  ASSUME Local!LocalizationAssumption, NEW slow, NEW healthy,
         NEW r \in Local!Suspects(slow, healthy)
  PROVE  /\ r \in Endpoints
         /\ Local!Suspects(slow, healthy) = {r} /\ Local!Exact(slow, healthy) = {r}
         /\ \A g \in slow : r \in Members[g]
         /\ \E g, h \in slow : Members[g] # Members[h]
<1>. DEFINE exact == Local!Exact(slow, healthy)
            sets == {Members[g] : g \in slow}
<1>1. /\ Local!Cardinality(sets) >= 2 /\ Local!Cardinality(exact) = 1
      /\ Local!Suspects(slow, healthy) = exact
  BY DEF Local!Suspects
<1>2. exact \subseteq Endpoints /\ \A s \in exact : \A g \in slow : s \in Members[g]
  BY DEF Local!Exact
<1>3. IsFiniteSet(Endpoints)
  BY SameCardinality DEF Local!LocalizationAssumption
<1>4. exact = {r}
  <2>1. IsFiniteSet(exact)
    BY <1>2, <1>3, FS_Subset
  <2>2. Cardinality(exact) = 1
    BY <1>1, SameCardinality
  <2>3. PICK x : exact = {x}
    BY <2>1, <2>2, FS_Singleton
  <2>. QED BY <2>3, <1>1
<1>5. \E g, h \in slow : Members[g] # Members[h]
  <2>1. SUFFICES ASSUME \A g, h \in slow : Members[g] = Members[h] PROVE FALSE
    OBVIOUS
  <2>2. Cardinality(sets) >= 2
    BY <1>1, SameCardinality
  <2>3. CASE slow = {}
    <3>1. sets = {}
      BY <2>3
    <3>2. Cardinality(sets) = 0
      BY <3>1, FS_EmptySet
    <3>. HIDE DEF sets
    <3>. QED BY <3>2, <2>2
  <2>4. CASE slow # {}
    <3>1. PICK g \in slow : TRUE
      BY <2>4
    <3>2. sets = {Members[g]}
      BY <2>1, <3>1
    <3>3. Cardinality(sets) = 1
      BY <3>2, FS_Singleton
    <3>. HIDE DEF sets
    <3>. QED BY <3>3, <2>2
  <2>. QED BY <2>3, <2>4
<1>. QED BY <1>1, <1>2, <1>4, <1>5

(* The fault is an endpoint, a switch or nothing.                          *)
LEMMA FaultIs ==
  ASSUME fault \in Local!Faults
  PROVE  \/ fault = Local!NoFault /\ fault.kind = "none" /\ \A g : ~ Local!Touches(g)
         \/ \E e \in Endpoints :
              /\ fault = [kind |-> "endpoint", at |-> {e}]
              /\ \A g : Local!Touches(g) <=> e \in Members[g]
         \/ \E w \in Local!Switches :
              /\ fault = [kind |-> "switch", at |-> {w}]
              /\ \A g : Local!Touches(g) <=> w \in Local!PathOf(g)
<1>1. CASE fault = Local!NoFault
  BY <1>1 DEF Local!NoFault, Local!Touches
<1>2. CASE \E e \in Endpoints : fault = [kind |-> "endpoint", at |-> {e}]
  <2>1. PICK e \in Endpoints : fault = [kind |-> "endpoint", at |-> {e}]
    BY <1>2
  <2>2. \A g : Local!Touches(g) <=> e \in Members[g]
    BY <2>1 DEF Local!Touches
  <2>. QED BY <2>1, <2>2
<1>3. CASE \E w \in Local!Switches : fault = [kind |-> "switch", at |-> {w}]
  <2>1. PICK w \in Local!Switches : fault = [kind |-> "switch", at |-> {w}]
    BY <1>3
  <2>2. \A g : Local!Touches(g) <=> w \in Local!PathOf(g)
    BY <2>1 DEF Local!Touches
  <2>. QED BY <2>1, <2>2
<1>. QED BY <1>1, <1>2, <1>3 DEF Local!Faults

(* The endpoint that a window points to is guilty of it.                   *)
LEMMA SuspectIsGuilty ==
  ASSUME Local!LocalizationAssumption, Local!LeavesApart, WindowInv,
         NEW r \in Local!Suspects({g \in Local!SlowGroups : Members[g] \cap straggler = {}},
                                  Local!HealthyGroups)
  PROVE  Local!Guilty(r, fault)
<1>. DEFINE slow == {g \in Local!SlowGroups : Members[g] \cap straggler = {}}
<1>1. \A g \in slow : g \in Groups /\ Local!Touches(g)
  BY SlowIsTouched
<1>2. \A g \in Local!HealthyGroups : ~ Local!Touches(g)
  BY HealthyIsNotTouched
<1>. HIDE DEF slow
<1>3. /\ Local!Exact(slow, Local!HealthyGroups) = {r}
      /\ \A g \in slow : r \in Members[g]
      /\ \E g, h \in slow : Members[g] # Members[h]
  BY SuspectIsExact DEF slow
<1>4. PICK g \in slow, h \in slow : Members[g] # Members[h]
  BY <1>3
<1>5. CASE \A f : ~ Local!Touches(f)
  BY <1>1, <1>4, <1>5
<1>6. ASSUME NEW e \in Endpoints, fault = [kind |-> "endpoint", at |-> {e}],
             \A f : Local!Touches(f) <=> e \in Members[f]
      PROVE  Local!Guilty(r, fault)
  <2>1. e \in Local!Exact(slow, Local!HealthyGroups)
    BY <1>1, <1>2, <1>6 DEF Local!Exact
  <2>. QED BY <2>1, <1>3, <1>6 DEF Local!Guilty
<1>7. ASSUME NEW w \in Local!Switches, fault = [kind |-> "switch", at |-> {w}],
             \A f : Local!Touches(f) <=> w \in Local!PathOf(f)
      PROVE  Local!Guilty(r, fault)
  <2>1. g \in Groups /\ h \in Groups /\ w \in Local!PathOf(g) \cap Local!PathOf(h)
    BY <1>1, <1>7
  <2>2. r \in Members[g] \cap Members[h]
    BY <1>3
  <2>3. w = Leaf[r]
    BY <2>1, <2>2, <1>4 DEF Local!LeavesApart
  <2>. QED BY <2>3, <1>7 DEF Local!Guilty
<1>. QED BY <1>5, <1>6, <1>7, FaultIs DEF WindowInv

(* Without stragglers, and with an endpoint at fault, whatever reports and *)
(* flags are lost, CrossPGCoordinator names it or nobody.                  *)
LEMMA CrossPGNamesTheFault ==
  ASSUME Local!LocalizationAssumption, Local!CrossOnce, WindowInv,
         straggler = {}, fault.kind = "endpoint", NEW lost, NEW deaf,
         Local!CrossPG(lost, deaf) # {}
  PROVE  Local!CrossPG(lost, deaf) = fault.at
<1>. DEFINE complete == {g \in Local!Reported : Members[g] \cap lost = {}}
            Votes(g) == IF g \in Local!SlowGroups THEN Members[g] \ deaf ELSE {}
            slow == {g \in complete :
                       Local!Cardinality(Votes(g)) > Local!Cardinality(Members[g]) \div 2}
<1>1. Local!CrossPG(lost, deaf) = Local!Suspects(slow, complete \ slow)
  BY DEF Local!CrossPG
<1>2. PICK e \in Endpoints : /\ fault = [kind |-> "endpoint", at |-> {e}]
                             /\ \A g : Local!Touches(g) <=> e \in Members[g]
  BY FaultIs DEF WindowInv
<1>3. ASSUME NEW g \in slow PROVE g \in Groups /\ e \in Members[g]
  <2>1. g \in Groups
    BY DEF Local!Reported, WindowInv
  <2>2. IsFiniteSet(Members[g])
    <3>1. Members[g] \subseteq Endpoints /\ IsFiniteSet(Endpoints)
      BY <2>1, SameCardinality DEF Local!LocalizationAssumption
    <3>. QED BY <3>1, FS_Subset
  <2>3. Local!Cardinality(Members[g]) \in Nat
    BY <2>2, SameCardinality, FS_CardinalityType
  <2>4. Local!Cardinality({}) = 0
    BY SameCardinality, FS_EmptySet
  <2>5. Votes(g) # {}
    <3>. DEFINE votes == Local!Cardinality(Votes(g))
    <3>1. votes > Local!Cardinality(Members[g]) \div 2
      OBVIOUS
    <3>2. Votes(g) = {} => votes = 0
      BY <2>4
    <3>. HIDE DEF votes
    <3>3. votes # 0
      BY <2>3, <3>1
    <3>. QED BY <3>2, <3>3
  <2>6. g \in Local!SlowGroups
    BY <2>5
  <2>. QED BY <2>1, <2>6, <1>2, SlowIsTouched
<1>. HIDE DEF slow, complete
<1>4. PICK r \in Local!Suspects(slow, complete \ slow) : TRUE
  BY <1>1
<1>5. /\ Local!Suspects(slow, complete \ slow) = {r}
      /\ \A g \in slow : r \in Members[g]
      /\ \E g, h \in slow : Members[g] # Members[h]
  BY SuspectIsExact
<1>6. r = e
  BY <1>3, <1>5 DEF Local!CrossOnce
<1>. QED BY <1>1, <1>2, <1>5, <1>6

-----------------------------------------------------------------------------
(* SwitchLocalizer compares with the fastest group of the window.          *)
LEMMA Baseline ==
  ASSUME Local!LocalizationAssumption, WindowInv, Local!Reported # {}
  PROVE  \E b \in Nat :
           /\ 10 <= b
           /\ \A g \in Local!Reported : b <= Local!Latency(g) /\ Local!Latency(g) \in Nat
           /\ \A g : Local!SlowAmong(g) <=>
                     g \in failed \/ 10 * Local!Latency(g) > SlowFactor * b
<1>. DEFINE S == {Local!Latency(h) : h \in Local!Reported}
<1>1. SlowFactor \in Nat
  BY DEF Local!LocalizationAssumption
<1>2. ASSUME NEW g \in Local!Reported PROVE Local!Latency(g) \in Nat /\ 10 <= Local!Latency(g)
  <2>1. CASE samples[g] = <<>>
    BY <2>1 DEF Local!Latency, Local!Infinity
  <2>2. CASE samples[g] # <<>>
    BY <1>1, <2>2, LatencyTells DEF Local!Reported
  <2>. QED BY <2>1, <2>2
<1>3. S \in SUBSET Nat /\ S # {} /\ \A x \in S : 10 <= x
  BY <1>2
<1>. DEFINE b == Local!Min(S)
<1>4. b \in S /\ \A x \in S : b <= x
  <2>. HIDE DEF S
  <2>1. PICK x \in S : \A y \in S : x <= y
    BY <1>3, LeastNatural
  <2>. QED BY <2>1 DEF Local!Min
<1>5. \A g : Local!SlowAmong(g) <=> g \in failed \/ 10 * Local!Latency(g) > SlowFactor * b
  BY DEF Local!SlowAmong
<1>6. b \in Nat /\ 10 <= b /\ \A g \in Local!Reported : b <= Local!Latency(g)
  BY <1>3, <1>4
<1>. HIDE DEF b
<1>. QED BY <1>2, <1>5, <1>6

(* What SwitchLocalizer takes for slow has the fault on it.                *)
LEMMA SwitchSlowIsTouched ==
  ASSUME Local!LocalizationAssumption, WindowInv, NEW g \in Local!SwitchSlow
  PROVE  g \in Groups /\ Local!Touches(g)
<1>1. /\ g \in Local!Reported /\ Local!Reported # {} /\ g \in Groups
      /\ Local!SlowAmong(g) /\ straggler \cap Members[g] = {}
  BY DEF Local!SwitchSlow, Local!Reported
<1>2. CASE g \in failed
  BY <1>1, <1>2 DEF WindowInv, Local!Observable
<1>3. CASE g \notin failed
  <2>1. samples[g] # <<>>
    BY <1>1, <1>3 DEF Local!Reported
  <2>2. PICK b \in Nat : /\ 10 <= b
                         /\ \A f : Local!SlowAmong(f) <=>
                              f \in failed \/ 10 * Local!Latency(f) > SlowFactor * b
    BY <1>1, Baseline
  <2>3. 10 * Local!Latency(g) > SlowFactor * b
    BY <1>1, <1>3, <2>2
  <2>4. SlowFactor \in Nat /\ SlowFactor > 10
    BY DEF Local!LocalizationAssumption
  <2>5. SlowFactor * b >= SlowFactor * 10
    BY <2>2, <2>4
  <2>6. Local!Latency(g) # 10
    BY <2>2, <2>3, <2>4, <2>5
  <2>. QED BY <1>1, <2>1, <2>6, LatencyTells
<1>. QED BY <1>2, <1>3

(* No group that is routed over the faulty switch is taken for fast.       *)
LEMMA FastIsNotTouched ==
  ASSUME Local!LocalizationAssumption, WindowInv, Local!FailuresStandOut,
         fault.kind = "switch", Local!SwitchSlow # {}, NEW g \in Local!SwitchFast
  PROVE  ~ Local!Touches(g)
<1>. SUFFICES ASSUME Local!Touches(g) PROVE FALSE
  OBVIOUS
<1>1. /\ g \in Local!Reported /\ g \in Groups /\ ~ Local!SlowAmong(g)
  BY DEF Local!SwitchFast, Local!Reported
<1>2. PICK b \in Nat : /\ 10 <= b
                       /\ \A f \in Local!Reported : b <= Local!Latency(f)
                       /\ \A f : Local!SlowAmong(f) <=>
                            f \in failed \/ 10 * Local!Latency(f) > SlowFactor * b
  BY <1>1, Baseline
<1>3. g \notin failed /\ ~ (10 * Local!Latency(g) > SlowFactor * b)
  BY <1>1, <1>2
<1>4. samples[g] # <<>>
  BY <1>1, <1>3 DEF Local!Reported
<1>5. Local!Latency(g) = 2 * SlowFactor
  BY <1>1, <1>4, LatencyTells
<1>6. SlowFactor \in Nat /\ SlowFactor > 10
  BY DEF Local!LocalizationAssumption
<1>7. b >= 20
  <2>. SUFFICES ASSUME b <= 19 PROVE FALSE
    BY <1>2
  <2>1. SlowFactor * b <= SlowFactor * 19
    BY <1>2, <1>6
  <2>2. SlowFactor * b >= 20 * SlowFactor
    BY <1>2, <1>3, <1>5, <1>6
  <2>. QED BY <1>2, <1>6, <2>1, <2>2
<1>8. SlowFactor * b >= SlowFactor * 20
  BY <1>2, <1>6, <1>7
<1>9. PICK h \in Local!SwitchSlow : TRUE
  OBVIOUS
<1>10. h \in Local!Reported /\ h \in Groups /\ Local!SlowAmong(h)
  BY <1>9 DEF Local!SwitchSlow, Local!Reported
<1>11. CASE h \in failed
  <2>1. PICK f \in Groups : samples[f] # <<>> /\ Local!Latency(f) = Local!Levels.healthy
    BY <1>11 DEF Local!FailuresStandOut
  <2>2. f \in Local!Reported /\ Local!Latency(f) = 10
    BY <2>1 DEF Local!Reported, Local!Levels
  <2>3. b <= 10
    BY <1>2, <2>2
  <2>. QED BY <1>2, <1>7, <2>3
<1>12. CASE h \notin failed
  <2>1. samples[h] # <<>>
    BY <1>10, <1>12 DEF Local!Reported
  <2>2. Local!Latency(h) \in 10 .. 2 * SlowFactor
    BY <1>10, <2>1, LatencyTells
  <2>3. 10 * Local!Latency(h) > SlowFactor * b
    BY <1>2, <1>10, <1>12
  <2>. QED BY <1>2, <1>6, <1>8, <2>2, <2>3
<1>. QED BY <1>11, <1>12

(* The switch that a window points to is at fault in it.                   *)
LEMMA SwitchSuspectIsFault ==
  ASSUME Local!LocalizationAssumption, WindowInv, Local!FailuresStandOut,
         Local!SwitchSlow # {},
         \A r \in Endpoints : \E g \in Local!SwitchSlow : r \notin Members[g],
         Local!Cardinality(Local!HittingSet) = 1
  PROVE  fault = [kind |-> "switch", at |-> Local!HittingSet]
<1>1. PICK h \in Local!SwitchSlow : Local!Touches(h)
  BY SwitchSlowIsTouched
<1>2. PICK w \in Local!Switches : /\ fault = [kind |-> "switch", at |-> {w}]
                                  /\ \A g : Local!Touches(g) <=> w \in Local!PathOf(g)
  <2>1. CASE \A g : ~ Local!Touches(g)
    BY <2>1, <1>1
  <2>2. CASE \E e \in Endpoints : \A g : Local!Touches(g) <=> e \in Members[g]
    <3>1. PICK e \in Endpoints : \A g : Local!Touches(g) <=> e \in Members[g]
      BY <2>2
    <3>2. \A g \in Local!SwitchSlow : e \in Members[g]
      BY <3>1, SwitchSlowIsTouched
    <3>. QED BY <3>2
  <2>. QED BY <2>1, <2>2, FaultIs DEF WindowInv
<1>3. \A g \in Local!SwitchSlow : w \in Local!PathOf(g)
  BY <1>2, SwitchSlowIsTouched
<1>4. \A g \in Local!SwitchFast : w \notin Local!PathOf(g)
  BY <1>2, FastIsNotTouched
<1>5. w \in Local!HittingSet
  BY <1>3, <1>4 DEF Local!HittingSet
<1>6. IsFiniteSet(Local!HittingSet)
  <2>1. IsFiniteSet(Endpoints)
    BY SameCardinality DEF Local!LocalizationAssumption
  <2>2. IsFiniteSet({Leaf[r] : r \in Endpoints})
    <3>. DEFINE leaf == [r \in Endpoints |-> Leaf[r]]
    <3>1. leaf \in Surjection(Endpoints, {Leaf[r] : r \in Endpoints})
      BY DEF Surjection
    <3>. QED BY <2>1, <3>1, FS_Surjection
  <2>3. IsFiniteSet({Leaf[r] : r \in Endpoints} \cup {Spine})
    BY <2>2, FS_AddElement
  <2>4. Local!HittingSet \subseteq {Leaf[r] : r \in Endpoints} \cup {Spine}
    BY DEF Local!HittingSet, Local!Switches
  <2>. QED BY <2>3, <2>4, FS_Subset
<1>7. Cardinality(Local!HittingSet) = 1
  BY SameCardinality
<1>8. PICK x : Local!HittingSet = {x}
  BY <1>6, <1>7, FS_Singleton
<1>. QED BY <1>2, <1>5, <1>8

-----------------------------------------------------------------------------
(* The steps.                                                              *)
LocalInv == WindowInv /\ StreakInv

LEMMA LocalInit ==
  ASSUME Local!LocalizationAssumption, Local!Init
  PROVE  LocalInv /\ SwitchInv /\ BlamedIsGuilty
<1>1. WindowInv
  BY DEF Local!Init, WindowInv, Local!Empty
<1>2. StreakInv /\ SwitchInv
  BY DEF Local!Init, StreakInv, SwitchInv, Local!Nobody, Local!NoVerdict
<1>3. BlamedIsGuilty
  BY DEF Local!Init, BlamedIsGuilty, Local!EndpointIsGuilty, Local!SwitchIsGuilty,
         Local!LostReportsDoNotMislead, Local!NoVerdict
<1>. QED BY <1>1, <1>2, <1>3 DEF LocalInv

(* What can be observed depends on the fault and the stragglers only.      *)
LEMMA SameFaultSameView ==
  ASSUME UNCHANGED <<fault, straggler>>
  PROVE  \A g : Local!Observable(g)' = Local!Observable(g)
BY DEF Local!Observable, Local!Touches

LEMMA WindowStep ==
  ASSUME Local!LocalizationAssumption, WindowInv, [Local!Next]_(Local!vars)
  PROVE  WindowInv'
<1>1. ASSUME NEW g \in Groups, Local!Record(g) PROVE WindowInv'
  <2>1. PICK level \in Local!Observable(g) :
          samples' = [samples EXCEPT ![g] = Append(@, Local!Levels[level])]
    BY <1>1 DEF Local!Record
  <2>2. UNCHANGED <<fault, straggler, failed>>
    BY <1>1 DEF Local!Record
  <2>3. \A f : Local!Observable(f)' = Local!Observable(f)
    BY <2>2, SameFaultSameView
  <2>4. level \in DOMAIN Local!Levels /\ Local!Levels[level] \in LevelSet
    BY LevelsAre DEF Local!Observable
  <2>. DEFINE x == Local!Levels[level]
  <2>5. samples \in [Groups -> Seq(LevelSet)]
    BY DEF WindowInv
  <2>. HIDE DEF x
  <2>6. samples' = [samples EXCEPT ![g] = Append(@, x)] /\ x \in LevelSet
    BY <2>1, <2>4 DEF x
  <2>7. samples' \in [Groups -> Seq(LevelSet)]
    BY <2>5, <2>6
  <2>8. ASSUME NEW f \in Groups, NEW i \in DOMAIN samples'[f]
        PROVE  \E l \in Local!Observable(f) : samples'[f][i] = Local!Levels[l]
    <3>1. CASE f # g
      BY <2>5, <2>6, <3>1 DEF WindowInv
    <3>2. CASE f = g
      <4>1. samples'[g] = Append(samples[g], x) /\ samples[g] \in Seq(LevelSet)
        BY <2>5, <2>6
      <4>2. CASE i \in DOMAIN samples[g]
        <5>1. samples'[g][i] = samples[g][i]
          BY <4>1, <4>2, <2>6, AppendProperties
        <5>. QED BY <5>1, <4>2, <3>2 DEF WindowInv
      <4>3. CASE i \notin DOMAIN samples[g]
        <5>1. samples'[g][i] = x
          BY <4>1, <4>3, <3>2, <2>6, <2>8, AppendProperties
        <5>. QED BY <5>1, <2>1, <3>2 DEF x
      <4>. QED BY <4>2, <4>3
    <3>. QED BY <3>1, <3>2
  <2>. QED BY <2>2, <2>3, <2>7, <2>8 DEF WindowInv, Local!Faults
<1>2. ASSUME NEW g \in Groups, Local!MarkFailed(g) PROVE WindowInv'
  <2>1. \A f : Local!Observable(f)' = Local!Observable(f)
    BY <1>2, SameFaultSameView DEF Local!MarkFailed
  <2>. QED BY <1>2, <2>1 DEF Local!MarkFailed, WindowInv, Local!Faults
<1>3. CASE Local!Round
  BY <1>3 DEF Local!Round, WindowInv, Local!Empty
<1>4. CASE Local!FaultChanges
  BY <1>4 DEF Local!FaultChanges, WindowInv, Local!Empty
<1>5. CASE UNCHANGED Local!vars
  <2>1. \A f : Local!Observable(f)' = Local!Observable(f)
    BY <1>5, SameFaultSameView DEF Local!vars
  <2>. QED BY <1>5, <2>1 DEF Local!vars, WindowInv
<1>. QED BY <1>1, <1>2, <1>3, <1>4, <1>5 DEF Local!Next

(* A step other than a round leaves the streaks alone.                     *)
LEMMA BetweenRounds ==
  ASSUME [Local!Next]_(Local!vars), ~ Local!Round
  PROVE  /\ UNCHANGED <<endpoint, switch, truths>>
         /\ verdict' = verdict \/ verdict' = Local!NoVerdict
         /\ straggler' = straggler
BY DEF Local!Next, Local!vars, Local!Record, Local!MarkFailed, Local!FaultChanges

LEMMA StreakStep ==
  ASSUME Local!LocalizationAssumption, Local!LeavesApart, WindowInv, StreakInv,
         [Local!Next]_(Local!vars)
  PROVE  StreakInv'
<1>1. CASE ~ Local!Round
  BY <1>1, BetweenRounds DEF StreakInv, Local!NoVerdict, Local!Guilty
<1>2. CASE Local!Round
  <2>. DEFINE S == Local!Suspects({g \in Local!SlowGroups : Members[g] \cap straggler = {}},
                                 Local!HealthyGroups)
  <2>1. endpoint' = Local!Held(endpoint, S) /\ truths' = Append(truths, fault)
    BY <1>2 DEF Local!Round, Local!ObserveEndpoint
  <2>2. verdict'.endpoint = Local!Confirmed(endpoint)'
    BY <1>2 DEF Local!Round, Local!Confirmed
  <2>3. \A r \in S : Local!Guilty(r, fault)
    BY SuspectIsGuilty
  <2>. HIDE DEF S
  <2>4. /\ truths \in Seq(Local!Faults) /\ fault \in Local!Faults
        /\ truths' \in Seq(Local!Faults) /\ Len(truths') = Len(truths) + 1
        /\ truths'[Len(truths) + 1] = fault
        /\ \A i \in 1 .. Len(truths) : truths'[i] = truths[i]
        /\ Len(truths) \in Nat
    BY <2>1, AppendProperties DEF StreakInv, WindowInv
  <2>5. CASE S = {}
    <3>1. endpoint' = [suspect |-> {}, streak |-> 0]
      BY <2>1, <2>5 DEF Local!Held, Local!Nobody
    <3>2. verdict'.endpoint = {}
      BY <3>1, <2>2 DEF Local!Confirmed
    <3>3. truths' \in Seq(Local!Faults)'
      BY <2>4 DEF Local!Faults, Local!Switches, Local!NoFault
    <3>. QED BY <3>1, <3>2, <3>3, <2>4 DEF StreakInv
  <2>6. CASE S # {}
    <3>1. /\ endpoint'.suspect = S
          /\ endpoint'.streak = IF endpoint.suspect = S THEN endpoint.streak + 1 ELSE 1
      BY <2>1, <2>6 DEF Local!Held
    <3>2. endpoint'.streak \in 0 .. Len(truths')
      BY <3>1, <2>4 DEF StreakInv
    <3>3. ASSUME NEW r \in S, NEW i \in (Len(truths') - endpoint'.streak + 1) .. Len(truths')
          PROVE  Local!Guilty(r, truths'[i])
      <4>1. CASE i = Len(truths) + 1
        BY <4>1, <2>3, <2>4
      <4>2. CASE i # Len(truths) + 1
        <5>1. endpoint.suspect = S /\ endpoint.streak \in 0 .. Len(truths)
          BY <4>2, <3>1, <3>3, <2>4 DEF StreakInv
        <5>2. i \in (Len(truths) - endpoint.streak + 1) .. Len(truths)
          BY <4>2, <5>1, <3>1, <3>3, <2>4
        <5>3. Local!Guilty(r, truths[i])
          BY <5>1, <5>2 DEF StreakInv
        <5>. QED BY <5>1, <5>2, <5>3, <2>4
      <4>. QED BY <4>1, <4>2
    <3>4. verdict'.endpoint # {} =>
            verdict'.endpoint = endpoint'.suspect /\ endpoint'.streak >= Persistence
      BY <2>2 DEF Local!Confirmed
    <3>5. truths' \in Seq(Local!Faults)'
      BY <2>4 DEF Local!Faults, Local!Switches, Local!NoFault
    <3>. QED BY <3>1, <3>2, <3>3, <3>4, <3>5 DEF StreakInv, Local!Guilty
  <2>. QED BY <2>5, <2>6
<1>. QED BY <1>1, <1>2

(* A confirmed suspect has been the same for as many rounds.               *)
LEMMA ConfirmedIsGuilty ==
  ASSUME Local!LocalizationAssumption, StreakInv
  PROVE  Local!EndpointIsGuilty
<1>. SUFFICES ASSUME NEW r \in verdict.endpoint,
                     NEW i \in (Len(truths) - Persistence + 1) .. Len(truths)
              PROVE  Local!Guilty(r, truths[i])
  BY DEF Local!EndpointIsGuilty
<1>1. Persistence \in Nat \ {0}
  BY DEF Local!LocalizationAssumption
<1>2. /\ r \in endpoint.suspect /\ endpoint.streak >= Persistence
      /\ endpoint.streak \in 0 .. Len(truths)
  BY DEF StreakInv
<1>3. Len(truths) \in Nat
  BY DEF StreakInv
<1>4. i \in (Len(truths) - endpoint.streak + 1) .. Len(truths)
  BY <1>1, <1>2, <1>3
<1>. QED BY <1>2, <1>4 DEF StreakInv

LEMMA SwitchStep ==
  ASSUME Local!LocalizationAssumption, WindowInv, SwitchInv,
         [Local!Next]_(Local!vars), Local!Round => Local!FailuresStandOut
  PROVE  SwitchInv'
<1>1. CASE ~ Local!Round
  BY <1>1, BetweenRounds DEF SwitchInv, BlamedForIt, Local!NoVerdict
<1>2. CASE Local!Round
  <2>. DEFINE shared == {r \in Endpoints : \A g \in Local!SwitchSlow : r \in Members[g]}
              S == IF \/ Local!SwitchSlow = {} \/ shared # {}
                      \/ Local!Cardinality(Local!HittingSet) # 1
                   THEN {} ELSE Local!HittingSet
  <2>1. switch' = Local!Held(switch, S) /\ truths' = Append(truths, fault)
    BY <1>2 DEF Local!Round, Local!ObserveSwitch
  <2>2. verdict'.switch = Local!Confirmed(switch)'
    BY <1>2 DEF Local!Round, Local!Confirmed
  <2>3. S # {} => fault = [kind |-> "switch", at |-> S]
    <3>1. ASSUME S # {} PROVE fault = [kind |-> "switch", at |-> Local!HittingSet]
      <4>1. /\ Local!SwitchSlow # {} /\ shared = {}
            /\ Local!Cardinality(Local!HittingSet) = 1
        BY <3>1
      <4>2. \A r \in Endpoints : \E g \in Local!SwitchSlow : r \notin Members[g]
        BY <4>1
      <4>. QED BY <4>1, <4>2, <1>2, SwitchSuspectIsFault
    <3>. QED BY <3>1
  <2>. HIDE DEF S
  <2>4. /\ truths \in Seq(Local!Faults) /\ fault \in Local!Faults
        /\ truths' \in Seq(Local!Faults) /\ Len(truths') = Len(truths) + 1
        /\ truths'[Len(truths) + 1] = fault
        /\ \A i \in 1 .. Len(truths) : truths'[i] = truths[i]
        /\ Len(truths) \in Nat
    BY <2>1, AppendProperties DEF SwitchInv, WindowInv
  <2>5. truths' \in Seq(Local!Faults)'
    BY <2>4 DEF Local!Faults, Local!Switches, Local!NoFault
  <2>6. CASE S = {}
    <3>1. switch' = [suspect |-> {}, streak |-> 0]
      BY <2>1, <2>6 DEF Local!Held, Local!Nobody
    <3>2. verdict'.switch = {}
      BY <3>1, <2>2 DEF Local!Confirmed
    <3>. QED BY <3>1, <3>2, <2>4, <2>5 DEF SwitchInv
  <2>7. CASE S # {}
    <3>1. /\ switch'.suspect = S
          /\ switch'.streak = IF switch.suspect = S THEN switch.streak + 1 ELSE 1
      BY <2>1, <2>7 DEF Local!Held
    <3>2. switch'.streak \in 0 .. Len(truths')
      BY <3>1, <2>4 DEF SwitchInv
    <3>3. ASSUME NEW i \in (Len(truths') - switch'.streak + 1) .. Len(truths')
          PROVE  truths'[i] = [kind |-> "switch", at |-> S]
      <4>1. CASE i = Len(truths) + 1
        BY <4>1, <2>3, <2>4, <2>7
      <4>2. CASE i # Len(truths) + 1
        <5>1. switch.suspect = S /\ switch.streak \in 0 .. Len(truths)
          BY <4>2, <3>1, <3>3, <2>4 DEF SwitchInv
        <5>2. i \in (Len(truths) - switch.streak + 1) .. Len(truths)
          BY <4>2, <5>1, <3>1, <3>3, <2>4
        <5>3. truths[i] = [kind |-> "switch", at |-> S]
          BY <5>1, <5>2, <2>7 DEF SwitchInv, BlamedForIt
        <5>. QED BY <5>1, <5>2, <5>3, <2>4
      <4>. QED BY <4>1, <4>2
    <3>4. verdict'.switch # {} =>
            verdict'.switch = switch'.suspect /\ switch'.streak >= Persistence
      BY <2>2 DEF Local!Confirmed
    <3>. QED BY <3>1, <3>2, <3>3, <3>4, <2>5 DEF SwitchInv, BlamedForIt
  <2>. QED BY <2>6, <2>7
<1>. QED BY <1>1, <1>2

LEMMA ConfirmedSwitchIsGuilty ==
  ASSUME Local!LocalizationAssumption, SwitchInv
  PROVE  Local!SwitchIsGuilty
<1>. SUFFICES ASSUME verdict.switch # {},
                     NEW i \in (Len(truths) - Persistence + 1) .. Len(truths)
              PROVE  truths[i] = [kind |-> "switch", at |-> verdict.switch]
  BY DEF Local!SwitchIsGuilty
<1>1. Persistence \in Nat \ {0}
  BY DEF Local!LocalizationAssumption
<1>2. /\ verdict.switch = switch.suspect /\ switch.streak >= Persistence
      /\ switch.streak \in 0 .. Len(truths) /\ Len(truths) \in Nat
  BY DEF SwitchInv
<1>3. i \in (Len(truths) - switch.streak + 1) .. Len(truths)
  BY <1>1, <1>2
<1>. QED BY <1>2, <1>3 DEF SwitchInv, BlamedForIt

(* The verdict of a round is of the fault in its window.                   *)
LEMMA LostReportsStep ==
  ASSUME Local!LocalizationAssumption, Local!CrossOnce, WindowInv, StreakInv,
         Local!LostReportsDoNotMislead, [Local!Next]_(Local!vars)
  PROVE  Local!LostReportsDoNotMislead'
<1>1. CASE ~ Local!Round
  BY <1>1, BetweenRounds DEF Local!LostReportsDoNotMislead, Local!NoVerdict, Local!Last
<1>2. CASE Local!Round
  <2>1. PICK lost, deaf : verdict'.crossPG = Local!CrossPG(lost, deaf)
    BY <1>2 DEF Local!Round
  <2>2. straggler' = straggler
    BY <1>2 DEF Local!Round
  <2>3. Local!Last(truths)' = fault
    <3>1. truths' = Append(truths, fault) /\ truths \in Seq(Local!Faults) /\ fault \in Local!Faults
      BY <1>2 DEF Local!Round, StreakInv, WindowInv
    <3>2. Len(truths') = Len(truths) + 1 /\ truths'[Len(truths) + 1] = fault
      BY <3>1, AppendProperties
    <3>. QED BY <3>2 DEF Local!Last
  <2>. QED BY <2>1, <2>2, <2>3, CrossPGNamesTheFault DEF Local!LostReportsDoNotMislead
<1>. QED BY <1>1, <1>2

-----------------------------------------------------------------------------
(* An endpoint that CommunicationLocalizer confirms was at fault in all    *)
(* rounds of the streak, itself or through its leaf switch, and            *)
(* CrossPGCoordinator does not take another for the one at fault: in every *)
(* layout in which process groups cross at most once and do not share a    *)
(* switch elsewhere, whatever stragglers, failures and lost reports.       *)
THEOREM BlamedEndpointIsGuilty ==
  ASSUME Local!LocalizationAssumption, Local!CrossOnce, Local!LeavesApart
  PROVE  Local!Spec => [](Local!EndpointIsGuilty /\ Local!LostReportsDoNotMislead)
<1>. DEFINE Inv == LocalInv /\ Local!LostReportsDoNotMislead
<1>1. Local!Init => Inv
  BY LocalInit DEF BlamedIsGuilty
<1>2. Inv /\ [Local!Next]_(Local!vars) => Inv'
  BY WindowStep, StreakStep, LostReportsStep DEF LocalInv
<1>3. Inv => Local!EndpointIsGuilty /\ Local!LostReportsDoNotMislead
  BY ConfirmedIsGuilty DEF LocalInv
<1>. QED
  BY <1>1, <1>2, <1>3, PTL DEF Local!Spec

(* So was a switch that SwitchLocalizer confirms, and neither a faulty     *)
(* endpoint nor a straggler is taken for one.  It compares groups with the *)
(* fastest one: where collectives fail, one must be as fast as ever.       *)
THEOREM BlamedIsGuiltyAlways ==
  ASSUME Local!LocalizationAssumption, Local!CrossOnce, Local!LeavesApart
  PROVE  Local!Spec /\ [][Local!Round => Local!FailuresStandOut]_(Local!vars)
           => []BlamedIsGuilty
<1>. DEFINE Inv == LocalInv /\ SwitchInv /\ Local!LostReportsDoNotMislead
<1>1. Local!Init => Inv
  BY LocalInit DEF BlamedIsGuilty
<1>2. Inv /\ [Local!Next]_(Local!vars) /\ [Local!Round => Local!FailuresStandOut]_(Local!vars)
        => Inv'
  <2>. SUFFICES ASSUME Inv, [Local!Next]_(Local!vars),
                       [Local!Round => Local!FailuresStandOut]_(Local!vars)
                PROVE  Inv'
    OBVIOUS
  <2>1. LocalInv' /\ Local!LostReportsDoNotMislead'
    BY WindowStep, StreakStep, LostReportsStep DEF LocalInv
  <2>2. CASE Local!Round => Local!FailuresStandOut
    BY <2>1, <2>2, SwitchStep DEF LocalInv
  <2>3. CASE UNCHANGED Local!vars
    BY <2>1, <2>3 DEF SwitchInv, BlamedForIt, Local!vars
  <2>. QED BY <2>2, <2>3
<1>3. Inv => BlamedIsGuilty
  BY ConfirmedIsGuilty, ConfirmedSwitchIsGuilty DEF LocalInv, BlamedIsGuilty
<1>. QED
  BY <1>1, <1>2, <1>3, PTL DEF Local!Spec
=============================================================================
