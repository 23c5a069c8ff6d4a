------------------------- MODULE RecoverySelectProof -------------------------
(***************************************************************************)
(* The choice of a checkpoint, for every set of ranks, number of steps and *)
(* content of their memory and disks: if the ranks are in one mode, what   *)
(* they settle on is held by all of them, and the search misses no         *)
(* generation that they all have.                                          *)
(*                                                                         *)
(* The reductions carry no tag.  That the n-th reduction of one rank is    *)
(* about the same question as the n-th of another is therefore part of the *)
(* inductive invariant (Together), and so is what a rank concludes, from   *)
(* its own reductions, about the files and slots of all others (Informed). *)
(***************************************************************************)
EXTENDS RecoverySelect, WellFoundedInduction, TLAPS

(* The records of st.                                                      *)
Progress ==
  [at : Places, cand : Steps \cup {NoStep}, before : Steps \cup {Unbounded},
   memory : Steps \cup {NoStep}, older : BOOLEAN, ok : BOOLEAN]

(* With mode=None, the statuses of all ranks name the same mode.           *)
SameMode == \A r, q \in Ranks : Resolved(r) = Resolved(q)

(* Two ranks have learnt the same, but for their own activation.           *)
Same(s, t) ==
  /\ s.at = t.at /\ s.cand = t.cand /\ s.before = t.before
  /\ s.memory = t.memory /\ s.older = t.older

-----------------------------------------------------------------------------
(* The ranks enter the call one by one, in load(step=) also its            *)
(* activation; from there on they learn in step.                           *)
Arriving == \A r \in Ranks : st[r] \in {Idle, [Idle EXCEPT !.at = FirstPlace(r)]}

Activating ==
  /\ call = "exact" /\ RequestsAgree
  /\ \A r \in Ranks :
       \/ st[r] = [Idle EXCEPT !.at = "activate"]
       \/ \E b \in BOOLEAN : st[r] = [Idle EXCEPT !.at = "activated", !.ok = b]

Later == (Collectives \ {"activated", "memory", "verified"}) \cup {"done", "raised"}

InOneRound ==
  /\ \A r \in Ranks :
       /\ st[r].at \in Later
       /\ call = "exact" /\ st[r].at # "raised" => RequestsAgree
  /\ \A r, q \in Ranks : Same(st[r], st[q])

Together == Arriving \/ Activating \/ InOneRound

-----------------------------------------------------------------------------
(* The steps at which a search stands are those of its mode.               *)
AsksOf(r, s) ==
  /\ s.at \in {"memory", "memory_has", "newest", "exact"} =>
       Resolved(r) = "latest" /\ call # "exact"
  /\ s.at = "verified" => Resolved(r) = "recovery_verified" /\ call # "exact"
  /\ s.at \in {"activated", "eligible", "held"} => call = "exact"
  /\ s.at = "eligible" => Resolved(r) = "recovery_verified"
  /\ s.at = "held" => Resolved(r) # "recovery_verified"

(* A step of the memory tier is in the slots of all ranks.                 *)
MemoryOf(r, s) ==
  s.memory # NoStep =>
    /\ Resolved(r) = "latest" /\ call # "exact"
    /\ \A q \in Ranks : s.memory \in mem[q]

(* What the votes have shown of the step in question.                      *)
CandidateOf(r, s) ==
  /\ s.at \in {"memory_has", "exact", "valid"} => s.cand \in Steps
  /\ s.at = "valid" /\ Resolved(r) = "recovery_verified" =>
       \E q \in Ranks : s.cand \in status[q].history
  /\ s.at = "valid" /\ call = "exact" =>
       /\ Resolved(r) = "recovery_verified"
       /\ \A q \in Ranks : s.cand = want[q] /\ s.cand \in status[q].history

(* No generation that all have is above the search.                        *)
BoundOf(r, s) ==
  /\ s.at \in {"memory", "memory_has"} => s.before = Unbounded
  /\ s.at = "newest" => \A c \in CommonlyValid : c < s.before
  /\ s.at = "exact" \/ (s.at = "valid" /\ Resolved(r) = "latest") =>
       \A c \in CommonlyValid : c <= s.cand

(* What ResultIsHeldByAll says of step x.                                  *)
Settles(r, x) ==
  /\ \A q \in Ranks : x \in mem[q] \cup valid[q]
  /\ Resolved(r) = "recovery_verified" =>
       /\ x \in CommonlyValid
       /\ \E q \in Ranks : x \in status[q].history
  /\ call = "exact" =>
       /\ \A q \in Ranks : want[q] = x
       /\ Resolved(r) = "recovery_verified" => \A q \in Ranks : x \in status[q].history

ResultOf(r, s) ==
  s.at = "done" =>
    /\ s.cand > 0 => Settles(r, s.cand)
    /\ Resolved(r) = "latest" /\ call # "exact" => \A c \in CommonlyValid : c <= s.cand

(* The status names the mode, from the start of a load or from the         *)
(* activation of load(step=) on.                                           *)
Recorded(r) ==
  /\ status[r].mode = Resolved(r)
  /\ Resolved(r) = "recovery_verified" => ~status[r].candidate

RecordOf(r, s) ==
  \/ call = "load" /\ s.at # "idle"
  \/ call = "exact" /\ s.at = "activated" /\ s.ok
  \/ call = "exact" /\ s.at \in {"eligible", "held", "valid"}
  \/ call = "exact" /\ s.at = "done" /\ s.cand > 0
  => Recorded(r)

Informed(r, s) ==
  /\ AsksOf(r, s)
  /\ MemoryOf(r, s)
  /\ CandidateOf(r, s)
  /\ BoundOf(r, s)
  /\ ResultOf(r, s)
  /\ RecordOf(r, s)

SelectInv ==
  /\ TypeOK
  /\ \A r \in Ranks : valid[r] \subseteq files[r]
  /\ SameMode
  /\ Together
  /\ \A r \in Ranks : Informed(r, st[r])

-----------------------------------------------------------------------------
(* Min, which TLC computes by CHOOSE, is the smallest of the votes.        *)
LEMMA Smallest ==
  ASSUME NEW n \in Nat, NEW S \in SUBSET (-1 .. n), S # {}
  PROVE  Min(S) \in S /\ \A y \in S : Min(S) <= y
<1> DEFINE T == {x + 1 : x \in S}
<1>1. T \subseteq Nat /\ T # {}
  <2>1. \A x \in S : x + 1 \in Nat
    <3> TAKE x \in S
    <3>1. x \in Int /\ -1 <= x
      OBVIOUS
    <3> QED BY <3>1
  <2>2. PICK x \in S : TRUE
    OBVIOUS
  <2>3. x + 1 \in T
    OBVIOUS
  <2> QED BY <2>1, <2>3
<1>2. PICK k \in T : \A y \in T : ~ (<<y, k>> \in OpToRel(<, Nat))
  <2> HIDE DEF T
  <2> QED BY <1>1, NatLessThanWellFounded, WFMin
<1>3. k \in Nat /\ \A y \in T : ~ (y < k)
  BY <1>1, <1>2 DEF OpToRel
<1>4. PICK x \in S : k = x + 1
  OBVIOUS
<1>5. \A y \in S : x <= y
  <2> TAKE y \in S
  <2>1. ~ (y + 1 < k)
    BY <1>3
  <2> HIDE DEF T
  <2>2. x \in Int /\ y \in Int
    OBVIOUS
  <2> QED BY <1>4, <2>1, <2>2
<1> QED
  BY <1>4, <1>5 DEF Min

(* Max of a bounded set of integers is its largest element.                *)
LEMMA Largest ==
  ASSUME NEW n \in Nat, NEW S \in SUBSET (-1 .. n), S # {}
  PROVE  Max(S) \in S /\ \A y \in S : y <= Max(S)
<1> DEFINE T == {n - x : x \in S}
<1>1. T \subseteq Nat /\ T # {}
  <2>1. \A x \in S : n - x \in Nat
    <3> TAKE x \in S
    <3>1. x \in Int /\ x <= n
      OBVIOUS
    <3> QED BY <3>1
  <2>2. PICK x \in S : TRUE
    OBVIOUS
  <2>3. n - x \in T
    OBVIOUS
  <2> QED BY <2>1, <2>3
<1>2. PICK k \in T : \A y \in T : ~ (<<y, k>> \in OpToRel(<, Nat))
  <2> HIDE DEF T
  <2> QED BY <1>1, NatLessThanWellFounded, WFMin
<1>3. k \in Nat /\ \A y \in T : ~ (y < k)
  BY <1>1, <1>2 DEF OpToRel
<1>4. PICK x \in S : k = n - x
  OBVIOUS
<1>5. \A y \in S : y <= x
  <2> TAKE y \in S
  <2>1. n - y \in T
    OBVIOUS
  <2> QED BY <1>3, <1>4, <2>1
<1> QED
  BY <1>4, <1>5 DEF Max

(* _newest_step of some generations is one of them, or NoStep.             *)
LEMMA NewestOf ==
  ASSUME NEW S \in SUBSET (Steps \cup {NoStep})
  PROVE  /\ Newest(S) \in S \cup {NoStep}
         /\ \A y \in S : y <= Newest(S)
         /\ Newest(S) \in Steps \cup {NoStep}
<1>1. MaxStep \in Nat
  BY SelectAssumption
<1>2. S \cup {NoStep} \subseteq -1 .. MaxStep
  BY <1>1 DEF Steps, NoStep
<1>3. /\ Max(S \cup {NoStep}) \in S \cup {NoStep}
      /\ \A y \in S \cup {NoStep} : y <= Max(S \cup {NoStep})
  BY <1>1, <1>2, Largest
<1> QED BY <1>3 DEF Newest

(* What is known of the constants and of the ranks' files.                 *)
LEMMA Numbers ==
  /\ MaxStep \in Nat /\ Ranks # {}
  /\ Steps \subseteq Nat /\ \A s \in Steps : 0 < s /\ s < Unbounded
  /\ NoStep \in Int /\ NoStep < 0 /\ NoStep \notin Steps
  /\ Unbounded \in Nat
  BY SelectAssumption DEF Steps, NoStep, Unbounded

LEMMA StepNumbers == Steps \subseteq Int /\ Steps \cup {NoStep} \subseteq Int
  BY Numbers

LEMMA CommonSteps == CommonlyValid \subseteq Steps /\ CommonlyValid \subseteq Int
<1>1. CommonlyValid \subseteq Steps
  BY DEF CommonlyValid
<1> QED BY <1>1, StepNumbers

-----------------------------------------------------------------------------
(* A rank that goes on to another place of a round, with what it knows.    *)
GoesOn(r, s) == s \in Progress /\ s.at \in Later /\ Informed(r, s)

(* Done reports a step that has been settled on.                           *)
LEMMA DoneGoesOn ==
  ASSUME NEW r \in Ranks, NEW s \in Progress, MemoryOf(r, s),
         NEW x \in Steps \cup {NoStep},
         x # NoStep => Settles(r, x),
         Resolved(r) = "latest" /\ call # "exact" => \A c \in CommonlyValid : c <= x,
         call = "load" \/ (call = "exact" /\ x # NoStep) => Recorded(r)
  PROVE  GoesOn(r, Done(s, x))
<1> DEFINE t == Done(s, x)
<1>1. t \in Progress
  BY DEF Done, Progress, Places
<1>2. t.at = "done" /\ t.cand = x /\ t.memory = s.memory
  BY DEF Done, Progress
<1> HIDE DEF t
<1>3. x > 0 => x # NoStep
  BY DEF NoStep
<1>4. AsksOf(r, t) /\ MemoryOf(r, t) /\ CandidateOf(r, t) /\ BoundOf(r, t)
  BY <1>2 DEF AsksOf, MemoryOf, CandidateOf, BoundOf
<1>5. ResultOf(r, t) /\ RecordOf(r, t)
  BY <1>2, <1>3 DEF ResultOf, RecordOf
<1> QED BY <1>1, <1>2, <1>4, <1>5 DEF GoesOn, Informed, Later, t

(* Finish reports a step on disk that has been settled on, or nothing; for *)
(* find_latest, a step in memory if that is newer.                         *)
LEMMA FinishGoesOn ==
  ASSUME NEW r \in Ranks, NEW s \in Progress, MemoryOf(r, s),
         call \in {"load", "find", "exact"},
         NEW x \in Steps \cup {NoStep},
         x # NoStep => Settles(r, x),
         Resolved(r) = "latest" /\ call # "exact" => \A c \in CommonlyValid : c <= x,
         call = "load" \/ (call = "exact" /\ x # NoStep) => Recorded(r)
  PROVE  GoesOn(r, Finish(s, x))
<1>1. CASE call # "find"
  BY <1>1, DoneGoesOn DEF Finish
<1>2. CASE call = "find"
  <2> DEFINE y == Newest({s.memory, x})
  <2>1. s.memory \in Steps \cup {NoStep}
    BY DEF Progress
  <2>2. y \in {s.memory, x, NoStep} /\ x <= y /\ y \in Steps \cup {NoStep}
    <3>1. {s.memory, x} \in SUBSET (Steps \cup {NoStep})
      BY <2>1
    <3> QED BY <3>1, NewestOf
  <2>3. y # NoStep => Settles(r, y)
    <3>1. CASE y = x
      BY <3>1
    <3>2. CASE y = s.memory
      BY <1>2, <3>2 DEF MemoryOf, Settles
    <3>3. CASE y = NoStep
      BY <3>3
    <3> QED BY <2>2, <3>1, <3>2, <3>3
  <2>4. Resolved(r) = "latest" => \A c \in CommonlyValid : c <= y
    <3> SUFFICES ASSUME Resolved(r) = "latest", NEW c \in CommonlyValid PROVE c <= y
      OBVIOUS
    <3>1. c <= x
      BY <1>2
    <3>2. c \in Int /\ x \in Int /\ y \in Int
      BY <2>2, CommonSteps, StepNumbers
    <3> QED BY <2>2, <3>1, <3>2
  <2>5. Finish(s, x) = Done(s, y)
    BY <1>2 DEF Finish
  <2> HIDE DEF y
  <2> QED BY <1>2, <2>2, <2>3, <2>4, <2>5, DoneGoesOn
<1> QED BY <1>1, <1>2

(* The step on disk is compared with that in memory.                       *)
LEMMA ChosenGoesOn ==
  ASSUME NEW r \in Ranks, NEW s \in Progress, MemoryOf(r, s),
         call \in {"load", "find"},
         NEW x \in Steps \cup {NoStep},
         Resolved(r) = "recovery_verified" /\ x # NoStep =>
           \E q \in Ranks : x \in status[q].history,
         Resolved(r) = "latest" => \A c \in CommonlyValid : c <= x,
         call = "load" => Recorded(r)
  PROVE  GoesOn(r, Chosen(s, x))
<1>1. CASE ~s.older /\ s.memory > 0 /\ s.memory >= x
  <2>1. s.memory \in Steps \cup {NoStep} /\ s.memory # NoStep
    BY <1>1, Numbers DEF Progress
  <2>2. Settles(r, s.memory)
    BY <2>1 DEF MemoryOf, Settles
  <2>3. \A c \in CommonlyValid : Resolved(r) = "latest" => c <= s.memory
    <3> SUFFICES ASSUME NEW c \in CommonlyValid, Resolved(r) = "latest" PROVE c <= s.memory
      OBVIOUS
    <3>1. c <= x
      OBVIOUS
    <3>2. c \in Int /\ x \in Int /\ s.memory \in Int
      BY <2>1, CommonSteps, StepNumbers
    <3> QED BY <1>1, <3>1, <3>2
  <2>4. Chosen(s, x) = Done(s, s.memory)
    BY <1>1 DEF Chosen
  <2> QED BY <2>1, <2>2, <2>3, <2>4, DoneGoesOn
<1>2. CASE ~(~s.older /\ s.memory > 0 /\ s.memory >= x) /\ x <= 0
  <2>1. x = NoStep
    BY <1>2, Numbers
  <2>2. Chosen(s, x) = Finish(s, NoStep)
    BY <1>2 DEF Chosen
  <2> QED BY <2>1, <2>2, FinishGoesOn
<1>3. CASE ~(~s.older /\ s.memory > 0 /\ s.memory >= x) /\ ~(x <= 0)
  <2> DEFINE t == [s EXCEPT !.at = "valid", !.cand = x]
  <2>1. x \in Steps /\ x # NoStep
    BY <1>3, Numbers
  <2>2. t \in Progress
    BY <2>1 DEF Progress, Places, Collectives
  <2>3. t.at = "valid" /\ t.cand = x /\ t.memory = s.memory
    BY DEF Progress
  <2>4. Chosen(s, x) = t
    BY <1>3 DEF Chosen
  <2> HIDE DEF t
  <2>5. AsksOf(r, t) /\ MemoryOf(r, t) /\ CandidateOf(r, t) /\ BoundOf(r, t)
    BY <2>1, <2>3 DEF AsksOf, MemoryOf, CandidateOf, BoundOf
  <2>6. ResultOf(r, t) /\ RecordOf(r, t)
    BY <2>3 DEF ResultOf, RecordOf
  <2> QED BY <2>2, <2>3, <2>4, <2>5, <2>6 DEF GoesOn, Informed, Later, Collectives
<1> QED BY <1>1, <1>2, <1>3

-----------------------------------------------------------------------------
(* All ranks have joined a reduction at place p, and m is its result.      *)
Reduced(p, m) ==
  /\ SelectInv
  /\ \A r \in Ranks : st[r].at = p
  /\ \A r, q \in Ranks : Same(st[r], st[q])
  /\ call = "exact" => RequestsAgree
  /\ \E r \in Ranks : m = Vote(r)
  /\ \A r \in Ranks : m <= Vote(r)

LEMMA ReducedTypes ==
  ASSUME NEW p, NEW m, Reduced(p, m), NEW r \in Ranks
  PROVE  /\ st[r] \in Progress /\ st[r].at = p /\ Informed(r, st[r])
         /\ mem[r] \in SUBSET Steps /\ files[r] \in SUBSET Steps /\ valid[r] \in SUBSET Steps
         /\ valid[r] \subseteq files[r]
         /\ status[r] \in Statuses /\ call \in {"load", "find", "exact"}
  BY DEF Reduced, SelectInv, TypeOK, Progress

(* The result of votes that are steps is a step that somebody voted for.   *)
LEMMA ReducedSteps ==
  ASSUME NEW p, NEW m, Reduced(p, m),
         \A q \in Ranks : Vote(q) \in Steps \cup {NoStep}
  PROVE  /\ m \in Steps \cup {NoStep}
         /\ \A c \in CommonlyValid :
              (\A q \in Ranks : c <= Vote(q)) => c <= m
  BY DEF Reduced

(* The result of flags is that of all of them.                             *)
LEMMA ReducedFlags ==
  ASSUME NEW p, NEW m, Reduced(p, m), NEW Agreeing,
         \A q \in Ranks : Vote(q) = Flag(q \in Agreeing)
  PROVE  /\ m = 1 => \A q \in Ranks : q \in Agreeing
         /\ m # 1 => \E q \in Ranks : q \notin Agreeing
<1>1. PICK q \in Ranks : m = Flag(q \in Agreeing)
  BY DEF Reduced
<1>2. \A r \in Ranks : m <= Flag(r \in Agreeing)
  BY DEF Reduced
<1> QED BY <1>1, <1>2 DEF Flag

-----------------------------------------------------------------------------
(* One lemma per place: what the reduction there tells a rank.             *)
LEMMA MemoryGoesOn ==
  ASSUME NEW m, Reduced("memory", m), NEW r \in Ranks
  PROVE  GoesOn(r, AfterMemory(st[r], m))
<1> DEFINE s == st[r]
<1>1. /\ s \in Progress /\ s.at = "memory"
      /\ Informed(r, s)
  BY ReducedTypes
<1>2. \A q \in Ranks : Vote(q) \in Steps \cup {NoStep}
  <2> TAKE q \in Ranks
  <2>1. st[q].at = "memory" /\ mem[q] \in SUBSET Steps
    BY ReducedTypes
  <2>2. Vote(q) = Newest(mem[q])
    BY <2>1 DEF Vote
  <2> QED BY <2>1, <2>2, NewestOf
<1>3. m \in Steps \cup {NoStep}
  BY <1>2, ReducedSteps
<1> HIDE DEF s
<1>4. CASE m > 0
  <2> DEFINE t == [s EXCEPT !.at = "memory_has", !.cand = m]
  <2>1. m \in Steps
    BY <1>3, <1>4, Numbers
  <2>2. t \in Progress /\ t.at = "memory_has" /\ t.cand = m
        /\ t.memory = s.memory /\ t.before = s.before
    BY <1>1, <2>1 DEF Progress, Places, Collectives
  <2>3. AfterMemory(s, m) = t
    BY <1>4 DEF AfterMemory
  <2> HIDE DEF t
  <2>4. Informed(r, t)
    BY <1>1, <2>1, <2>2
    DEF Informed, AsksOf, MemoryOf, CandidateOf, BoundOf, ResultOf, RecordOf
  <2> QED BY <2>2, <2>3, <2>4 DEF GoesOn, Later, Collectives, s
<1>5. CASE ~(m > 0)
  <2> DEFINE t == [s EXCEPT !.at = "newest"]
  <2>1. t \in Progress /\ t.at = "newest" /\ t.memory = s.memory /\ t.before = s.before
    BY <1>1 DEF Progress, Places, Collectives
  <2>2. AfterMemory(s, m) = t
    BY <1>5 DEF AfterMemory
  <2> HIDE DEF t
  <2>3. s.before = Unbounded
    BY <1>1 DEF Informed, BoundOf
  <2>4. \A c \in CommonlyValid : c < t.before
    BY <2>1, <2>3, CommonSteps, Numbers
  <2>5. Informed(r, t)
    BY <1>1, <2>1, <2>4
    DEF Informed, AsksOf, MemoryOf, CandidateOf, BoundOf, ResultOf, RecordOf
  <2> QED BY <2>1, <2>2, <2>5 DEF GoesOn, Later, Collectives, s
<1> QED BY <1>4, <1>5

LEMMA MemoryHasGoesOn ==
  ASSUME NEW m, Reduced("memory_has", m), NEW r \in Ranks
  PROVE  GoesOn(r, AfterMemoryHas(st[r], m))
<1> DEFINE s == st[r]
           Agreeing == {q \in Ranks : s.cand \in mem[q]}
           found == IF m = 1 THEN s.cand ELSE NoStep
           t == [s EXCEPT !.at = "newest", !.memory = found]
<1>1. /\ s \in Progress /\ s.at = "memory_has"
      /\ Informed(r, s)
  BY ReducedTypes
<1>2. \A q \in Ranks : Vote(q) = Flag(q \in Agreeing)
  <2> TAKE q \in Ranks
  <2>1. st[q].at = "memory_has" /\ st[q].cand = s.cand
    BY ReducedTypes DEF Reduced, Same
  <2> QED BY <2>1 DEF Vote
<1>3. m = 1 => \A q \in Ranks : s.cand \in mem[q]
  BY <1>2, ReducedFlags
<1> HIDE DEF s, Agreeing
<1>4. s.cand \in Steps
  BY <1>1 DEF Informed, CandidateOf
<1>5. t \in Progress /\ t.at = "newest" /\ t.memory = found /\ t.before = s.before
  BY <1>1, <1>4 DEF Progress, Places, Collectives
<1>6. s.before = Unbounded
  BY <1>1 DEF Informed, BoundOf
<1>7. \A c \in CommonlyValid : c < t.before
  BY <1>5, <1>6, CommonSteps, Numbers
<1>8. AfterMemoryHas(s, m) = t
  BY DEF AfterMemoryHas
<1> HIDE DEF t
<1>9. Resolved(r) = "latest" /\ call # "exact"
  BY <1>1 DEF Informed, AsksOf
<1>10. MemoryOf(r, t)
  BY <1>3, <1>5, <1>9 DEF MemoryOf
<1>11. Informed(r, t)
  BY <1>1, <1>5, <1>7, <1>9, <1>10
  DEF Informed, AsksOf, CandidateOf, BoundOf, ResultOf, RecordOf
<1> QED BY <1>5, <1>8, <1>11 DEF GoesOn, Later, Collectives, s

(* The newest generation below a bound that all have, or none.             *)
LEMMA NewestGoesOn ==
  ASSUME NEW r \in Ranks, NEW s \in Progress, Informed(r, s),
         call \in {"load", "find"}, Resolved(r) = "latest", s.at \in {"newest", "exact"},
         NEW m \in Steps \cup {NoStep}, \A c \in CommonlyValid : c <= m
  PROVE  GoesOn(r, AfterNewest(s, m))
<1>1. MemoryOf(r, s) /\ (call = "load" => Recorded(r))
  BY DEF Informed, RecordOf
<1>2. CASE m > 0
  <2> DEFINE t == [s EXCEPT !.at = "exact", !.cand = m]
  <2>1. m \in Steps
    BY <1>2, Numbers
  <2>2. t \in Progress /\ t.at = "exact" /\ t.cand = m /\ t.memory = s.memory
    BY <2>1 DEF Progress, Places, Collectives
  <2>3. AfterNewest(s, m) = t
    BY <1>2 DEF AfterNewest
  <2> HIDE DEF t
  <2>4. Informed(r, t)
    BY <1>1, <2>1, <2>2
    DEF Informed, AsksOf, MemoryOf, CandidateOf, BoundOf, ResultOf, RecordOf
  <2> QED BY <2>2, <2>3, <2>4 DEF GoesOn, Later, Collectives
<1>3. CASE ~(m > 0)
  <2>1. m = NoStep
    BY <1>3, Numbers
  <2>2. AfterNewest(s, m) = Chosen(s, NoStep)
    BY <1>3 DEF AfterNewest
  <2> QED BY <1>1, <2>1, <2>2, ChosenGoesOn
<1> QED BY <1>2, <1>3

LEMMA NewestPlace ==
  ASSUME NEW m, Reduced("newest", m), NEW r \in Ranks
  PROVE  GoesOn(r, AfterNewest(st[r], m))
<1> DEFINE s == st[r]
<1>1. /\ s \in Progress /\ s.at = "newest" /\ call \in {"load", "find", "exact"}
      /\ Informed(r, s)
  BY ReducedTypes
<1>2. ASSUME NEW q \in Ranks
      PROVE  /\ Vote(q) \in Steps \cup {NoStep}
             /\ \A c \in CommonlyValid : c <= Vote(q)
  <2>1. /\ st[q].at = "newest" /\ st[q].before = s.before
        /\ files[q] \in SUBSET Steps /\ valid[q] \subseteq files[q]
    BY ReducedTypes DEF Reduced, Same
  <2>2. Vote(q) = Newest(Below(files[q], s.before))
    BY <2>1 DEF Vote
  <2>3. Below(files[q], s.before) \in SUBSET Steps
    BY <2>1 DEF Below
  <2>4. \A c \in CommonlyValid : c \in Below(files[q], s.before)
    BY <1>1, <2>1 DEF CommonlyValid, Below, Informed, BoundOf
  <2> QED BY <2>2, <2>3, <2>4, NewestOf
<1>3. m \in Steps \cup {NoStep} /\ \A c \in CommonlyValid : c <= m
  BY <1>2, ReducedSteps
<1>4. Resolved(r) = "latest" /\ call # "exact"
  BY <1>1 DEF Informed, AsksOf
<1> QED BY <1>1, <1>3, <1>4, NewestGoesOn

LEMMA ExactPlace ==
  ASSUME NEW m, Reduced("exact", m), NEW r \in Ranks
  PROVE  GoesOn(r, AfterExact(st[r], m))
<1> DEFINE s == st[r]
<1>1. /\ s \in Progress /\ s.at = "exact" /\ call \in {"load", "find", "exact"}
      /\ Informed(r, s)
  BY ReducedTypes
<1>2. s.cand \in Steps /\ \A c \in CommonlyValid : c <= s.cand
  BY <1>1 DEF Informed, CandidateOf, BoundOf
<1>3. ASSUME NEW q \in Ranks
      PROVE  /\ Vote(q) \in Steps \cup {NoStep}
             /\ \A c \in CommonlyValid : c <= Vote(q)
  <2>1. /\ st[q].at = "exact" /\ st[q].cand = s.cand
        /\ files[q] \in SUBSET Steps /\ valid[q] \subseteq files[q]
    BY ReducedTypes DEF Reduced, Same
  <2>2. Vote(q) = IF s.cand \in files[q] THEN s.cand ELSE Newest(Below(files[q], s.cand))
    BY <2>1 DEF Vote, ExactVote
  <2>3. CASE s.cand \in files[q]
    BY <1>2, <2>2, <2>3
  <2>4. CASE s.cand \notin files[q]
    <3>1. Below(files[q], s.cand) \in SUBSET Steps
      BY <2>1 DEF Below
    <3>2. \A c \in CommonlyValid : c \in Below(files[q], s.cand)
      <4> TAKE c \in CommonlyValid
      <4>1. c \in files[q] /\ c # s.cand /\ c <= s.cand
        BY <1>2, <2>1, <2>4 DEF CommonlyValid
      <4>2. c \in Int /\ s.cand \in Int
        BY <1>2, CommonSteps, StepNumbers
      <4> QED BY <4>1, <4>2 DEF Below
    <3> QED BY <2>2, <2>4, <3>1, <3>2, NewestOf
  <2> QED BY <2>3, <2>4
<1>4. m \in Steps \cup {NoStep} /\ \A c \in CommonlyValid : c <= m
  BY <1>3, ReducedSteps
<1>5. Resolved(r) = "latest" /\ call # "exact" /\ MemoryOf(r, s)
      /\ (call = "load" => Recorded(r))
  BY <1>1 DEF Informed, AsksOf, RecordOf
<1>6. CASE m = s.cand
  <2>1. AfterExact(s, m) = Chosen(s, m)
    BY <1>6 DEF AfterExact
  <2> QED BY <1>1, <1>4, <1>5, <2>1, ChosenGoesOn
<1>7. CASE m # s.cand
  <2>1. AfterExact(s, m) = AfterNewest(s, m)
    BY <1>7 DEF AfterExact
  <2> QED BY <1>1, <1>4, <1>5, <2>1, NewestGoesOn
<1> QED BY <1>6, <1>7

LEMMA ValidPlace ==
  ASSUME NEW m, Reduced("valid", m), NEW r \in Ranks
  PROVE  GoesOn(r, AfterValid(r, st[r], m))
<1> DEFINE s == st[r]
           Agreeing == {q \in Ranks : s.cand \in valid[q]}
<1>1. /\ s \in Progress /\ s.at = "valid" /\ call \in {"load", "find", "exact"}
      /\ Informed(r, s)
  BY ReducedTypes
<1>2. \A q \in Ranks : Vote(q) = Flag(q \in Agreeing)
  <2> TAKE q \in Ranks
  <2>1. st[q].at = "valid" /\ st[q].cand = s.cand
    BY ReducedTypes DEF Reduced, Same
  <2> QED BY <2>1 DEF Vote
<1>3. /\ m = 1 => \A q \in Ranks : s.cand \in valid[q]
      /\ m # 1 => \E q \in Ranks : s.cand \notin valid[q]
  <2>1. /\ m = 1 => \A q \in Ranks : q \in Agreeing
        /\ m # 1 => \E q \in Ranks : q \notin Agreeing
    <3> HIDE DEF Agreeing
    <3> QED BY <1>2, ReducedFlags
  <2> QED BY <2>1
<1> HIDE DEF s, Agreeing
<1>4. s.cand \in Steps /\ s.cand # NoStep /\ MemoryOf(r, s) /\ BoundOf(r, s)
      /\ CandidateOf(r, s)
  BY <1>1, Numbers DEF Informed, CandidateOf
<1>5. call \in {"load", "exact"} => Recorded(r)
  BY <1>1 DEF Informed, RecordOf
<1>6. CASE m = 1
  <2>1. s.cand \in CommonlyValid
    BY <1>3, <1>4, <1>6 DEF CommonlyValid
  <2>2. Settles(r, s.cand)
    BY <1>1, <1>3, <1>4, <1>6, <2>1 DEF Settles, CandidateOf
  <2>3. Resolved(r) = "latest" => \A c \in CommonlyValid : c <= s.cand
    BY <1>1, <1>4 DEF BoundOf
  <2>4. AfterValid(r, s, m) = Finish(s, s.cand)
    BY <1>6 DEF AfterValid
  <2> QED BY <1>1, <1>4, <1>5, <2>2, <2>3, <2>4, FinishGoesOn DEF s
<1>7. CASE m # 1 /\ Resolved(r) = "latest"
  <2> DEFINE t == [s EXCEPT !.at = "newest", !.before = s.cand, !.older = TRUE]
  <2>1. t \in Progress /\ t.at = "newest" /\ t.memory = s.memory /\ t.before = s.cand
    BY <1>1, <1>4 DEF Progress, Places, Collectives
  <2>2. AfterValid(r, s, m) = t
    BY <1>7 DEF AfterValid
  <2> HIDE DEF t
  <2>3. \A c \in CommonlyValid : c < t.before
    <3> TAKE c \in CommonlyValid
    <3>1. c <= s.cand
      BY <1>1, <1>4, <1>7 DEF BoundOf
    <3>2. c # s.cand
      BY <1>3, <1>7 DEF CommonlyValid
    <3>3. c \in Int /\ s.cand \in Int
      BY <1>4, CommonSteps, StepNumbers
    <3> QED BY <2>1, <3>1, <3>2, <3>3
  <2>4. call # "exact"
    BY <1>1, <1>4, <1>7 DEF CandidateOf
  <2>5. Informed(r, t)
    BY <1>4, <1>5, <1>7, <2>1, <2>3, <2>4
    DEF Informed, AsksOf, MemoryOf, CandidateOf, BoundOf, ResultOf, RecordOf
  <2> QED BY <2>1, <2>2, <2>5 DEF GoesOn, Later, Collectives, s
<1>8. CASE m # 1 /\ Resolved(r) # "latest"
  <2>1. AfterValid(r, s, m) = Finish(s, NoStep)
    BY <1>8 DEF AfterValid
  <2> QED BY <1>1, <1>4, <1>5, <1>8, <2>1, FinishGoesOn DEF s
<1> QED BY <1>6, <1>7, <1>8

LEMMA VerifiedPlace ==
  ASSUME NEW m, Reduced("verified", m), NEW r \in Ranks
  PROVE  GoesOn(r, Chosen(st[r], m))
<1>1. /\ st[r] \in Progress /\ st[r].at = "verified" /\ call \in {"load", "find", "exact"}
      /\ Informed(r, st[r])
  BY ReducedTypes
<1>2. ASSUME NEW q \in Ranks
      PROVE  /\ Vote(q) \in Steps \cup {NoStep}
             /\ Vote(q) # NoStep => Vote(q) \in status[q].history
  <2>1. st[q].at = "verified" /\ files[q] \in SUBSET Steps /\ status[q] \in Statuses
    BY ReducedTypes
  <2>2. Vote(q) = Newest({status[q].verified} \cap files[q])
    BY <2>1 DEF Vote
  <2>3. {status[q].verified} \cap files[q] \in SUBSET Steps
    BY <2>1
  <2>4. /\ Vote(q) \in ({status[q].verified} \cap files[q]) \cup {NoStep}
        /\ Vote(q) \in Steps \cup {NoStep}
    BY <2>2, <2>3, NewestOf
  <2> QED BY <2>1, <2>4 DEF Statuses
<1>3. m \in Steps \cup {NoStep}
  BY <1>2, ReducedSteps
<1>4. m # NoStep => \E q \in Ranks : m \in status[q].history
  BY <1>2 DEF Reduced
<1>5. /\ Resolved(r) = "recovery_verified" /\ call # "exact" /\ MemoryOf(r, st[r])
      /\ call = "load" => Recorded(r)
  BY <1>1 DEF Informed, AsksOf, RecordOf
<1> QED BY <1>1, <1>3, <1>4, <1>5, ChosenGoesOn

LEMMA ActivatedPlace ==
  ASSUME NEW m, Reduced("activated", m), NEW r \in Ranks
  PROVE  GoesOn(r, AfterActivated(r, st[r], m))
<1> DEFINE s == st[r]
           Agreeing == {q \in Ranks : st[q].ok}
<1>1. /\ s \in Progress /\ s.at = "activated" /\ Informed(r, s)
  BY ReducedTypes
<1>2. \A q \in Ranks : Vote(q) = Flag(q \in Agreeing)
  <2> TAKE q \in Ranks
  <2>1. st[q].at = "activated" /\ st[q] \in Progress
    BY ReducedTypes
  <2>2. Vote(q) = Flag(st[q].ok)
    BY <2>1 DEF Vote
  <2> QED BY <2>1, <2>2 DEF Flag, Progress
<1>3. m = 1 => s.ok
  BY <1>2, ReducedFlags
<1> HIDE DEF s, Agreeing
<1>4. call = "exact" /\ MemoryOf(r, s) /\ (s.ok => Recorded(r))
  BY <1>1 DEF Informed, AsksOf, RecordOf
<1>5. CASE m # 1
  <2>1. AfterActivated(r, s, m) = Done(s, NoStep)
    BY <1>5 DEF AfterActivated
  <2> QED BY <1>1, <1>4, <2>1, DoneGoesOn DEF s
<1>6. ASSUME NEW place \in {"eligible", "held"}, m = 1,
             place = "eligible" <=> Resolved(r) = "recovery_verified"
      PROVE  GoesOn(r, [s EXCEPT !.at = place])
  <2> DEFINE t == [s EXCEPT !.at = place]
  <2>1. t \in Progress /\ t.at = place /\ t.memory = s.memory
    BY <1>1 DEF Progress, Places, Collectives
  <2> HIDE DEF t
  <2>2. Informed(r, t)
    BY <1>3, <1>4, <1>6, <2>1
    DEF Informed, AsksOf, MemoryOf, CandidateOf, BoundOf, ResultOf, RecordOf
  <2> QED BY <2>1, <2>2 DEF GoesOn, Later, Collectives, t
<1> QED BY <1>5, <1>6 DEF AfterActivated, s

LEMMA EligiblePlace ==
  ASSUME NEW m, Reduced("eligible", m), NEW r \in Ranks
  PROVE  GoesOn(r, AfterEligible(r, st[r], m))
<1> DEFINE s == st[r]
           Agreeing == {q \in Ranks : want[q] \in status[q].history \cap files[q]}
<1>1. /\ s \in Progress /\ s.at = "eligible" /\ Informed(r, s)
  BY ReducedTypes
<1>2. \A q \in Ranks : Vote(q) = Flag(q \in Agreeing)
  <2> TAKE q \in Ranks
  <2>1. st[q].at = "eligible"
    BY ReducedTypes
  <2> QED BY <2>1 DEF Vote
<1>3. m = 1 => \A q \in Ranks : want[q] \in status[q].history
  BY <1>2, ReducedFlags
<1> HIDE DEF s, Agreeing
<1>4. /\ call = "exact" /\ Resolved(r) = "recovery_verified" /\ MemoryOf(r, s)
      /\ Recorded(r)
  BY <1>1 DEF Informed, AsksOf, RecordOf
<1>5. want[r] \in Steps /\ \A q \in Ranks : want[q] = want[r]
  BY <1>4 DEF Reduced, RequestsAgree
<1>6. CASE m = 1
  <2> DEFINE t == [s EXCEPT !.at = "valid", !.cand = want[r]]
  <2>1. t \in Progress /\ t.at = "valid" /\ t.cand = want[r] /\ t.memory = s.memory
    BY <1>1, <1>5 DEF Progress, Places, Collectives
  <2>2. AfterEligible(r, s, m) = t
    BY <1>6 DEF AfterEligible
  <2> HIDE DEF t
  <2>3. Informed(r, t)
    BY <1>3, <1>4, <1>5, <1>6, <2>1
    DEF Informed, AsksOf, MemoryOf, CandidateOf, BoundOf, ResultOf, RecordOf
  <2> QED BY <2>1, <2>2, <2>3 DEF GoesOn, Later, Collectives, s
<1>7. CASE m # 1
  <2>1. AfterEligible(r, s, m) = Done(s, NoStep)
    BY <1>7 DEF AfterEligible
  <2> QED BY <1>1, <1>4, <2>1, DoneGoesOn DEF s
<1> QED BY <1>6, <1>7

LEMMA HeldPlace ==
  ASSUME NEW m, Reduced("held", m), NEW r \in Ranks
  PROVE  GoesOn(r, AfterHeld(r, st[r], m))
<1> DEFINE s == st[r]
           Agreeing == {q \in Ranks : want[q] \in mem[q] \cup valid[q]}
<1>1. /\ s \in Progress /\ s.at = "held" /\ Informed(r, s)
  BY ReducedTypes
<1>2. \A q \in Ranks : Vote(q) = Flag(q \in Agreeing)
  <2> TAKE q \in Ranks
  <2>1. st[q].at = "held"
    BY ReducedTypes
  <2> QED BY <2>1 DEF Vote
<1>3. m = 1 => \A q \in Ranks : want[q] \in mem[q] \cup valid[q]
  BY <1>2, ReducedFlags
<1> HIDE DEF s, Agreeing
<1>4. /\ call = "exact" /\ Resolved(r) # "recovery_verified" /\ MemoryOf(r, s)
      /\ Recorded(r)
  BY <1>1 DEF Informed, AsksOf, RecordOf
<1>5. want[r] \in Steps /\ \A q \in Ranks : want[q] = want[r]
  BY <1>4 DEF Reduced, RequestsAgree
<1>6. CASE m = 1
  <2>1. Settles(r, want[r])
    BY <1>3, <1>4, <1>5, <1>6 DEF Settles
  <2>2. AfterHeld(r, s, m) = Done(s, want[r])
    BY <1>6 DEF AfterHeld
  <2> QED BY <1>1, <1>4, <1>5, <2>1, <2>2, DoneGoesOn DEF s
<1>7. CASE m # 1
  <2>1. AfterHeld(r, s, m) = Done(s, NoStep)
    BY <1>7 DEF AfterHeld
  <2> QED BY <1>1, <1>4, <2>1, DoneGoesOn DEF s
<1> QED BY <1>6, <1>7

(* A rank goes on from every reduction with what it has learnt.            *)
LEMMA AfterGoesOn ==
  ASSUME NEW p \in Collectives, NEW m, Reduced(p, m), NEW r \in Ranks
  PROVE  GoesOn(r, After(r, m))
<1>1. st[r].at = p
  BY DEF Reduced
<1>2. CASE p = "memory"
  <2>1. After(r, m) = AfterMemory(st[r], m)
    BY <1>1, <1>2 DEF After
  <2> QED BY <1>2, <2>1, MemoryGoesOn
<1>3. CASE p = "memory_has"
  <2>1. After(r, m) = AfterMemoryHas(st[r], m)
    BY <1>1, <1>3 DEF After
  <2> QED BY <1>3, <2>1, MemoryHasGoesOn
<1>4. CASE p = "newest"
  <2>1. After(r, m) = AfterNewest(st[r], m)
    BY <1>1, <1>4 DEF After
  <2> QED BY <1>4, <2>1, NewestPlace
<1>5. CASE p = "exact"
  <2>1. After(r, m) = AfterExact(st[r], m)
    BY <1>1, <1>5 DEF After
  <2> QED BY <1>5, <2>1, ExactPlace
<1>6. CASE p = "valid"
  <2>1. After(r, m) = AfterValid(r, st[r], m)
    BY <1>1, <1>6 DEF After
  <2> QED BY <1>6, <2>1, ValidPlace
<1>7. CASE p = "verified"
  <2>1. After(r, m) = Chosen(st[r], m)
    BY <1>1, <1>7 DEF After
  <2> QED BY <1>7, <2>1, VerifiedPlace
<1>8. CASE p = "activated"
  <2>1. After(r, m) = AfterActivated(r, st[r], m)
    BY <1>1, <1>8 DEF After
  <2> QED BY <1>8, <2>1, ActivatedPlace
<1>9. CASE p = "eligible"
  <2>1. After(r, m) = AfterEligible(r, st[r], m)
    BY <1>1, <1>9 DEF After
  <2> QED BY <1>9, <2>1, EligiblePlace
<1>10. CASE p = "held"
  <2>1. After(r, m) = AfterHeld(r, st[r], m)
    BY <1>1, <1>10 DEF After
  <2> QED BY <1>10, <2>1, HeldPlace
<1> QED
  BY <1>2, <1>3, <1>4, <1>5, <1>6, <1>7, <1>8, <1>9, <1>10 DEF Collectives

(* Ranks that have learnt the same choose the same.                        *)
LEMMA ChosenSame ==
  ASSUME NEW s \in Progress, NEW t \in Progress, Same(s, t), NEW x
  PROVE  /\ Same(Done(s, x), Done(t, x))
         /\ Same(Finish(s, x), Finish(t, x))
         /\ Same(Chosen(s, x), Chosen(t, x))
<1>1. ASSUME NEW y PROVE Same(Done(s, y), Done(t, y))
  BY DEF Same, Done, Progress
<1>2. ASSUME NEW y PROVE Same(Finish(s, y), Finish(t, y))
  BY <1>1 DEF Finish, Same
<1>3. Same([s EXCEPT !.at = "valid", !.cand = x], [t EXCEPT !.at = "valid", !.cand = x])
  BY DEF Same, Progress
<1>4. s.older = t.older /\ s.memory = t.memory
  BY DEF Same
<1>5. Same(Chosen(s, x), Chosen(t, x))
  <2>1. CASE ~s.older /\ s.memory > 0 /\ s.memory >= x
    BY <1>1, <1>4, <2>1 DEF Chosen
  <2>2. CASE ~(~s.older /\ s.memory > 0 /\ s.memory >= x) /\ x <= 0
    BY <1>2, <1>4, <2>2 DEF Chosen
  <2>3. CASE ~(~s.older /\ s.memory > 0 /\ s.memory >= x) /\ ~(x <= 0)
    BY <1>3, <1>4, <2>3 DEF Chosen
  <2> QED BY <2>1, <2>2, <2>3
<1> QED BY <1>1, <1>2, <1>5

LEMMA AfterSame ==
  ASSUME NEW p \in Collectives, NEW m, Reduced(p, m), NEW r \in Ranks, NEW q \in Ranks
  PROVE  Same(After(r, m), After(q, m))
<1> DEFINE s == st[r]
           t == st[q]
<1>1. s \in Progress /\ t \in Progress /\ Same(s, t) /\ s.at = p /\ t.at = p
  BY ReducedTypes DEF Reduced
<1>2. Resolved(r) = Resolved(q)
  BY DEF Reduced, SelectInv, SameMode
<1>3. call = "exact" => want[r] = want[q]
  BY DEF Reduced, RequestsAgree
<1>4. p \in {"activated", "eligible", "held"} => call = "exact"
  BY <1>1, ReducedTypes DEF Informed, AsksOf
<1>5. ASSUME NEW x PROVE Same(AfterNewest(s, x), AfterNewest(t, x))
  <2>1. Same([s EXCEPT !.at = "exact", !.cand = x], [t EXCEPT !.at = "exact", !.cand = x])
    BY <1>1 DEF Same, Progress
  <2> QED BY <1>1, <2>1, ChosenSame DEF AfterNewest
<1> USE <1>1
<1>6. CASE p \in {"memory", "memory_has"}
  <2>1. Same([s EXCEPT !.at = "memory_has", !.cand = m], [t EXCEPT !.at = "memory_has", !.cand = m])
        /\ Same([s EXCEPT !.at = "newest"], [t EXCEPT !.at = "newest"])
    BY DEF Same, Progress
  <2>2. Same(AfterMemory(s, m), AfterMemory(t, m))
    BY <2>1 DEF AfterMemory
  <2>3. Same(AfterMemoryHas(s, m), AfterMemoryHas(t, m))
    BY DEF AfterMemoryHas, Same, Progress
  <2> QED BY <1>6, <2>2, <2>3 DEF After
<1>7. CASE p \in {"newest", "verified"}
  BY <1>5, <1>7, ChosenSame DEF After
<1>8. CASE p = "exact"
  <2>1. s.cand = t.cand
    BY DEF Same
  <2>2. Same(AfterExact(s, m), AfterExact(t, m))
    BY <1>5, <2>1, ChosenSame DEF AfterExact
  <2> QED BY <1>8, <2>2 DEF After
<1>9. CASE p = "valid"
  <2>1. s.cand = t.cand
    BY DEF Same
  <2>2. Same([s EXCEPT !.at = "newest", !.before = s.cand, !.older = TRUE],
             [t EXCEPT !.at = "newest", !.before = t.cand, !.older = TRUE])
    BY DEF Same, Progress
  <2>3. Same(AfterValid(r, s, m), AfterValid(q, t, m))
    BY <1>2, <2>1, <2>2, ChosenSame DEF AfterValid
  <2> QED BY <1>9, <2>3 DEF After
<1>10. CASE p = "activated"
  <2>1. Same([s EXCEPT !.at = "eligible"], [t EXCEPT !.at = "eligible"])
        /\ Same([s EXCEPT !.at = "held"], [t EXCEPT !.at = "held"])
    BY DEF Same, Progress
  <2>2. Same(AfterActivated(r, s, m), AfterActivated(q, t, m))
    BY <1>2, <2>1, ChosenSame DEF AfterActivated
  <2> QED BY <1>10, <2>2 DEF After
<1>11. CASE p = "eligible"
  <2>1. want[r] = want[q]
    BY <1>3, <1>4, <1>11
  <2>2. Same([s EXCEPT !.at = "valid", !.cand = want[r]],
             [t EXCEPT !.at = "valid", !.cand = want[q]])
    BY <2>1 DEF Same, Progress
  <2>3. Same(AfterEligible(r, s, m), AfterEligible(q, t, m))
    BY <2>2, ChosenSame DEF AfterEligible
  <2> QED BY <1>11, <2>3 DEF After
<1>12. CASE p = "held"
  <2>1. want[r] = want[q]
    BY <1>3, <1>4, <1>12
  <2>2. Same(AfterHeld(r, s, m), AfterHeld(q, t, m))
    BY <2>1, ChosenSame DEF AfterHeld
  <2> QED BY <1>12, <2>2 DEF After
<1> QED
  BY <1>6, <1>7, <1>8, <1>9, <1>10, <1>11, <1>12 DEF Collectives

-----------------------------------------------------------------------------
(* The ranks that wait in a reduction all wait in the same one.            *)
LEMMA OnePlace ==
  ASSUME SelectInv, \A r \in Ranks : st[r].at \in Collectives
  PROVE  /\ call = "exact" => RequestsAgree
         /\ \A r, q \in Ranks : Same(st[r], st[q])
<1>1. CASE Arriving
  <2>1. ASSUME NEW r \in Ranks PROVE st[r] = [Idle EXCEPT !.at = FirstPlace(r)]
    <3>1. Idle.at \notin Collectives
      BY DEF Idle, Collectives
    <3>2. st[r].at \in Collectives
      OBVIOUS
    <3> QED BY <1>1, <3>1, <3>2 DEF Arriving
  <2>2. call # "exact"
    <3>1. PICK r \in Ranks : TRUE
      BY Numbers
    <3>2. call = "exact" => st[r].at = "agree"
      BY <2>1 DEF FirstPlace, Idle
    <3> QED BY <3>2 DEF Collectives
  <2>3. \A r, q \in Ranks : FirstPlace(r) = FirstPlace(q)
    BY DEF FirstPlace, SelectInv, SameMode
  <2> QED BY <2>1, <2>2, <2>3 DEF Same
<1>2. CASE Activating
  <2>1. ASSUME NEW r \in Ranks
        PROVE  /\ st[r].at = "activated" /\ st[r].cand = NoStep
               /\ st[r].before = Unbounded /\ st[r].memory = NoStep /\ ~st[r].older
    <3>1. st[r] # [Idle EXCEPT !.at = "activate"]
      BY DEF Idle, Collectives
    <3>2. PICK b \in BOOLEAN : st[r] = [Idle EXCEPT !.at = "activated", !.ok = b]
      BY <1>2, <3>1 DEF Activating
    <3> QED BY <3>2 DEF Idle
  <2>2. \A r \in Ranks : st[r].older \in BOOLEAN
    BY DEF SelectInv, TypeOK
  <2>3. RequestsAgree
    BY <1>2 DEF Activating
  <2>4. \A r, q \in Ranks : st[r].older = st[q].older
    BY <2>1, <2>2
  <2> QED BY <2>1, <2>3, <2>4 DEF Same
<1>3. CASE InOneRound
  <2>1. \A r \in Ranks : st[r].at # "raised"
    BY DEF Collectives
  <2>2. PICK r \in Ranks : TRUE
    BY Numbers
  <2> QED BY <1>3, <2>1, <2>2 DEF InOneRound
<1> QED BY <1>1, <1>2, <1>3 DEF SelectInv, Together

(* A vote is a step, a flag, or NoStep.                                    *)
LEMMA VoteType ==
  ASSUME SelectInv, NEW q \in Ranks, st[q].at \in Collectives
  PROVE  Vote(q) \in -1 .. Unbounded
<1>1. /\ mem[q] \in SUBSET Steps /\ files[q] \in SUBSET Steps
      /\ st[q].cand \in Steps \cup {NoStep}
  BY DEF SelectInv, TypeOK
<1>2. \A x \in Steps \cup {NoStep} : x \in -1 .. Unbounded
  BY Numbers DEF Steps, NoStep, Unbounded
<1>3. 0 \in -1 .. Unbounded /\ 1 \in -1 .. Unbounded
  BY Numbers DEF Unbounded
<1>4. \A b : Below(files[q], b) \in SUBSET Steps
  BY <1>1 DEF Below
<1>5. \A S \in SUBSET Steps : Newest(S) \in -1 .. Unbounded
  BY <1>2, NewestOf
<1>6. CASE st[q].at \in {"memory", "newest", "verified"}
  <2>1. {status[q].verified} \cap files[q] \in SUBSET Steps
    BY <1>1
  <2> QED BY <1>1, <1>4, <1>5, <1>6, <2>1 DEF Vote
<1>7. CASE st[q].at = "exact"
  BY <1>1, <1>2, <1>4, <1>5, <1>7 DEF Vote, ExactVote
<1>8. CASE st[q].at \in {"memory_has", "valid", "activated", "eligible", "held"}
  <2>1. Vote(q) = 0 \/ Vote(q) = 1
    BY <1>8 DEF Vote, Flag
  <2> QED BY <2>1, <1>3
<1>9. \/ st[q].at \in {"memory", "newest", "verified"} \/ st[q].at = "exact"
      \/ st[q].at \in {"memory_has", "valid", "activated", "eligible", "held"}
  BY DEF Collectives
<1> QED BY <1>6, <1>7, <1>8, <1>9

LEMMA RoundReduced ==
  ASSUME SelectInv, \A r \in Ranks : st[r].at \in Collectives
  PROVE  \E p \in Collectives : Reduced(p, Min({Vote(r) : r \in Ranks}))
<1> DEFINE S == {Vote(r) : r \in Ranks}
<1>1. PICK r \in Ranks : TRUE
  BY Numbers
<1>2. S \in SUBSET (-1 .. Unbounded) /\ S # {}
  BY <1>1, VoteType
<1>3. Min(S) \in S /\ \A y \in S : Min(S) <= y
  <2> HIDE DEF S
  <2> QED BY <1>2, Numbers, Smallest
<1>4. \A q \in Ranks : st[q].at = st[r].at
  BY OnePlace DEF Same
<1>5. Reduced(st[r].at, Min(S))
  BY <1>3, <1>4, OnePlace DEF Reduced
<1> QED BY <1>5

-----------------------------------------------------------------------------
(* A rank's write of its mode into its status keeps the history, and the   *)
(* mode that the rank resolves.                                            *)
Writes(r) == status' = [status EXCEPT ![r] = Activated(r, Resolved(r))]

LEMMA StatusKept ==
  ASSUME TypeOK, UNCHANGED held, NEW r \in Ranks, status' = status \/ Writes(r)
  PROVE  /\ status' \in [Ranks -> Statuses]
         /\ \A q \in Ranks : /\ status'[q].history = status[q].history
                             /\ Resolved(q)' = Resolved(q)
                             /\ Recorded(q) => Recorded(q)'
         /\ Writes(r) => Recorded(r)'
<1>1. asked' = asked /\ status \in [Ranks -> Statuses] /\ asked \in Modes \cup {"status"}
  BY DEF held, TypeOK
<1>2. Resolved(r) \in Modes /\ status[r] \in Statuses
  BY <1>1 DEF Resolved, Statuses
<1> DEFINE a == Activated(r, Resolved(r))
<1>3. /\ a \in Statuses /\ a.mode = Resolved(r) /\ a.history = status[r].history
      /\ Resolved(r) = "recovery_verified" => ~a.candidate
  BY <1>2 DEF Activated, Statuses
<1> HIDE DEF a
<1>4. ASSUME Writes(r)
      PROVE  /\ status' \in [Ranks -> Statuses] /\ status'[r] = a
             /\ \A q \in Ranks : q # r => status'[q] = status[q]
  BY <1>1, <1>3, <1>4 DEF Writes, a
<1>5. ASSUME NEW q \in Ranks
      PROVE  /\ status'[q].history = status[q].history
             /\ Resolved(q)' = Resolved(q)
             /\ Recorded(q) => Recorded(q)'
  <2>1. CASE status'[q] = status[q]
    BY <1>1, <2>1 DEF Resolved, Recorded
  <2>2. CASE q = r /\ Writes(r)
    BY <1>1, <1>3, <1>4, <2>2 DEF Resolved, Recorded
  <2> QED BY <1>4, <2>1, <2>2
<1>6. Writes(r) => Recorded(r)'
  BY <1>3, <1>4, <1>5 DEF Recorded
<1> QED BY <1>1, <1>4, <1>5, <1>6

(* What a rank knows outlives a step that keeps the files, the slots and   *)
(* the histories.                                                          *)
LEMMA InformedNext ==
  ASSUME UNCHANGED held, NEW r \in Ranks,
         \A q \in Ranks : status'[q].history = status[q].history,
         Resolved(r)' = Resolved(r),
         AsksOf(r, st'[r]), MemoryOf(r, st'[r]), CandidateOf(r, st'[r]),
         BoundOf(r, st'[r]), ResultOf(r, st'[r]), RecordOf(r, st[r])'
  PROVE  Informed(r, st[r])'
<1>1. mem' = mem /\ files' = files /\ valid' = valid /\ call' = call /\ want' = want
  BY DEF held
<1>2. CommonlyValid' = CommonlyValid
  BY <1>1 DEF CommonlyValid
<1>3. AsksOf(r, st[r])' /\ MemoryOf(r, st[r])'
  BY <1>1 DEF AsksOf, MemoryOf
<1>4. CandidateOf(r, st[r])'
  BY <1>1 DEF CandidateOf
<1>5. BoundOf(r, st[r])'
  BY <1>2 DEF BoundOf
<1>6. ResultOf(r, st[r])'
  <2> DEFINE x == st'[r].cand
  <2>1. Settles(r, x) => Settles(r, st[r].cand)'
    BY <1>1, <1>2 DEF Settles
  <2> QED BY <1>1, <1>2, <2>1 DEF ResultOf
<1> QED BY <1>3, <1>4, <1>5, <1>6 DEF Informed

(* A rank that has not entered a reduction has learnt nothing.             *)
LEMMA NothingLearnt ==
  ASSUME NEW r \in Ranks, NEW s \in Progress,
         s.at \in {"idle", "agree", "activate", "raised"}, s.memory = NoStep
  PROVE  /\ AsksOf(r, s) /\ MemoryOf(r, s) /\ CandidateOf(r, s)
         /\ BoundOf(r, s) /\ ResultOf(r, s)
  BY DEF AsksOf, MemoryOf, CandidateOf, BoundOf, ResultOf

(* What does not change when all ranks agree or reduce.                    *)
LEMMA KeptByAll ==
  ASSUME SelectInv, UNCHANGED <<held, status>>, st' \in [Ranks -> Progress]
  PROVE  /\ TypeOK' /\ (\A r \in Ranks : valid[r] \subseteq files[r])' /\ SameMode'
         /\ RequestsAgree => RequestsAgree'
         /\ \A r \in Ranks : Resolved(r)' = Resolved(r) /\ FirstPlace(r)' = FirstPlace(r)
                             /\ (Recorded(r)' <=> Recorded(r))
<1>1. /\ mem' = mem /\ files' = files /\ valid' = valid /\ call' = call
      /\ want' = want /\ asked' = asked /\ status' = status
  BY DEF held
<1>2. \A r \in Ranks : Resolved(r)' = Resolved(r)
  BY <1>1 DEF Resolved
<1>3. TypeOK'
  BY <1>1 DEF TypeOK, SelectInv, Progress
<1>4. SameMode'
  BY <1>2 DEF SelectInv, SameMode
<1>5. (\A r \in Ranks : valid[r] \subseteq files[r])'
  BY <1>1 DEF SelectInv
<1>6. RequestsAgree => RequestsAgree'
  BY <1>1, <1>2 DEF RequestsAgree
<1>7. \A r \in Ranks : FirstPlace(r)' = FirstPlace(r) /\ (Recorded(r)' <=> Recorded(r))
  BY <1>1, <1>2 DEF FirstPlace, Recorded
<1> QED BY <1>2, <1>3, <1>4, <1>5, <1>6, <1>7

-----------------------------------------------------------------------------
(* Each action keeps the invariant.                                        *)
LEMMA RoundStep ==
  ASSUME SelectInv, Round
  PROVE  SelectInv'
<1> DEFINE m == Min({Vote(r) : r \in Ranks})
<1>1. PICK p \in Collectives : Reduced(p, m)
  BY RoundReduced DEF Round
<1>2. st' = [r \in Ranks |-> After(r, m)] /\ UNCHANGED <<held, status>>
  BY DEF Round
<1> HIDE DEF m
<1>3. ASSUME NEW r \in Ranks
      PROVE  /\ st'[r] \in Progress /\ st'[r].at \in Later
             /\ Informed(r, st'[r])
  BY <1>1, <1>2, AfterGoesOn DEF GoesOn
<1>4. \A r, q \in Ranks : Same(st'[r], st'[q])
  BY <1>1, <1>2, AfterSame
<1>5. /\ TypeOK' /\ (\A r \in Ranks : valid[r] \subseteq files[r])' /\ SameMode'
      /\ RequestsAgree => RequestsAgree'
      /\ \A r \in Ranks : Resolved(r)' = Resolved(r) /\ (Recorded(r)' <=> Recorded(r))
  <2>1. st' \in [Ranks -> Progress]
    BY <1>2, <1>3
  <2> QED BY <1>2, <2>1, KeptByAll
<1>6. Together'
  <2>1. (\A r, q \in Ranks : Same(st[r], st[q]))'
    BY <1>4 DEF Same
  <2>2. call' = call /\ (call = "exact" => RequestsAgree)
    BY <1>1, <1>2 DEF held, Reduced
  <2> QED BY <1>3, <1>5, <2>1, <2>2 DEF Together, InOneRound
<1>7. ASSUME NEW r \in Ranks PROVE Informed(r, st[r])'
  <2>1. RecordOf(r, st'[r]) /\ call' = call
    BY <1>2, <1>3 DEF Informed, held
  <2>2. RecordOf(r, st[r])'
    BY <1>5, <2>1 DEF RecordOf
  <2> QED BY <1>2, <1>3, <1>5, <2>2, InformedNext DEF Informed
<1> QED BY <1>5, <1>6, <1>7 DEF SelectInv

LEMMA AgreeStep ==
  ASSUME SelectInv, Agree
  PROVE  SelectInv'
<1> DEFINE place == IF RequestsAgree THEN "activate" ELSE "raised"
<1>1. /\ \A r \in Ranks : st[r].at = "agree" /\ st[r] \in Progress
      /\ st' = [r \in Ranks |-> [st[r] EXCEPT !.at = place]]
      /\ UNCHANGED <<held, status>> /\ call' = call
  BY DEF Agree, held, SelectInv, TypeOK, Progress
<1>2. Idle.at = "idle"
  BY DEF Idle
<1>3. PICK x \in Ranks : TRUE
  BY Numbers
<1>4. Arriving
  <2>1. ~Activating
    BY <1>1, <1>3 DEF Activating, Idle
  <2>2. ~InOneRound
    BY <1>1, <1>3 DEF InOneRound, Later, Collectives
  <2> QED BY <2>1, <2>2 DEF SelectInv, Together
<1>5. ASSUME NEW r \in Ranks
      PROVE  st[r] = [Idle EXCEPT !.at = "agree"] /\ FirstPlace(r) = "agree"
  <2>1. st[r] = [Idle EXCEPT !.at = FirstPlace(r)]
    BY <1>1, <1>2, <1>4 DEF Arriving
  <2>2. FirstPlace(r) = "agree"
    BY <1>1, <2>1 DEF Idle
  <2> QED BY <2>1, <2>2
<1>6. call = "exact"
  BY <1>3, <1>5 DEF FirstPlace
<1>7. ASSUME NEW r \in Ranks
      PROVE  /\ st'[r] = [Idle EXCEPT !.at = place]
             /\ st'[r] \in Progress /\ st'[r].at = place /\ st'[r].memory = NoStep
  <2>1. st'[r] = [Idle EXCEPT !.at = place]
    BY <1>1, <1>5 DEF Idle
  <2>2. place \in Places
    BY DEF Places
  <2>3. st'[r] \in Progress
    BY <1>1, <2>2 DEF Progress
  <2> QED BY <2>1, <2>3 DEF Idle
<1>8. /\ TypeOK' /\ (\A r \in Ranks : valid[r] \subseteq files[r])' /\ SameMode'
      /\ RequestsAgree => RequestsAgree'
      /\ \A r \in Ranks : Resolved(r)' = Resolved(r)
  <2>1. st' \in [Ranks -> Progress]
    BY <1>1, <1>7
  <2> QED BY <1>1, <2>1, KeptByAll
<1>9. Together'
  <2>1. CASE RequestsAgree
    BY <1>1, <1>6, <1>7, <1>8, <2>1 DEF Together, Activating
  <2>2. CASE ~RequestsAgree
    <3>1. \A r \in Ranks : st'[r].at = "raised"
      BY <1>7, <2>2
    <3>2. (\A r, q \in Ranks : Same(st[r], st[q]))'
      BY <1>7 DEF Same
    <3> QED BY <3>1, <3>2 DEF Together, InOneRound, Later
  <2> QED BY <2>1, <2>2
<1>10. ASSUME NEW r \in Ranks PROVE Informed(r, st[r])'
  <2>1. RecordOf(r, st[r])'
    BY <1>1, <1>6, <1>7 DEF RecordOf
  <2>2. place \in {"idle", "agree", "activate", "raised"}
    OBVIOUS
  <2> HIDE DEF place
  <2>3. /\ AsksOf(r, st'[r]) /\ MemoryOf(r, st'[r]) /\ CandidateOf(r, st'[r])
        /\ BoundOf(r, st'[r]) /\ ResultOf(r, st'[r])
    BY <1>7, <2>2, NothingLearnt
  <2> QED BY <1>1, <1>8, <2>1, <2>3, InformedNext
<1> QED BY <1>8, <1>9, <1>10 DEF SelectInv

LEMMA ActivateStep ==
  ASSUME SelectInv, NEW r \in Ranks, NEW succeeds \in BOOLEAN, Activate(r, succeeds)
  PROVE  SelectInv'
<1>1. /\ st[r].at = "activate" /\ st \in [Ranks -> Progress]
      /\ st' = [st EXCEPT ![r].at = "activated", ![r].ok = succeeds]
      /\ UNCHANGED held /\ call' = call
      /\ status' = status \/ Writes(r)
      /\ succeeds => Writes(r)
  BY DEF Activate, Writes, held, SelectInv, TypeOK, Progress
<1>2. Activating
  <2>1. ~Arriving
    <3>1. FirstPlace(r) # "activate"
      BY DEF FirstPlace
    <3> QED BY <1>1, <3>1 DEF Arriving, Idle
  <2>2. ~InOneRound
    BY <1>1 DEF InOneRound, Later, Collectives
  <2> QED BY <2>1, <2>2 DEF SelectInv, Together
<1>3. st[r] = [Idle EXCEPT !.at = "activate"]
  <2>1. \A b \in BOOLEAN : [Idle EXCEPT !.at = "activated", !.ok = b].at # "activate"
    BY DEF Idle
  <2> QED BY <1>1, <1>2, <2>1 DEF Activating
<1>4. /\ st'[r] = [Idle EXCEPT !.at = "activated", !.ok = succeeds]
      /\ st'[r].at = "activated" /\ st'[r].ok = succeeds /\ st'[r].memory = NoStep
      /\ \A q \in Ranks : q # r => st'[q] = st[q]
      /\ st' \in [Ranks -> Progress]
  <2>1. st'[r] = [st[r] EXCEPT !.at = "activated", !.ok = succeeds]
    BY <1>1
  <2>2. st'[r] = [Idle EXCEPT !.at = "activated", !.ok = succeeds]
    BY <1>3, <2>1 DEF Idle
  <2>3. st'[r] \in Progress
    <3>1. st[r] \in Progress /\ "activated" \in Places
      BY <1>1 DEF Places, Collectives
    <3> QED BY <2>1, <3>1 DEF Progress
  <2>4. /\ st'[r].at = "activated" /\ st'[r].ok = succeeds /\ st'[r].memory = NoStep
    BY <2>2 DEF Idle
  <2>5. \A q \in Ranks : q # r => st'[q] = st[q]
    BY <1>1
  <2> QED BY <1>1, <2>2, <2>3, <2>4, <2>5
<1>5. /\ status' \in [Ranks -> Statuses]
      /\ \A q \in Ranks : /\ status'[q].history = status[q].history
                          /\ Resolved(q)' = Resolved(q)
                          /\ Recorded(q) => Recorded(q)'
      /\ Writes(r) => Recorded(r)'
  BY <1>1, StatusKept DEF SelectInv
<1>6. TypeOK' /\ (\A q \in Ranks : valid[q] \subseteq files[q])' /\ SameMode'
  BY <1>1, <1>4, <1>5 DEF SelectInv, TypeOK, SameMode, held, Progress
<1>7. Together'
  <2>1. RequestsAgree'
    BY <1>1, <1>2, <1>5 DEF Activating, RequestsAgree, held
  <2>2. ASSUME NEW q \in Ranks
        PROVE  \/ st'[q] = [Idle EXCEPT !.at = "activate"]
               \/ \E b \in BOOLEAN : st'[q] = [Idle EXCEPT !.at = "activated", !.ok = b]
    BY <1>2, <1>4 DEF Activating
  <2> QED BY <1>1, <1>2, <2>1, <2>2 DEF Together, Activating
<1>8. ASSUME NEW q \in Ranks PROVE Informed(q, st[q])'
  <2>1. CASE q = r
    <3>1. RecordOf(r, st[r])'
      BY <1>1, <1>2, <1>4, <1>5 DEF RecordOf, Activating
    <3>2. /\ AsksOf(r, st'[r]) /\ MemoryOf(r, st'[r]) /\ CandidateOf(r, st'[r])
          /\ BoundOf(r, st'[r]) /\ ResultOf(r, st'[r])
      BY <1>2, <1>4 DEF AsksOf, MemoryOf, CandidateOf, BoundOf, ResultOf, Activating
    <3> QED BY <1>1, <1>5, <2>1, <3>1, <3>2, InformedNext
  <2>2. CASE q # r
    <3>1. st'[q] = st[q] /\ Informed(q, st'[q])
      BY <1>4, <2>2 DEF SelectInv
    <3>2. RecordOf(q, st[q])'
      BY <1>1, <1>5, <3>1 DEF Informed, RecordOf
    <3> QED BY <1>1, <1>5, <3>1, <3>2, InformedNext DEF Informed
  <2> QED BY <2>1, <2>2
<1> QED BY <1>6, <1>7, <1>8 DEF SelectInv

LEMMA BeginStep ==
  ASSUME SelectInv, NEW r \in Ranks, Begin(r)
  PROVE  SelectInv'
<1>1. /\ st[r].at = "idle" /\ st \in [Ranks -> Progress]
      /\ st' = [st EXCEPT ![r].at = FirstPlace(r)]
      /\ UNCHANGED held /\ call' = call
      /\ status' = status \/ Writes(r)
      /\ call = "load" => Writes(r)
  BY DEF Begin, Writes, held, SelectInv, TypeOK, Progress
<1>2. Arriving
  <2>1. ~Activating
    BY <1>1 DEF Activating, Idle
  <2>2. ~InOneRound
    BY <1>1 DEF InOneRound, Later, Collectives
  <2> QED BY <2>1, <2>2 DEF SelectInv, Together
<1>3. st[r] = Idle
  <2>1. FirstPlace(r) # "idle"
    BY DEF FirstPlace
  <2> QED BY <1>1, <1>2, <2>1 DEF Arriving, Idle
<1>4. /\ FirstPlace(r) \in {"agree", "verified", "memory"}
      /\ FirstPlace(r) = "agree" <=> call = "exact"
      /\ FirstPlace(r) = "verified" => Resolved(r) = "recovery_verified"
      /\ FirstPlace(r) = "memory" => Resolved(r) = "latest"
  BY DEF FirstPlace, Resolved, SelectInv, TypeOK, Statuses, Modes
<1>5. /\ st'[r] = [Idle EXCEPT !.at = FirstPlace(r)]
      /\ st'[r].at = FirstPlace(r) /\ st'[r].memory = NoStep /\ st'[r].before = Unbounded
      /\ \A q \in Ranks : q # r => st'[q] = st[q]
      /\ st' \in [Ranks -> Progress]
  <2>1. st'[r] = [Idle EXCEPT !.at = FirstPlace(r)]
    BY <1>1, <1>3 DEF Idle
  <2>2. st'[r] \in Progress
    BY <1>1, <1>4 DEF Progress, Places, Collectives
  <2> QED BY <1>1, <2>1, <2>2 DEF Idle
<1>6. /\ status' \in [Ranks -> Statuses]
      /\ \A q \in Ranks : /\ status'[q].history = status[q].history
                          /\ Resolved(q)' = Resolved(q)
                          /\ Recorded(q) => Recorded(q)'
      /\ Writes(r) => Recorded(r)'
  BY <1>1, StatusKept DEF SelectInv
<1>7. TypeOK' /\ (\A q \in Ranks : valid[q] \subseteq files[q])' /\ SameMode'
  BY <1>1, <1>5, <1>6 DEF SelectInv, TypeOK, SameMode, held, Progress
<1>8. Together'
  <2>1. \A q \in Ranks : FirstPlace(q)' = FirstPlace(q)
    BY <1>1, <1>6 DEF FirstPlace
  <2>2. ASSUME NEW q \in Ranks
        PROVE  st'[q] \in {Idle, [Idle EXCEPT !.at = FirstPlace(q)]}
    BY <1>2, <1>5 DEF Arriving
  <2> QED BY <2>1, <2>2 DEF Together, Arriving
<1>9. ASSUME NEW q \in Ranks PROVE Informed(q, st[q])'
  <2>1. CASE q = r
    <3>1. RecordOf(r, st[r])'
      BY <1>1, <1>4, <1>5, <1>6 DEF RecordOf
    <3>2. /\ AsksOf(r, st'[r]) /\ MemoryOf(r, st'[r]) /\ CandidateOf(r, st'[r])
          /\ BoundOf(r, st'[r]) /\ ResultOf(r, st'[r])
      BY <1>4, <1>5 DEF AsksOf, MemoryOf, CandidateOf, BoundOf, ResultOf
    <3> QED BY <1>1, <1>6, <2>1, <3>1, <3>2, InformedNext
  <2>2. CASE q # r
    <3>1. st'[q] = st[q] /\ Informed(q, st'[q])
      BY <1>5, <2>2 DEF SelectInv
    <3>2. RecordOf(q, st[q])'
      BY <1>1, <1>6, <3>1 DEF Informed, RecordOf
    <3> QED BY <1>1, <1>6, <3>1, <3>2, InformedNext DEF Informed
  <2> QED BY <2>1, <2>2
<1> QED BY <1>7, <1>8, <1>9 DEF SelectInv

-----------------------------------------------------------------------------
(* Before the call the ranks have learnt nothing.                          *)
LEMMA InitSelect ==
  ASSUME Init, SameMode
  PROVE  SelectInv
<1>1. /\ Modes \cup {"status"} = {"latest", "recovery_verified", "status"}
      /\ call \in {"load", "find", "exact"} /\ asked \in Modes \cup {"status"}
  BY SelectAssumption DEF Init, Modes
<1>2. Looked \subseteq Steps
  BY SelectAssumption DEF Looked, Steps
<1>3. /\ mem \in [Ranks -> SUBSET Steps] /\ files \in [Ranks -> SUBSET Steps]
      /\ want \in [Ranks -> Steps \cup {NoStep}]
  BY <1>2, SelectAssumption DEF Init, Steps
<1>4. valid \in [Ranks -> SUBSET Steps] /\ \A r \in Ranks : valid[r] \subseteq files[r]
  <2>1. PICK damaged : valid = [r \in Ranks |-> files[r] \ damaged[r]]
    BY DEF Init
  <2> QED BY <1>3, <2>1
<1>5. status \in [Ranks -> Statuses]
  <2>1. PICK modes \in [Ranks -> Modes], verified \in [Ranks -> SUBSET Looked] :
          status = [r \in Ranks |-> InitialStatus(modes[r], verified[r])]
    <3>1. PICK modes \in [Ranks -> IF asked = "status" THEN Modes ELSE Modes \ {asked}],
               verified \in [Ranks -> IF asked = "latest" THEN {{}}
                                      ELSE {v \in SUBSET Looked :
                                              call = "exact" \/ Cardinality(v) <= 1}] :
            status = [r \in Ranks |-> InitialStatus(modes[r], verified[r])]
      BY DEF Init
    <3>2. modes \in [Ranks -> Modes]
      OBVIOUS
    <3>3. verified \in [Ranks -> SUBSET Looked]
      OBVIOUS
    <3> QED BY <3>1, <3>2, <3>3
  <2>2. ASSUME NEW r \in Ranks PROVE InitialStatus(modes[r], verified[r]) \in Statuses
    <3>1. verified[r] \in SUBSET Steps /\ modes[r] \in Modes
      BY <1>2
    <3>2. Newest(verified[r]) \in verified[r] \cup {NoStep}
      BY <3>1, NewestOf
    <3> QED BY <3>1, <3>2 DEF InitialStatus, Statuses
  <2> QED BY <2>1, <2>2
<1>6. st = [r \in Ranks |-> Idle] /\ Idle \in Progress
  BY DEF Init, Idle, Progress, Places
<1>7. TypeOK
  BY <1>1, <1>3, <1>4, <1>5, <1>6 DEF TypeOK, Progress
<1>8. Together
  BY <1>6 DEF Together, Arriving
<1>9. ASSUME NEW r \in Ranks PROVE Informed(r, st[r])
  <2>1. st[r] = Idle /\ Idle.at = "idle" /\ Idle.memory = NoStep
    BY <1>6 DEF Idle
  <2>2. RecordOf(r, st[r])
    BY <2>1 DEF RecordOf
  <2> QED BY <1>6, <2>1, <2>2, NothingLearnt DEF Informed
<1> QED BY <1>4, <1>7, <1>8, <1>9 DEF SelectInv

(* Nothing moves once all ranks have returned.                             *)
LEMMA NothingMoves ==
  ASSUME SelectInv, UNCHANGED vars
  PROVE  SelectInv'
<1>1. UNCHANGED <<held, status>> /\ st' = st /\ call' = call /\ st \in [Ranks -> Progress]
  BY DEF vars, held, SelectInv, TypeOK, Progress
<1>2. /\ TypeOK' /\ (\A r \in Ranks : valid[r] \subseteq files[r])' /\ SameMode'
      /\ RequestsAgree => RequestsAgree'
      /\ \A r \in Ranks : Resolved(r)' = Resolved(r) /\ FirstPlace(r)' = FirstPlace(r)
                          /\ (Recorded(r)' <=> Recorded(r))
  BY <1>1, KeptByAll
<1>3. Together'
  <2>1. Arriving => Arriving'
    BY <1>1, <1>2 DEF Arriving
  <2>2. Activating => Activating'
    BY <1>1, <1>2 DEF Activating
  <2>3. InOneRound => InOneRound'
    BY <1>1, <1>2 DEF InOneRound, Same
  <2> QED BY <2>1, <2>2, <2>3 DEF SelectInv, Together
<1>4. ASSUME NEW r \in Ranks PROVE Informed(r, st[r])'
  <2>1. Informed(r, st'[r]) /\ RecordOf(r, st[r])'
    BY <1>1, <1>2 DEF SelectInv, Informed, RecordOf
  <2> QED BY <1>1, <1>2, <2>1, InformedNext DEF Informed
<1> QED BY <1>2, <1>3, <1>4 DEF SelectInv

(* Every step of the ranks keeps the invariant.                            *)
LEMMA StepSelect ==
  ASSUME SelectInv, [Next]_vars
  PROVE  SelectInv'
<1>1. ASSUME NEW r \in Ranks, Begin(r) PROVE SelectInv'
  BY <1>1, BeginStep
<1>2. ASSUME NEW r \in Ranks, NEW succeeds \in BOOLEAN, Activate(r, succeeds)
      PROVE  SelectInv'
  BY <1>2, ActivateStep
<1>3. CASE Agree
  BY <1>3, AgreeStep
<1>4. CASE Round
  BY <1>4, RoundStep
<1>5. CASE Finished
  BY <1>5, NothingMoves DEF Finished
<1>6. CASE UNCHANGED vars
  BY <1>6, NothingMoves
<1> QED BY <1>1, <1>2, <1>3, <1>4, <1>5, <1>6 DEF Next

(* An explicit mode is the same one on every rank; only under mode=None    *)
(* does SameMode ask something of the statuses.                            *)
LEMMA ExplicitMode ==
  ASSUME asked # "status"
  PROVE  SameMode
  BY DEF SameMode, Resolved

(* load, find_latest and load(step=) in one mode: the ranks stay in step   *)
(* and what each has concluded is true of all (_collective_min_step has no *)
(* tag that would tell them).                                              *)
THEOREM SelectInvariant == Spec /\ SameMode => []SelectInv
<1>1. Init /\ SameMode => SelectInv
  BY InitSelect
<1>2. SelectInv /\ [Next]_vars => SelectInv'
  BY StepSelect
<1> QED BY <1>1, <1>2, PTL DEF Spec

(* A step that the ranks settle on can be loaded whole by every rank, and  *)
(* is as verified as the mode asks.                                        *)
THEOREM ResultIsHeldByAllAlways == Spec /\ SameMode => []ResultIsHeldByAll
<1>1. SelectInv => ResultIsHeldByAll
  BY DEF SelectInv, Informed, ResultOf, Settles, ResultIsHeldByAll, HasResult, Result
<1> QED BY <1>1, SelectInvariant, PTL

(* The search in the latest mode misses no generation that all ranks have  *)
(* valid files of, and a load leaves its mode in every status.             *)
THEOREM NewestIsFoundAlways == Spec /\ SameMode => []NewestIsFound
<1>1. SelectInv => NewestValidIsFound
  BY DEF SelectInv, Informed, ResultOf, NewestValidIsFound, Result
<1>2. SelectInv => ModeIsRecorded
  <2> SUFFICES ASSUME SelectInv, \A r \in Ranks : HasResult(r), call # "find",
                      NEW r \in Ranks
               PROVE  Recorded(r)
    BY DEF ModeIsRecorded, Recorded
  <2>1. st[r].at = "done" /\ st[r].cand > 0 /\ call \in {"load", "exact"}
    BY DEF HasResult, Result, SelectInv, TypeOK
  <2> QED BY <2>1 DEF SelectInv, Informed, RecordOf
<1> QED BY <1>1, <1>2, SelectInvariant, PTL DEF NewestIsFound

(* No rank is left in a reduction that another one has returned from, and  *)
(* all of them return the same step (load and find_latest return on every  *)
(* rank what the reductions showed).                                       *)
ReturnTogether ==
  \A r, q \in Ranks : Returned(r) => st[q].at = st[r].at /\ Result(q) = Result(r)

(* The ranks return in the same round, with one result.                    *)
THEOREM ReturnTogetherAlways == Spec /\ SameMode => []ReturnTogether
<1>1. SelectInv => ReturnTogether
  <2> SUFFICES ASSUME SelectInv, NEW r \in Ranks, NEW q \in Ranks, Returned(r)
               PROVE  st[q].at = st[r].at /\ st[q].cand = st[r].cand
    BY DEF ReturnTogether, Result
  <2>1. ~Arriving
    <3>1. FirstPlace(r) \notin {"done", "raised"}
      BY DEF FirstPlace
    <3> QED BY <3>1 DEF Arriving, Idle, Returned
  <2>2. ~Activating
    <3>1. /\ [Idle EXCEPT !.at = "activate"].at = "activate"
          /\ \A b \in BOOLEAN : [Idle EXCEPT !.at = "activated", !.ok = b].at = "activated"
      BY DEF Idle
    <3> QED BY <3>1 DEF Activating, Returned
  <2> QED BY <2>1, <2>2 DEF SelectInv, Together, InOneRound, Same
<1> QED BY <1>1, SelectInvariant, PTL

=============================================================================
