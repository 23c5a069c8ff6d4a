-------------------------- MODULE FaultCampaignProof --------------------------
(***************************************************************************)
(* Fault-injection campaigns, for every set of ranks, campaign, number of  *)
(* jobs and number of failures: the ranks of a job always mean the same    *)
(* round, an occurrence is claimed in every journal before any rank        *)
(* applies it, its limit is kept, the ranks arm together, and an injection *)
(* that counts as completed lasted for its whole lifetime.                 *)
(*                                                                         *)
(* Four invariants.  The rounds carry no tag, so InStep says of every      *)
(* rank which round it is on its way to, given what all ranks of the job   *)
(* knew after the round before.  Claims counts, for ranks r and q and      *)
(* every occurrence, the jobs in which q has claimed it and r may still    *)
(* apply it: r has applied it no more often than q's journal has claims    *)
(* beyond these.  Effects is about one rank of one job: where its effects  *)
(* are in their lifetime.  AsOne says of a rank that waits after it has    *)
(* activated what its records must show before any rank trains.            *)
(*                                                                         *)
(* At the end, for every accepted schedule of two incidents that aim at    *)
(* one tensor (StateFault): it is free whenever one of them is due.        *)
(***************************************************************************)
EXTENDS FaultCampaign, FiniteSetTheorems, WellFoundedInduction, TLAPS

(* No claim in journal w goes beyond its limit.                            *)
WithinLimit(w) ==
  \A o \in Occurrences : Incident(o).limit > 0 => w.attempts[o] <= Incident(o).limit

Kept == {w \in Journals : WithinLimit(w)}

Session ==
  [at : Places, iter : Nat, journal : Kept, before : Kept, err : BOOLEAN,
   active : SUBSET Occurrences, stuck : SUBSET Occurrences]

CampaignTypes ==
  /\ scope \in Scopes
  /\ store \in [Ranks -> Kept]
  /\ ses \in [Jobs -> [Ranks -> Session]]
  /\ on \in [Jobs -> [Ranks -> SUBSET Occurrences]]
  /\ held \in [Jobs -> [Ranks -> [Occurrences -> Nat]]]
  /\ record \in [Jobs -> [Ranks -> [Occurrences -> Statuses]]]
  /\ fired \in [Ranks -> [Occurrences -> Nat]]

(* What a session knows of its journal: binding it claims nothing, and     *)
(* staging claims what is selected or nothing.                             *)
Books(s) ==
  /\ s.at \in {"enable", "bind", "binding"} =>
       s.journal = [s.before EXCEPT !.bound = TRUE]
  /\ s.at \in {"persist", "restore"} =>
       s.journal = IF s.err THEN s.before ELSE Claimed(s.before, Selected(s.before, s.iter))

-----------------------------------------------------------------------------
(***************************************************************************)
(* Which round a session s is on its way to, or waits in, when all ranks   *)
(* of its job left the round before with the journal w, the journal b      *)
(* before that, and the iteration n.  While the ranks train, n is the      *)
(* furthest iteration that one of them has reached.                        *)
(***************************************************************************)
Leaving == Gone \cup {"cleanup", "rollback"}

(* RequiresBoundaryConsensus, which does not depend on the rank.           *)
BoundaryIsDue(w, n) == \E r \in Ranks : RequiresBoundaryConsensus(w, n, r)

ToEnable(s) == s.at \in {"off", "enable"}

ToBinding(s, w, n) ==
  s.at \in {"bind", "binding"} /\ s.journal = w /\ s.iter = n

ToPreflight(s, w, n) ==
  s.at \in {"enter", "preflight"} /\ s.journal = w /\ s.iter = n /\ Candidates(w, n) # {}

ToPersist(s, w, n) ==
  /\ s.iter = n
  /\ \/ s.at = "stage" /\ s.journal = w
     \/ s.at = "persist" /\ s.before = w

ToRestored(s, n) == s.at \in {"restore", "restored"} /\ s.iter = n

ToArm(s, w, b, n) ==
  /\ s.at \in {"activate", "arm"} /\ s.journal = w /\ s.before = b /\ s.iter = n
  /\ RequiresActivationConsensus(s)

ToPrepare(s, w, n) ==
  /\ s.journal = w
  /\ \/ /\ \/ s.at = "train"
           \/ s.at = "enter" /\ Candidates(w, s.iter) = {}
           \/ s.at = "activate" /\ ~RequiresActivationConsensus(s)
        /\ s.iter <= n
        /\ \A m \in Nat : s.iter <= m /\ m < n => ~BoundaryIsDue(w, m)
     \/ /\ s.at = "prepare"
        /\ BoundaryIsDue(w, n)
        /\ ~s.err => s.iter = n + 1
        /\ s.err => s.iter \in {n, n + 1}

OnTheWay(s, round, w, b, n) ==
  \/ s.at \in Leaving
  \/ round = "enable" /\ ToEnable(s)
  \/ round = "binding" /\ ToBinding(s, w, n)
  \/ round = "preflight" /\ ToPreflight(s, w, n)
  \/ round = "persist" /\ ToPersist(s, w, n)
  \/ round = "restored" /\ ToRestored(s, n)
  \/ round = "arm" /\ ToArm(s, w, b, n)
  \/ round = "prepare" /\ ToPrepare(s, w, n)

InStep(j) ==
  \E round \in Consensus, w, b \in Kept, n \in Nat :
    \A r \in Ranks : OnTheWay(ses[j][r], round, w, b, n)

-----------------------------------------------------------------------------
(* In the job with sessions f, rank q has claimed o, or has not taken it   *)
(* back yet, or rank r may still apply it.                                 *)
Owed(f, r, q, o) ==
  \/ /\ f[q].at \in {"persist", "restore"} /\ ~f[q].err
     /\ o \in Selected(f[q].before, f[q].iter)
  \/ /\ f[r].at = "activate" /\ r \in Incident(o).ranks
     /\ o \in Selected(f[r].before, f[r].iter)

Debts(r, q, o) == {j \in Jobs : Owed(ses[j], r, q, o)}

Claims ==
  \A r, q \in Ranks, o \in Occurrences :
    fired[r][o] + Cardinality(Debts(r, q, o)) <= store[q].attempts[o]

-----------------------------------------------------------------------------
(***************************************************************************)
(* The effects of one rank of a job.  Before an iteration's activation     *)
(* there is no trace of an occurrence that is due in it or later.  A       *)
(* bounded effect that runs has been on since its trigger iteration, and   *)
(* what is completed is off.                                               *)
(***************************************************************************)
BeforeActivation ==
  {"off", "enable", "bind", "binding", "enter", "preflight", "stage", "persist",
   "restore", "restored", "activate", "prepare"}

(* The session goes on.                                                    *)
Sound(s) == s.at \notin Leaving /\ ~(s.at = "prepare" /\ s.err)

Untouched(j, r, o) ==
  /\ o \notin ses[j][r].active /\ o \notin on[j][r]
  /\ record[j][r][o] = "none" /\ held[j][r][o] = 0

NoTraceAhead(j, r) ==
  LET s == ses[j][r]
  IN  Sound(s) =>
        \A o \in Occurrences :
          \/ o[2] > s.iter
          \/ o[2] = s.iter /\ s.at \in BeforeActivation
          \/ s.at = "off"
          => Untouched(j, r, o)

RunsSinceTrigger(j, r) ==
  LET s == ses[j][r]
  IN  Sound(s) =>
        \A o \in s.active : Bounded(o) =>
          /\ o[2] <= s.iter /\ s.iter <= o[2] + Incident(o).iterations - 1
          /\ o \in on[j][r] /\ held[j][r][o] = s.iter - o[2]

CompletedIsOff(j, r) ==
  \A o \in Occurrences :
    record[j][r][o] = "completed" /\ Bounded(o) /\ ~MayBeInline(o) =>
      o \notin on[j][r] /\ held[j][r][o] = Incident(o).iterations

Owned(j, r) ==
  LET s == ses[j][r]
  IN  /\ on[j][r] \subseteq s.active \cup s.stuck
      /\ s.at \in Gone => s.active = {}

Effects(j, r) ==
  /\ NoTraceAhead(j, r)
  /\ RunsSinceTrigger(j, r)
  /\ CompletedIsOff(j, r)
  /\ Owned(j, r)

-----------------------------------------------------------------------------
(* The campaign and what probability has chosen of it stay the same, and   *)
(* so does all that is defined by them.                                    *)
LEMMA SameCampaign ==
  ASSUME UNCHANGED fixed
  PROVE  /\ Jobs' = Jobs /\ Iters' = Iters /\ Occurrences' = Occurrences
         /\ Journals' = Journals
         /\ \A o : Incident(o)' = Incident(o)
         /\ \A w, n : Candidates(w, n)' = Candidates(w, n)
         /\ \A w, n : Selected(w, n)' = Selected(w, n)
         /\ \A w, S : Claimed(w, S)' = Claimed(w, S)
<1> USE DEF fixed
<1>1. /\ Jobs' = Jobs /\ Iters' = Iters /\ Occurrences' = Occurrences
      /\ \A o : Incident(o)' = Incident(o)
  BY DEF Jobs, MaxJobs, Iters, MaxIter, Occurrences, campaign, Incident
<1>2. Journals' = Journals
  BY <1>1 DEF Journals
<1>3. \A w, n : Candidates(w, n)' = Candidates(w, n)
  BY <1>1 DEF Candidates
<1>4. \A w, n : Selected(w, n)' = Selected(w, n)
  BY <1>3 DEF Selected
<1>5. \A w, S : Claimed(w, S)' = Claimed(w, S)
  BY <1>1 DEF Claimed
<1> QED
  BY <1>1, <1>2, <1>3, <1>4, <1>5

LEMMA SameMeaning ==
  ASSUME UNCHANGED fixed
  PROVE  /\ Kept' = Kept /\ Session' = Session
         /\ \A s : Books(s)' <=> Books(s)
         /\ \A s, round, w, b, n : OnTheWay(s, round, w, b, n)' <=> OnTheWay(s, round, w, b, n)
         /\ \A o : Bounded(o)' <=> Bounded(o)
         /\ \A o : MayBeInline(o)' <=> MayBeInline(o)
<1> USE SameCampaign
<1>1. Kept' = Kept
  BY DEF Kept, WithinLimit
<1>2. Session' = Session
  BY <1>1 DEF Session
<1>3. \A s : Books(s)' <=> Books(s)
  BY DEF Books
<1>4. \A o : /\ Bounded(o)' <=> Bounded(o)
             /\ MayBeInline(o)' <=> MayBeInline(o)
  BY DEF Bounded, MayBeInline
<1>5. \A w, n, r : RequiresBoundaryConsensus(w, n, r)' <=> RequiresBoundaryConsensus(w, n, r)
  BY <1>4 DEF RequiresBoundaryConsensus, HistoryFaults, Expirations, fixed
<1>6. \A w, n : BoundaryIsDue(w, n)' <=> BoundaryIsDue(w, n)
  BY <1>5 DEF BoundaryIsDue
<1>7. \A s : RequiresActivationConsensus(s)' <=> RequiresActivationConsensus(s)
  BY DEF RequiresActivationConsensus
<1>8. \A s, w, n : ToPrepare(s, w, n)' <=> ToPrepare(s, w, n)
  BY <1>6, <1>7 DEF ToPrepare
<1>9. \A s, w, b, n : ToArm(s, w, b, n)' <=> ToArm(s, w, b, n)
  BY <1>7 DEF ToArm
<1>10. \A s, w, n : /\ ToBinding(s, w, n)' <=> ToBinding(s, w, n)
                    /\ ToPreflight(s, w, n)' <=> ToPreflight(s, w, n)
                    /\ ToPersist(s, w, n)' <=> ToPersist(s, w, n)
  BY DEF ToBinding, ToPreflight, ToPersist
<1>11. \A s, round, w, b, n : OnTheWay(s, round, w, b, n)' <=> OnTheWay(s, round, w, b, n)
  BY <1>8, <1>9, <1>10 DEF OnTheWay, ToEnable, ToRestored
<1> QED
  BY <1>1, <1>2, <1>3, <1>4, <1>11

-----------------------------------------------------------------------------
(* A step of rank r in job j leaves the other sessions alone.              *)
Moves(j, r) ==
  /\ UNCHANGED fixed
  /\ \A k \in Jobs, q \in Ranks : k # j \/ q # r =>
       /\ ses'[k][q] = ses[k][q] /\ on'[k][q] = on[k][q]
       /\ held'[k][q] = held[k][q] /\ record'[k][q] = record[k][q]

(* A step that leaves iteration and journal of a session alone.            *)
KeepsBooks(s, t) == t.iter = s.iter /\ t.journal = s.journal /\ t.before = s.before

(* A step in which effects of a session end, or none does: what has been   *)
(* completed is off, and if it was bounded it has lasted.                  *)
Ends(j, r) ==
  LET s == ses[j][r]
      t == ses'[j][r]
  IN  /\ t.active \subseteq s.active /\ on'[j][r] \subseteq on[j][r]
      /\ (s.active \cup s.stuck) \cap on'[j][r] \subseteq t.active \cup t.stuck
      /\ \A o \in t.active : Bounded(o) /\ o \in on[j][r] => o \in on'[j][r]
      /\ \A o \in Occurrences :
           /\ o \notin on[j][r] => held'[j][r][o] = held[j][r][o]
           /\ o \notin s.active /\ record[j][r][o] = "none" => record'[j][r][o] = "none"
           /\ record'[j][r][o] = "completed" =>
                \/ record[j][r][o] = "completed"
                \/ /\ o \in s.active /\ o \notin on'[j][r]
                   /\ Bounded(o) => held'[j][r][o] = Incident(o).iterations

(* A step in which effects A begin, which are due now, or K that are       *)
(* rolled back at once but cannot be undone.                               *)
Begins(j, r) ==
  LET s == ses[j][r]
      t == ses'[j][r]
  IN  /\ \E A, K \in SUBSET {o \in Occurrences : o[2] = s.iter} :
           /\ t.active = s.active \cup A /\ t.stuck = s.stuck \cup K
           /\ on'[j][r] = on[j][r] \cup A \cup K
           /\ \A o \in A \cup K : record'[j][r][o] # "completed"
      /\ \A o \in Occurrences :
           /\ record'[j][r][o] = "completed" => MayBeInline(o) \/ record[j][r][o] = "completed"
           /\ o[2] # s.iter => record'[j][r][o] = record[j][r][o]

(* Rank r applies some of its part of the selected occurrences.            *)
Applies(j, r) ==
  /\ \A q \in Ranks : q # r => fired'[q] = fired[q]
  /\ \A o \in Occurrences :
       fired'[r][o] = fired[r][o] \/ (o \in Mine(j, r) /\ fired'[r][o] = fired[r][o] + 1)

LEMMA GoesTo ==
  ASSUME CampaignTypes, NEW j \in Jobs, NEW r \in Ranks, NEW t \in Session,
         Goes(j, r, t), UNCHANGED fixed
  PROVE  /\ ses' \in [Jobs' -> [Ranks -> Session']]
         /\ ses'[j][r] = t
         /\ \A k \in Jobs, q \in Ranks : k # j \/ q # r => ses'[k][q] = ses[k][q]
<1>1. ses' = [ses EXCEPT ![j] = [ses[j] EXCEPT ![r] = t]]
  BY DEF Goes, CampaignTypes
<1>2. ses' \in [Jobs -> [Ranks -> Session]]
  BY <1>1 DEF CampaignTypes
<1> QED
  BY <1>1, <1>2, SameCampaign, SameMeaning DEF CampaignTypes

(* The journal of a rank, and what the effects of its job are, stays the   *)
(* same where a step does not touch it.                                    *)
LEMMA StaysTyped ==
  ASSUME CampaignTypes, UNCHANGED fixed
  PROVE  /\ scope' \in Scopes
         /\ store' = store => store' \in [Ranks -> Kept']
         /\ on' = on => on' \in [Jobs' -> [Ranks -> SUBSET Occurrences']]
         /\ held' = held => held' \in [Jobs' -> [Ranks -> [Occurrences' -> Nat]]]
         /\ record' = record => record' \in [Jobs' -> [Ranks -> [Occurrences' -> Statuses]]]
         /\ fired' = fired => fired' \in [Ranks -> [Occurrences' -> Nat]]
BY SameCampaign, SameMeaning DEF CampaignTypes, fixed

LEMMA EnterIterationStep ==
  ASSUME CampaignTypes, NEW j \in Jobs, NEW r \in Ranks, NEW ok \in BOOLEAN,
         EnterIteration(j, r, ok)
  PROVE  LET s == ses[j][r]  t == ses'[j][r]
         IN  /\ CampaignTypes' /\ Moves(j, r) /\ UNCHANGED <<store, effects>>
             /\ s.at = "enter"
             /\ t.at = IF Candidates(s.journal, s.iter) = {} THEN "train" ELSE "preflight"
             /\ KeepsBooks(s, t) /\ t.active = s.active /\ t.stuck = s.stuck
<1> DEFINE s == ses[j][r]
           p == IF Candidates(s.journal, s.iter) = {} THEN "train" ELSE "preflight"
           t == [s EXCEPT !.at = p, !.err = ~ok]
<1>1. s \in Session /\ p \in Places /\ (~ok) \in BOOLEAN
  BY DEF CampaignTypes, Places, Consensus
<1>2. Goes(j, r, t) /\ s.at = "enter" /\ UNCHANGED <<store, effects>> /\ UNCHANGED fixed
  BY DEF EnterIteration
<1>3. t \in Session /\ t.at = p /\ KeepsBooks(s, t) /\ t.active = s.active /\ t.stuck = s.stuck
  BY <1>1 DEF Session, KeepsBooks
<1>4. /\ ses' \in [Jobs' -> [Ranks -> Session']]
      /\ ses'[j][r] = t
      /\ \A k \in Jobs, q \in Ranks : k # j \/ q # r => ses'[k][q] = ses[k][q]
  BY <1>2, <1>3, GoesTo
<1>5. CampaignTypes'
  BY <1>2, <1>4, StaysTyped DEF CampaignTypes, effects
<1>6. Moves(j, r)
  BY <1>2, <1>4 DEF Moves, effects
<1> QED
  BY <1>2, <1>3, <1>4, <1>5, <1>6

(* A claim stays within the limit, and a journal that is restored does.    *)
LEMMA ClaimedIsKept ==
  ASSUME CampaignTypes, NEW w \in Kept, NEW n
  PROVE  /\ Claimed(w, Selected(w, n)) \in Kept
         /\ Selected(w, n) \subseteq Occurrences
         /\ \A o \in Occurrences :
              Claimed(w, Selected(w, n)).attempts[o] =
                IF o \in Selected(w, n) THEN w.attempts[o] + 1 ELSE w.attempts[o]
<1> DEFINE S == Selected(w, n)
           c == Claimed(w, S)
<1>1. w \in Journals /\ w.attempts \in [Occurrences -> Nat] /\ w.bound \in BOOLEAN
  BY DEF Kept, Journals
<1>2. c.attempts = [o \in Occurrences |-> IF o \in S THEN w.attempts[o] + 1 ELSE w.attempts[o]]
  BY <1>1 DEF Claimed, Journals
<1>3. c \in Journals
  BY <1>1 DEF Claimed, Journals
<1>4. \A o \in Occurrences : Incident(o).limit \in Nat
  BY CampaignAssumption DEF CampaignTypes, Occurrences, Incident, campaign
<1>5. WithinLimit(c)
  <2> SUFFICES ASSUME NEW o \in Occurrences, Incident(o).limit > 0
               PROVE  c.attempts[o] <= Incident(o).limit
    BY DEF WithinLimit
  <2>1. w.attempts[o] \in Nat /\ w.attempts[o] <= Incident(o).limit
    BY <1>1 DEF Kept, WithinLimit
  <2>2. o \in S => w.attempts[o] < Incident(o).limit
    BY DEF Selected, Candidates
  <2> QED
    BY <1>2, <1>4, <2>1, <2>2
<1>6. S \subseteq Occurrences
  BY DEF Selected, Candidates
<1> QED
  BY <1>2, <1>3, <1>5, <1>6 DEF Kept

LEMMA PrepareStep ==
  ASSUME CampaignTypes, NEW j \in Jobs, NEW r \in Ranks, NEW n \in Iters, NEW ok \in BOOLEAN,
         Prepare(j, r, n, ok)
  PROVE  LET s == ses[j][r]  t == ses'[j][r]
         IN  /\ CampaignTypes' /\ Moves(j, r) /\ UNCHANGED <<store, effects>>
             /\ s.at = "off" /\ t.at = "enable" /\ t.iter = n /\ n \in Nat
             /\ t.journal = [t.before EXCEPT !.bound = TRUE]
             /\ t.active = {} /\ t.stuck = {}
<1> DEFINE s == ses[j][r]
           t == [NoSession EXCEPT !.at = "enable", !.iter = n, !.before = store[r],
                                  !.journal = [store[r] EXCEPT !.bound = TRUE], !.err = ~ok]
<1>1. n \in Nat /\ (~ok) \in BOOLEAN /\ "enable" \in Places
  BY CampaignAssumption DEF CampaignTypes, Iters, MaxIter, Places, Consensus
<1>2. store[r] \in Kept /\ [store[r] EXCEPT !.bound = TRUE] \in Kept
  <2>1. store[r] \in Kept
    BY DEF CampaignTypes
  <2>2. /\ [store[r] EXCEPT !.bound = TRUE] \in Journals
        /\ [store[r] EXCEPT !.bound = TRUE].attempts = store[r].attempts
    BY <2>1 DEF Kept, Journals
  <2> QED
    BY <2>1, <2>2 DEF Kept, WithinLimit
<1>3. Goes(j, r, t) /\ s.at = "off" /\ UNCHANGED <<store, effects>> /\ UNCHANGED fixed
  BY DEF Prepare
<1>4. t \in Session /\ t.at = "enable" /\ t.iter = n /\ t.before = store[r]
        /\ t.journal = [store[r] EXCEPT !.bound = TRUE] /\ t.active = {} /\ t.stuck = {}
  BY <1>1, <1>2 DEF Session, NoSession
<1>5. /\ ses' \in [Jobs' -> [Ranks -> Session']]
      /\ ses'[j][r] = t
      /\ \A k \in Jobs, q \in Ranks : k # j \/ q # r => ses'[k][q] = ses[k][q]
  BY <1>3, <1>4, GoesTo
<1>6. CampaignTypes'
  BY <1>3, <1>5, StaysTyped DEF CampaignTypes, effects
<1>7. Moves(j, r)
  BY <1>3, <1>5 DEF Moves, effects
<1> QED
  BY <1>1, <1>3, <1>4, <1>5, <1>6, <1>7

LEMMA CommitStep ==
  ASSUME CampaignTypes, NEW j \in Jobs, NEW r \in Ranks, NEW outcome \in SwapOutcomes,
         CommitJournalBinding(j, r, outcome), Books(ses[j][r])
  PROVE  LET s == ses[j][r]  t == ses'[j][r]
         IN  /\ CampaignTypes' /\ Moves(j, r) /\ UNCHANGED effects
             /\ s.at = "bind" /\ t.at = "binding"
             /\ KeepsBooks(s, t) /\ t.active = s.active /\ t.stuck = s.stuck
             /\ \A q \in Ranks : store'[q].attempts = store[q].attempts
<1> DEFINE s == ses[j][r]
           e == ~ \/ Swapped(r, s.before, outcome)
                  \/ outcome = "ok" /\ Matches(r, s.journal)
           t == [s EXCEPT !.at = "binding", !.err = e]
<1>1. s \in Session /\ "binding" \in Places /\ e \in BOOLEAN
  BY DEF CampaignTypes, Places, Consensus
<1>2. /\ Goes(j, r, t) /\ s.at = "bind" /\ UNCHANGED effects /\ UNCHANGED fixed
      /\ store' = IF Matches(r, s.before) /\ outcome # "unsaved"
                    THEN [store EXCEPT ![r] = s.journal] ELSE store
  BY DEF CommitJournalBinding, CompareAndSwap
<1> HIDE DEF e
<1>3. t \in Session /\ t.at = "binding" /\ KeepsBooks(s, t)
        /\ t.active = s.active /\ t.stuck = s.stuck
  BY <1>1 DEF Session, KeepsBooks
<1>4. /\ ses' \in [Jobs' -> [Ranks -> Session']]
      /\ ses'[j][r] = t
      /\ \A k \in Jobs, q \in Ranks : k # j \/ q # r => ses'[k][q] = ses[k][q]
  BY <1>2, <1>3, GoesTo
<1>5. s.journal \in Kept /\ s.before \in Kept /\ s.journal.attempts = s.before.attempts
  BY <1>1, <1>2 DEF Session, Books, Kept, Journals
<1>6. store' \in [Ranks -> Kept] /\ \A q \in Ranks : store'[q].attempts = store[q].attempts
  BY <1>2, <1>5 DEF CampaignTypes, Matches
<1>7. CampaignTypes'
  BY <1>2, <1>4, <1>6, StaysTyped, SameMeaning DEF CampaignTypes, effects
<1>8. Moves(j, r)
  BY <1>2, <1>4 DEF Moves, effects
<1> QED
  BY <1>2, <1>3, <1>4, <1>6, <1>7, <1>8

LEMMA StageStep ==
  ASSUME CampaignTypes, NEW j \in Jobs, NEW r \in Ranks, NEW outcome \in SwapOutcomes,
         Stage(j, r, outcome)
  PROVE  LET s == ses[j][r]  t == ses'[j][r]  S == Selected(s.journal, s.iter)
         IN  /\ CampaignTypes' /\ Moves(j, r) /\ UNCHANGED effects
             /\ s.at = "stage" /\ t.at = "persist" /\ t.iter = s.iter /\ t.before = s.journal
             /\ t.active = s.active /\ t.stuck = s.stuck
             /\ t.journal = IF t.err THEN s.journal ELSE Claimed(s.journal, S)
             /\ \A q \in Ranks : q # r => store'[q] = store[q]
             /\ \A o \in Occurrences :
                  store'[r].attempts[o] >=
                    store[r].attempts[o] + (IF ~t.err /\ o \in S THEN 1 ELSE 0)
<1> DEFINE s == ses[j][r]
           S == Selected(s.journal, s.iter)
           c == Claimed(s.journal, S)
<1>1. s \in Session /\ s.journal \in Kept /\ "persist" \in Places /\ s.at = "stage"
      /\ UNCHANGED effects /\ UNCHANGED fixed
  BY DEF CampaignTypes, Places, Consensus, Session, Stage
<1>2. /\ c \in Kept
      /\ \A o \in Occurrences :
           c.attempts[o] = IF o \in S THEN s.journal.attempts[o] + 1 ELSE s.journal.attempts[o]
  BY <1>1, ClaimedIsKept
<1>3. store[r] \in Kept /\ \A w \in Kept, o \in Occurrences : w.attempts[o] \in Nat
  BY DEF CampaignTypes, Kept, Journals
<1>4. \E t \in Session :
        /\ Goes(j, r, t) /\ t.at = "persist" /\ t.iter = s.iter
        /\ t.before = s.journal /\ t.active = s.active /\ t.stuck = s.stuck
        /\ t.journal = (IF t.err THEN s.journal ELSE c)
        /\ \/ store' = store /\ (t.err \/ S = {})
           \/ store[r] = s.journal /\ store' = [store EXCEPT ![r] = c]
  <2>1. CASE S = {} /\ outcome = "ok" /\ UNCHANGED store
             /\ Goes(j, r, [s EXCEPT !.at = "persist", !.before = s.journal, !.err = FALSE])
    <3> DEFINE t == [s EXCEPT !.at = "persist", !.before = s.journal, !.err = FALSE]
    <3>1. t \in Session /\ t.at = "persist" /\ t.iter = s.iter /\ t.before = s.journal
            /\ t.active = s.active /\ t.stuck = s.stuck /\ t.err = FALSE /\ t.journal = s.journal
      BY <1>1 DEF Session
    <3>2. c = s.journal
      <4>1. s.journal \in [bound : BOOLEAN, attempts : [Occurrences -> Nat]]
        BY <1>1 DEF Kept, Journals
      <4>2. s.journal.attempts = [o \in Occurrences |->
                IF o \in S THEN s.journal.attempts[o] + 1 ELSE s.journal.attempts[o]]
        BY <2>1, <4>1
      <4> QED
        BY <4>1, <4>2 DEF Claimed
    <3> QED
      BY <2>1, <3>1, <3>2
  <2>2. CASE /\ CompareAndSwap(r, s.journal, c, outcome)
             /\ Goes(j, r, [s EXCEPT !.at = "persist", !.before = s.journal,
                                     !.err = ~Swapped(r, s.journal, outcome),
                                     !.journal = IF Swapped(r, s.journal, outcome) THEN c ELSE @])
    <3> DEFINE b == Swapped(r, s.journal, outcome)
               u == IF b THEN c ELSE s.journal
               t == [s EXCEPT !.at = "persist", !.before = s.journal, !.err = ~b, !.journal = u]
    <3>1. (~b) \in BOOLEAN /\ u \in Kept
      BY <1>1, <1>2
    <3>2. Goes(j, r, t)
      BY <2>2, <1>1 DEF Session
    <3>3. store' = IF store[r] = s.journal /\ outcome # "unsaved"
                     THEN [store EXCEPT ![r] = c] ELSE store
      BY <2>2 DEF CompareAndSwap, Matches
    <3>4. b => store[r] = s.journal /\ outcome = "ok"
      BY DEF Swapped, Matches
    <3> HIDE DEF b
    <3>5. t \in Session /\ t.at = "persist" /\ t.iter = s.iter /\ t.before = s.journal
            /\ t.active = s.active /\ t.stuck = s.stuck /\ t.err = (~b) /\ t.journal = u
      BY <1>1, <3>1 DEF Session
    <3> QED
      BY <3>2, <3>3, <3>4, <3>5
  <2> QED
    BY <2>1, <2>2 DEF Stage
<1>5. PICK t \in Session :
        /\ Goes(j, r, t) /\ t.at = "persist" /\ t.iter = s.iter
        /\ t.before = s.journal /\ t.active = s.active /\ t.stuck = s.stuck
        /\ t.journal = (IF t.err THEN s.journal ELSE c)
        /\ \/ store' = store /\ (t.err \/ S = {})
           \/ store[r] = s.journal /\ store' = [store EXCEPT ![r] = c]
  BY <1>4
<1>6. /\ ses' \in [Jobs' -> [Ranks -> Session']]
      /\ ses'[j][r] = t
      /\ \A k \in Jobs, q \in Ranks : k # j \/ q # r => ses'[k][q] = ses[k][q]
  BY <1>1, <1>5, GoesTo
<1>7. /\ store' \in [Ranks -> Kept]
      /\ \A q \in Ranks : q # r => store'[q] = store[q]
  BY <1>2, <1>5 DEF CampaignTypes
<1>8. \A o \in Occurrences :
        store'[r].attempts[o] >= store[r].attempts[o] + (IF ~t.err /\ o \in S THEN 1 ELSE 0)
  <2>1. CASE store' = store /\ (t.err \/ S = {})
    BY <2>1, <1>3
  <2>2. CASE store[r] = s.journal /\ store' = [store EXCEPT ![r] = c]
    <3>1. store'[r] = c
      BY <2>2 DEF CampaignTypes
    <3> QED
      BY <2>2, <3>1, <1>1, <1>2, <1>3
  <2> QED
    BY <1>5, <2>1, <2>2
<1>9. CampaignTypes'
  BY <1>1, <1>6, <1>7, StaysTyped, SameMeaning DEF CampaignTypes, effects
<1>10. Moves(j, r)
  BY <1>1, <1>6 DEF Moves, effects
<1> QED
  BY <1>1, <1>5, <1>6, <1>7, <1>8, <1>9, <1>10

LEMMA RestoreStep ==
  ASSUME CampaignTypes, NEW j \in Jobs, NEW r \in Ranks, NEW outcome \in SwapOutcomes,
         Restore(j, r, outcome)
  PROVE  LET s == ses[j][r]  t == ses'[j][r]
         IN  /\ CampaignTypes' /\ Moves(j, r) /\ UNCHANGED effects
             /\ s.at = "restore" /\ t.at = "restored" /\ t.iter = s.iter
             /\ t.active = s.active /\ t.stuck = s.stuck
             /\ \A q \in Ranks : q # r => store'[q] = store[q]
             /\ \/ store'[r] = store[r]
                \/ store[r] = s.journal /\ store'[r] = s.before
<1> DEFINE s == ses[j][r]
           b == Swapped(r, s.journal, outcome)
           u == IF b THEN s.before ELSE s.journal
           t == [s EXCEPT !.at = "restored", !.err = ~b, !.journal = u]
<1>1. /\ s \in Session /\ s.journal \in Kept /\ s.before \in Kept /\ "restored" \in Places
      /\ s.at = "restore" /\ UNCHANGED effects /\ UNCHANGED fixed
  BY DEF CampaignTypes, Places, Consensus, Session, Restore
<1>2. (~b) \in BOOLEAN /\ u \in Kept
  BY <1>1
<1>3. Goes(j, r, t)
  BY <1>1 DEF Session, Restore
<1>4. store' = IF store[r] = s.journal /\ outcome # "unsaved"
                 THEN [store EXCEPT ![r] = s.before] ELSE store
  BY DEF Restore, CompareAndSwap, Matches
<1> HIDE DEF b
<1>5. t \in Session /\ t.at = "restored" /\ t.iter = s.iter /\ t.active = s.active /\ t.stuck = s.stuck
  BY <1>1, <1>2 DEF Session
<1>6. /\ ses' \in [Jobs' -> [Ranks -> Session']]
      /\ ses'[j][r] = t
      /\ \A k \in Jobs, q \in Ranks : k # j \/ q # r => ses'[k][q] = ses[k][q]
  BY <1>1, <1>3, <1>5, GoesTo
<1>7. /\ store' \in [Ranks -> Kept]
      /\ \A q \in Ranks : q # r => store'[q] = store[q]
      /\ \/ store'[r] = store[r]
         \/ store[r] = s.journal /\ store'[r] = s.before
  BY <1>1, <1>4 DEF CampaignTypes
<1>8. CampaignTypes'
  BY <1>1, <1>6, <1>7, StaysTyped, SameMeaning DEF CampaignTypes, effects
<1>9. Moves(j, r)
  BY <1>1, <1>6 DEF Moves, effects
<1> QED
  BY <1>1, <1>5, <1>6, <1>7, <1>8, <1>9

-----------------------------------------------------------------------------
(* What Completes does to the effects S of a session.                      *)
Undoes(j, r, S, stuck, cut) ==
  /\ on' \in [Jobs' -> [Ranks -> SUBSET Occurrences']]
  /\ record' \in [Jobs' -> [Ranks -> [Occurrences' -> Statuses]]]
  /\ UNCHANGED fixed /\ UNCHANGED <<store, fired>>
  /\ on'[j][r] = on[j][r] \ (S \ stuck)
  /\ \A o \in Occurrences :
       /\ o \notin S /\ o \notin stuck => record'[j][r][o] = record[j][r][o]
       /\ record'[j][r][o] = "completed" =>
            \/ record[j][r][o] = "completed" /\ o \notin S /\ o \notin stuck
            \/ o \in S \ stuck /\ o \notin cut
  /\ \A k \in Jobs, q \in Ranks : k # j \/ q # r =>
       on'[k][q] = on[k][q] /\ record'[k][q] = record[k][q]

LEMMA CompletesStep ==
  ASSUME CampaignTypes, NEW j \in Jobs, NEW r \in Ranks, NEW S \in SUBSET Occurrences,
         NEW stuck, NEW cut, Completes(j, r, S, stuck, cut)
  PROVE  Undoes(j, r, S, stuck, cut)
<1> DEFINE R == record[j][r]
           R2 == [o \in Occurrences |->
                    CASE o \in stuck -> "failed"
                      [] o \in S \ stuck -> IF R[o] = "active" /\ o \notin cut
                                              THEN "completed" ELSE "cancelled"
                      [] OTHER -> R[o]]
<1>1. /\ on' = [on EXCEPT ![j] = [on[j] EXCEPT ![r] = on[j][r] \ (S \ stuck)]]
      /\ UNCHANGED fixed /\ UNCHANGED <<store, fired>>
  BY DEF Completes, CampaignTypes
<1>2. record' = [record EXCEPT ![j] = [record[j] EXCEPT ![r] = R2]]
  BY DEF Completes, CampaignTypes
<1>3. R \in [Occurrences -> Statuses] /\ on[j][r] \in SUBSET Occurrences
  BY DEF CampaignTypes
<1>4. R2 \in [Occurrences -> Statuses]
  BY <1>3 DEF Statuses
<1>5. /\ on' \in [Jobs -> [Ranks -> SUBSET Occurrences]]
      /\ on'[j][r] = on[j][r] \ (S \ stuck)
      /\ \A k \in Jobs, q \in Ranks : k # j \/ q # r => on'[k][q] = on[k][q]
  BY <1>1, <1>3 DEF CampaignTypes
<1> HIDE DEF R2
<1>6. /\ record' \in [Jobs -> [Ranks -> [Occurrences -> Statuses]]]
      /\ record'[j][r] = R2
      /\ \A k \in Jobs, q \in Ranks : k # j \/ q # r => record'[k][q] = record[k][q]
  BY <1>2, <1>4 DEF CampaignTypes
<1>7. \A o \in Occurrences :
        /\ o \notin S /\ o \notin stuck => R2[o] = R[o]
        /\ R2[o] = "completed" =>
             \/ R[o] = "completed" /\ o \notin S /\ o \notin stuck
             \/ o \in S \ stuck /\ o \notin cut
  BY <1>3 DEF R2
<1> QED
  BY <1>1, <1>5, <1>6, <1>7, SameCampaign DEF Undoes

(* A lifetime that ends at a boundary or with a call is not bounded.       *)
LEMMA LifetimeIsOne ==
  ASSUME CampaignTypes, NEW o \in Occurrences
  PROVE  /\ o[2] \in Nat /\ Incident(o).iterations \in Nat /\ Incident(o).limit \in Nat
         /\ Bounded(o) => Incident(o).until = "none"
<1>1. PICK i \in DOMAIN campaign : o \in {i} \X campaign[i].at
  BY DEF Occurrences
<1>2. Incident(o) = campaign[i] /\ o[2] \in campaign[i].at
  BY <1>1 DEF Incident
<1> QED
  BY <1>1, <1>2, CampaignAssumption DEF CampaignTypes, campaign, Bounded

LEMMA CleanupStep ==
  ASSUME CampaignTypes, NEW j \in Jobs, NEW r \in Ranks, NEW stuck, Cleanup(j, r, stuck)
  PROVE  LET s == ses[j][r]  t == ses'[j][r]
         IN  /\ CampaignTypes' /\ Moves(j, r) /\ Ends(j, r) /\ UNCHANGED <<store, held, fired>>
             /\ s.at = "cleanup" /\ t.at = "raised" /\ t.active = {}
<1> DEFINE s == ses[j][r]
           t == [Without(s, s.active, stuck) EXCEPT !.at = "raised"]
<1>1. /\ s \in Session /\ s.active \in SUBSET Occurrences /\ stuck \subseteq s.active
      /\ Completes(j, r, s.active, stuck, s.active)
      /\ Goes(j, r, t) /\ s.at = "cleanup" /\ UNCHANGED held
  BY DEF Cleanup, CampaignTypes, Session
<1>2. t \in Session /\ t.at = "raised" /\ t.active = {} /\ t.stuck = s.stuck \cup stuck
  BY <1>1 DEF Session, Without, Places, Gone
<1>3. Undoes(j, r, s.active, stuck, s.active)
  BY <1>1, CompletesStep
<1>4. /\ ses' \in [Jobs' -> [Ranks -> Session']]
      /\ ses'[j][r] = t
      /\ \A k \in Jobs, q \in Ranks : k # j \/ q # r => ses'[k][q] = ses[k][q]
  BY <1>1, <1>2, <1>3, GoesTo DEF Undoes
<1>5. CampaignTypes'
  BY <1>1, <1>3, <1>4, StaysTyped DEF CampaignTypes, Undoes
<1>6. Moves(j, r)
  BY <1>1, <1>3, <1>4 DEF Moves, Undoes
<1>7. Ends(j, r)
  BY <1>1, <1>2, <1>3, <1>4 DEF Ends, Undoes
<1> QED
  BY <1>1, <1>2, <1>3, <1>4, <1>5, <1>6, <1>7 DEF Undoes

LEMMA CloseStep ==
  ASSUME CampaignTypes, NEW j \in Jobs, NEW r \in Ranks, NEW stuck, Close(j, r, stuck)
  PROVE  LET s == ses[j][r]  t == ses'[j][r]
         IN  /\ CampaignTypes' /\ Moves(j, r) /\ Ends(j, r) /\ UNCHANGED <<store, held, fired>>
             /\ s.at = "train" /\ t.at = "closed" /\ t.active = {}
<1> DEFINE s == ses[j][r]
           cut == {o \in s.active : Incident(o).until # "campaign_end"}
           t == [Without(s, s.active, stuck) EXCEPT !.at = "closed"]
<1>1. /\ s \in Session /\ s.active \in SUBSET Occurrences /\ stuck \subseteq s.active
      /\ Completes(j, r, s.active, stuck, cut)
      /\ Goes(j, r, t) /\ s.at = "train" /\ UNCHANGED held
  BY DEF Close, CampaignTypes, Session
<1>2. t \in Session /\ t.at = "closed" /\ t.active = {} /\ t.stuck = s.stuck \cup stuck
  BY <1>1 DEF Session, Without, Places, Gone
<1>3. \A o \in s.active : o \notin cut => ~Bounded(o)
  BY <1>1, LifetimeIsOne
<1> HIDE DEF cut
<1>4. Undoes(j, r, s.active, stuck, cut)
  BY <1>1, CompletesStep
<1>5. /\ ses' \in [Jobs' -> [Ranks -> Session']]
      /\ ses'[j][r] = t
      /\ \A k \in Jobs, q \in Ranks : k # j \/ q # r => ses'[k][q] = ses[k][q]
  BY <1>1, <1>2, <1>4, GoesTo DEF Undoes
<1>6. CampaignTypes'
  BY <1>1, <1>4, <1>5, StaysTyped DEF CampaignTypes, Undoes
<1>7. Moves(j, r)
  BY <1>1, <1>4, <1>5 DEF Moves, Undoes
<1>8. Ends(j, r)
  BY <1>1, <1>2, <1>3, <1>4, <1>5 DEF Ends, Undoes
<1> QED
  BY <1>1, <1>2, <1>4, <1>5, <1>6, <1>7, <1>8 DEF Undoes

LEMMA NotifyStep ==
  ASSUME CampaignTypes, NEW j \in Jobs, NEW r \in Ranks,
         NEW boundary \in {"recovery", "replacement"}, NEW stuck,
         Notify(j, r, boundary, stuck)
  PROVE  LET s == ses[j][r]  t == ses'[j][r]
         IN  /\ CampaignTypes' /\ Moves(j, r) /\ Ends(j, r) /\ UNCHANGED <<store, held, fired>>
             /\ s.at = "train" /\ t.at = "train" /\ KeepsBooks(s, t)
<1> DEFINE s == ses[j][r]
           ending == {o \in s.active : Incident(o).until = boundary}
           t == Without(s, ending, stuck)
<1>1. /\ s \in Session /\ s.active \in SUBSET Occurrences /\ stuck \subseteq ending
      /\ ending \in SUBSET Occurrences /\ ending \subseteq s.active
      /\ Completes(j, r, ending, stuck, {})
      /\ Goes(j, r, t) /\ s.at = "train" /\ UNCHANGED held
  BY DEF Notify, CampaignTypes, Session
<1>2. \A o \in ending : ~Bounded(o)
  BY <1>1, LifetimeIsOne
<1> HIDE DEF ending
<1>3. /\ t \in Session /\ t.at = "train" /\ KeepsBooks(s, t)
      /\ t.active = s.active \ ending /\ t.stuck = s.stuck \cup stuck
  BY <1>1 DEF Session, Without, KeepsBooks
<1>4. Undoes(j, r, ending, stuck, {})
  BY <1>1, CompletesStep
<1>5. /\ ses' \in [Jobs' -> [Ranks -> Session']]
      /\ ses'[j][r] = t
      /\ \A k \in Jobs, q \in Ranks : k # j \/ q # r => ses'[k][q] = ses[k][q]
  BY <1>1, <1>3, <1>4, GoesTo DEF Undoes
<1>6. CampaignTypes'
  BY <1>1, <1>4, <1>5, StaysTyped DEF CampaignTypes, Undoes
<1>7. Moves(j, r)
  BY <1>1, <1>4, <1>5 DEF Moves, Undoes
<1>8. Ends(j, r)
  BY <1>1, <1>2, <1>3, <1>4, <1>5 DEF Ends, Undoes
<1> QED
  BY <1>1, <1>3, <1>4, <1>5, <1>6, <1>7, <1>8 DEF Undoes

(* Setting the records of some occurrences, or the effects of a session.   *)
LEMMA MarksStep ==
  ASSUME CampaignTypes, NEW j \in Jobs, NEW r \in Ranks, NEW S, NEW status \in Statuses,
         Marks(j, r, S, status), UNCHANGED fixed
  PROVE  /\ record' \in [Jobs' -> [Ranks -> [Occurrences' -> Statuses]]]
         /\ \A o \in Occurrences :
              record'[j][r][o] = IF o \in S THEN status ELSE record[j][r][o]
         /\ \A k \in Jobs, q \in Ranks : k # j \/ q # r => record'[k][q] = record[k][q]
<1> DEFINE R == [o \in Occurrences |-> IF o \in S THEN status ELSE record[j][r][o]]
<1>1. record' = [record EXCEPT ![j] = [record[j] EXCEPT ![r] = R]]
  BY DEF Marks, CampaignTypes
<1>2. R \in [Occurrences -> Statuses]
  BY DEF CampaignTypes
<1>3. \A o \in Occurrences : R[o] = IF o \in S THEN status ELSE record[j][r][o]
  OBVIOUS
<1> HIDE DEF R
<1>4. /\ record' \in [Jobs -> [Ranks -> [Occurrences -> Statuses]]]
      /\ record'[j][r] = R
      /\ \A k \in Jobs, q \in Ranks : k # j \/ q # r => record'[k][q] = record[k][q]
  BY <1>1, <1>2 DEF CampaignTypes
<1> QED
  BY <1>3, <1>4, SameCampaign

OnBecomes(j, r, S) == on' = [on EXCEPT ![j][r] = S]

LEMMA SetsEffects ==
  ASSUME CampaignTypes, NEW j \in Jobs, NEW r \in Ranks, NEW S \in SUBSET Occurrences,
         OnBecomes(j, r, S), UNCHANGED fixed
  PROVE  /\ on' \in [Jobs' -> [Ranks -> SUBSET Occurrences']]
         /\ on'[j][r] = S
         /\ \A k \in Jobs, q \in Ranks : k # j \/ q # r => on'[k][q] = on[k][q]
<1>1. on' = [on EXCEPT ![j] = [on[j] EXCEPT ![r] = S]]
  BY DEF CampaignTypes, OnBecomes
<1>2. /\ on' \in [Jobs -> [Ranks -> SUBSET Occurrences]]
      /\ on'[j][r] = S
      /\ \A k \in Jobs, q \in Ranks : k # j \/ q # r => on'[k][q] = on[k][q]
  BY <1>1 DEF CampaignTypes
<1> QED
  BY <1>2, SameCampaign

LEMMA RollbackStep ==
  ASSUME CampaignTypes, NEW j \in Jobs, NEW r \in Ranks, NEW stuck, Rollback(j, r, stuck)
  PROVE  LET s == ses[j][r]  t == ses'[j][r]
         IN  /\ CampaignTypes' /\ Moves(j, r) /\ Ends(j, r) /\ UNCHANGED <<store, held, fired>>
             /\ s.at = "rollback" /\ t.at = "cleanup"
<1> DEFINE s == ses[j][r]
           new == {o \in s.active : o[2] = s.iter}
           S == {o \in Mine(j, r) : record[j][r][o] # "none"}
           t == [s EXCEPT !.at = "cleanup", !.active = @ \ new, !.stuck = @ \cup stuck]
<1>1. /\ s \in Session /\ s.active \in SUBSET Occurrences /\ new \subseteq s.active
      /\ on[j][r] \in SUBSET Occurrences
      /\ stuck \subseteq new /\ s.at = "rollback" /\ Goes(j, r, t)
      /\ OnBecomes(j, r, on[j][r] \ (new \ stuck))
      /\ Marks(j, r, S, "failed") /\ UNCHANGED fixed /\ UNCHANGED <<store, held, fired>>
  BY DEF Rollback, CampaignTypes, Session, OnBecomes
<1>2. \A o \in S : record[j][r][o] # "none"
  OBVIOUS
<1> HIDE DEF new, S
<1>3. /\ t \in Session /\ t.at = "cleanup"
      /\ t.active = s.active \ new /\ t.stuck = s.stuck \cup stuck
  BY <1>1 DEF Session, Places
<1>4. /\ record' \in [Jobs' -> [Ranks -> [Occurrences' -> Statuses]]]
      /\ \A o \in Occurrences :
           record'[j][r][o] = IF o \in S THEN "failed" ELSE record[j][r][o]
      /\ \A k \in Jobs, q \in Ranks : k # j \/ q # r => record'[k][q] = record[k][q]
  BY <1>1, MarksStep DEF Statuses
<1>5. /\ on' \in [Jobs' -> [Ranks -> SUBSET Occurrences']]
      /\ on'[j][r] = on[j][r] \ (new \ stuck)
      /\ \A k \in Jobs, q \in Ranks : k # j \/ q # r => on'[k][q] = on[k][q]
  <2>1. on[j][r] \ (new \ stuck) \in SUBSET Occurrences
    BY <1>1
  <2> QED
    BY <1>1, <2>1, SetsEffects
<1>6. /\ ses' \in [Jobs' -> [Ranks -> Session']]
      /\ ses'[j][r] = t
      /\ \A k \in Jobs, q \in Ranks : k # j \/ q # r => ses'[k][q] = ses[k][q]
  BY <1>1, <1>3, GoesTo
<1>7. CampaignTypes'
  BY <1>1, <1>4, <1>5, <1>6, StaysTyped DEF CampaignTypes
<1>8. Moves(j, r)
  BY <1>1, <1>4, <1>5, <1>6 DEF Moves
<1>9. Ends(j, r)
  BY <1>1, <1>2, <1>3, <1>4, <1>5, <1>6 DEF Ends
<1> QED
  BY <1>1, <1>3, <1>6, <1>7, <1>8, <1>9

LEMMA StateReplacedStep ==
  ASSUME CampaignTypes, NEW j \in Jobs, NEW r \in Ranks, StateReplaced(j, r)
  PROVE  LET s == ses[j][r]  t == ses'[j][r]
         IN  /\ CampaignTypes' /\ Moves(j, r) /\ Ends(j, r) /\ UNCHANGED <<store, held, fired>>
             /\ s.at = "train" /\ t.at = "train" /\ KeepsBooks(s, t)
<1> DEFINE s == ses[j][r]
           lost == {o \in s.active : Incident(o).kind = "state"}
           short == {o \in lost : Bounded(o)}
           t == Without(s, short, {})
<1>1. /\ s \in Session /\ s.active \in SUBSET Occurrences
      /\ on[j][r] \in SUBSET Occurrences
      /\ s.at = "train" /\ Goes(j, r, t)
      /\ OnBecomes(j, r, on[j][r] \ lost)
      /\ Marks(j, r, short, "failed") /\ UNCHANGED fixed /\ UNCHANGED <<store, held, fired>>
  BY DEF StateReplaced, CampaignTypes, Session, OnBecomes
<1>2. lost \subseteq s.active /\ short \subseteq lost /\ \A o \in lost : Bounded(o) => o \in short
  OBVIOUS
<1> HIDE DEF lost, short
<1>3. /\ t \in Session /\ t.at = "train" /\ KeepsBooks(s, t)
      /\ t.active = s.active \ short /\ t.stuck = s.stuck
  BY <1>1 DEF Session, Without, KeepsBooks
<1>4. /\ record' \in [Jobs' -> [Ranks -> [Occurrences' -> Statuses]]]
      /\ \A o \in Occurrences :
           record'[j][r][o] = IF o \in short THEN "failed" ELSE record[j][r][o]
      /\ \A k \in Jobs, q \in Ranks : k # j \/ q # r => record'[k][q] = record[k][q]
  BY <1>1, MarksStep DEF Statuses
<1>5. /\ on' \in [Jobs' -> [Ranks -> SUBSET Occurrences']]
      /\ on'[j][r] = on[j][r] \ lost
      /\ \A k \in Jobs, q \in Ranks : k # j \/ q # r => on'[k][q] = on[k][q]
  <2>1. on[j][r] \ lost \in SUBSET Occurrences
    BY <1>1
  <2> QED
    BY <1>1, <2>1, SetsEffects
<1>6. /\ ses' \in [Jobs' -> [Ranks -> Session']]
      /\ ses'[j][r] = t
      /\ \A k \in Jobs, q \in Ranks : k # j \/ q # r => ses'[k][q] = ses[k][q]
  BY <1>1, <1>3, GoesTo
<1>7. CampaignTypes'
  BY <1>1, <1>4, <1>5, <1>6, StaysTyped DEF CampaignTypes
<1>8. Moves(j, r)
  BY <1>1, <1>4, <1>5, <1>6 DEF Moves
<1>9. Ends(j, r)
  BY <1>1, <1>2, <1>3, <1>4, <1>5, <1>6 DEF Ends
<1> QED
  BY <1>1, <1>3, <1>6, <1>7, <1>8, <1>9

(* A session that leaves for an error path, or dies.                       *)
LEMMA LeavesStep ==
  ASSUME CampaignTypes, NEW j \in Jobs, NEW r \in Ranks,
         CollectiveFails(j, r) \/ TrainingRaises(j, r)
  PROVE  LET s == ses[j][r]  t == ses'[j][r]
         IN  /\ CampaignTypes' /\ Moves(j, r) /\ Ends(j, r) /\ UNCHANGED <<store, held, fired>>
             /\ s.at \in Consensus \cup {"train"} /\ t.at = "cleanup"
<1> DEFINE s == ses[j][r]
           t == [s EXCEPT !.at = "cleanup"]
<1>1. /\ s \in Session /\ s.at \in Consensus \cup {"train"} /\ Goes(j, r, t)
      /\ UNCHANGED fixed /\ UNCHANGED <<store, effects>>
  BY DEF CollectiveFails, TrainingRaises, CampaignTypes
<1>2. t \in Session /\ t.at = "cleanup" /\ t.active = s.active /\ t.stuck = s.stuck
  BY <1>1 DEF Session, Places
<1>3. /\ ses' \in [Jobs' -> [Ranks -> Session']]
      /\ ses'[j][r] = t
      /\ \A k \in Jobs, q \in Ranks : k # j \/ q # r => ses'[k][q] = ses[k][q]
  BY <1>1, <1>2, GoesTo
<1>4. CampaignTypes'
  BY <1>1, <1>3, StaysTyped DEF CampaignTypes, effects
<1>5. Moves(j, r)
  BY <1>1, <1>3 DEF Moves, effects
<1>6. Ends(j, r)
  BY <1>1, <1>2, <1>3 DEF Ends, effects
<1> QED
  BY <1>1, <1>2, <1>3, <1>4, <1>5, <1>6 DEF effects

LEMMA CrashStep ==
  ASSUME CampaignTypes, NEW j \in Jobs, NEW r \in Ranks, Crash(j, r)
  PROVE  LET s == ses[j][r]  t == ses'[j][r]
         IN  /\ CampaignTypes' /\ Moves(j, r) /\ Ends(j, r) /\ UNCHANGED <<store, held, fired>>
             /\ s.at # "off" /\ t.at = "dead" /\ t.active = {}
<1> DEFINE s == ses[j][r]
           outlive == {o \in on[j][r] : Incident(o).kind = "external"}
           t == [s EXCEPT !.at = "dead", !.active = {}, !.stuck = @ \cup outlive]
<1>1. /\ s \in Session /\ s.at # "off" /\ Goes(j, r, t)
      /\ on[j][r] \in SUBSET Occurrences /\ outlive \subseteq on[j][r]
      /\ OnBecomes(j, r, outlive)
      /\ UNCHANGED fixed /\ UNCHANGED <<store, held, record, fired>>
  BY DEF Crash, Alive, CampaignTypes, OnBecomes
<1> HIDE DEF outlive
<1>2. t \in Session /\ t.at = "dead" /\ t.active = {} /\ t.stuck = s.stuck \cup outlive
  BY <1>1 DEF Session, Places, Gone
<1>3. /\ on' \in [Jobs' -> [Ranks -> SUBSET Occurrences']]
      /\ on'[j][r] = outlive
      /\ \A k \in Jobs, q \in Ranks : k # j \/ q # r => on'[k][q] = on[k][q]
  <2>1. outlive \in SUBSET Occurrences
    BY <1>1
  <2> QED
    BY <1>1, <2>1, SetsEffects
<1>4. /\ ses' \in [Jobs' -> [Ranks -> Session']]
      /\ ses'[j][r] = t
      /\ \A k \in Jobs, q \in Ranks : k # j \/ q # r => ses'[k][q] = ses[k][q]
  BY <1>1, <1>2, GoesTo
<1>5. CampaignTypes'
  BY <1>1, <1>3, <1>4, StaysTyped DEF CampaignTypes
<1>6. Moves(j, r)
  BY <1>1, <1>3, <1>4 DEF Moves
<1>7. Ends(j, r)
  BY <1>1, <1>2, <1>3, <1>4 DEF Ends
<1> QED
  BY <1>1, <1>2, <1>4, <1>5, <1>6, <1>7

LEMMA MatchCallStep ==
  ASSUME CampaignTypes, NEW j \in Jobs, NEW r \in Ranks, NEW o \in ses[j][r].active,
         NEW outcome \in {"ok", "quiet", "stuck"}, MatchCall(j, r, o, outcome)
  PROVE  LET s == ses[j][r]  t == ses'[j][r]
         IN  /\ CampaignTypes' /\ Moves(j, r) /\ Ends(j, r) /\ UNCHANGED <<store, held, fired>>
             /\ s.at = "train" /\ t.at = "train" /\ KeepsBooks(s, t)
<1> DEFINE s == ses[j][r]
           last == outcome = "quiet" \/ Incident(o).until = "matching_call"
           stuck == IF outcome = "stuck" THEN {o} ELSE {}
           S == IF last THEN on[j][r] \ ({o} \ stuck) ELSE on[j][r]
           status == IF outcome # "ok" THEN "failed" ELSE IF last THEN "completed" ELSE "active"
           t == IF last THEN Without(s, {o}, stuck) ELSE s
<1>1. /\ s \in Session /\ s.active \in SUBSET Occurrences /\ o \in Occurrences
      /\ S \in SUBSET Occurrences /\ status \in Statuses
      /\ s.at = "train" /\ Goes(j, r, t) /\ (outcome = "stuck" => last)
      /\ OnBecomes(j, r, S) /\ UNCHANGED fixed /\ UNCHANGED <<store, held, fired>>
      /\ record' = [record EXCEPT ![j] = [record[j] EXCEPT ![r] =
                      [record[j][r] EXCEPT ![o] = status]]]
  BY DEF MatchCall, CampaignTypes, Session, Statuses, OnBecomes
<1>2. status = "completed" => last /\ ~Bounded(o) /\ stuck = {}
  BY <1>1, LifetimeIsOne
<1>3. S \subseteq on[j][r] /\ stuck \subseteq {o} /\ (last => S = on[j][r] \ ({o} \ stuck))
        /\ (~last => S = on[j][r])
  OBVIOUS
<1> HIDE DEF last, stuck, S, status
<1>4. /\ t \in Session /\ t.at = "train" /\ KeepsBooks(s, t)
      /\ ~last => t.active = s.active /\ t.stuck = s.stuck
      /\ last => t.active = s.active \ {o} /\ t.stuck = s.stuck \cup stuck
  BY <1>1, <1>3 DEF Session, Without, KeepsBooks
<1> HIDE DEF t
<1>5. /\ record' \in [Jobs -> [Ranks -> [Occurrences -> Statuses]]]
      /\ record'[j][r] = [record[j][r] EXCEPT ![o] = status]
      /\ \A k \in Jobs, q \in Ranks : k # j \/ q # r => record'[k][q] = record[k][q]
  BY <1>1 DEF CampaignTypes
<1>6. \A p \in Occurrences :
        record'[j][r][p] = IF p = o THEN status ELSE record[j][r][p]
  BY <1>1, <1>5 DEF CampaignTypes
<1>7. /\ on' \in [Jobs' -> [Ranks -> SUBSET Occurrences']]
      /\ on'[j][r] = S
      /\ \A k \in Jobs, q \in Ranks : k # j \/ q # r => on'[k][q] = on[k][q]
  BY <1>1, SetsEffects
<1>8. /\ ses' \in [Jobs' -> [Ranks -> Session']]
      /\ ses'[j][r] = t
      /\ \A k \in Jobs, q \in Ranks : k # j \/ q # r => ses'[k][q] = ses[k][q]
  BY <1>1, <1>4, GoesTo
<1>9. CampaignTypes'
  BY <1>1, <1>5, <1>7, <1>8, StaysTyped, SameCampaign DEF CampaignTypes
<1>10. Moves(j, r)
  BY <1>1, <1>5, <1>7, <1>8 DEF Moves
<1>11. Ends(j, r)
  <2>1. /\ t.active \subseteq s.active /\ on'[j][r] \subseteq on[j][r]
        /\ (s.active \cup s.stuck) \cap on'[j][r] \subseteq t.active \cup t.stuck
        /\ \A p \in t.active : Bounded(p) /\ p \in on[j][r] => p \in on'[j][r]
    BY <1>3, <1>4, <1>7
  <2>2. ASSUME NEW p \in Occurrences
        PROVE  /\ p \notin on[j][r] => held'[j][r][p] = held[j][r][p]
               /\ p \notin s.active /\ record[j][r][p] = "none" => record'[j][r][p] = "none"
               /\ record'[j][r][p] = "completed" =>
                    \/ record[j][r][p] = "completed"
                    \/ /\ p \in s.active /\ p \notin on'[j][r]
                       /\ Bounded(p) => held'[j][r][p] = Incident(p).iterations
    BY <1>1, <1>2, <1>3, <1>6, <1>7
  <2> QED
    BY <1>8, <2>1, <2>2 DEF Ends
<1> QED
  BY <1>1, <1>4, <1>8, <1>9, <1>10, <1>11

LEMMA MineIsDue ==
  ASSUME CampaignTypes, NEW j \in Jobs, NEW r \in Ranks
  PROVE  /\ Mine(j, r) \subseteq Selected(ses[j][r].before, ses[j][r].iter)
         /\ Mine(j, r) \subseteq {o \in Occurrences : o[2] = ses[j][r].iter}
         /\ Skipped(j, r) \subseteq {o \in Occurrences : o[2] = ses[j][r].iter}
BY DEF Mine, Skipped, Selected, Candidates

Fires(r, S) ==
  fired' = [fired EXCEPT ![r] = [o \in Occurrences |-> IF o \in S THEN @[o] + 1 ELSE @[o]]]

LEMMA FiresStep ==
  ASSUME CampaignTypes, NEW j \in Jobs, NEW r \in Ranks, NEW S \in SUBSET Mine(j, r),
         Fires(r, S), UNCHANGED fixed
  PROVE  fired' \in [Ranks -> [Occurrences' -> Nat]] /\ Applies(j, r)
<1> DEFINE F == [o \in Occurrences |-> IF o \in S THEN fired[r][o] + 1 ELSE fired[r][o]]
<1>1. fired' = [fired EXCEPT ![r] = F]
  BY DEF Fires, CampaignTypes
<1>2. F \in [Occurrences -> Nat]
  BY DEF CampaignTypes
<1>3. \A o \in Occurrences : F[o] = IF o \in S THEN fired[r][o] + 1 ELSE fired[r][o]
  OBVIOUS
<1> HIDE DEF F
<1>4. /\ fired' \in [Ranks -> [Occurrences -> Nat]]
      /\ fired'[r] = F
      /\ \A q \in Ranks : q # r => fired'[q] = fired[q]
  BY <1>1, <1>2 DEF CampaignTypes
<1>5. \A o \in Occurrences :
        fired'[r][o] = fired[r][o] \/ (o \in Mine(j, r) /\ fired'[r][o] = fired[r][o] + 1)
  <2> SUFFICES ASSUME NEW o \in Occurrences
               PROVE  fired'[r][o] = fired[r][o] \/ (o \in Mine(j, r) /\ fired'[r][o] = fired[r][o] + 1)
    OBVIOUS
  <2>1. fired'[r][o] = IF o \in S THEN fired[r][o] + 1 ELSE fired[r][o]
    BY <1>3, <1>4
  <2>2. o \in S => o \in Mine(j, r)
    OBVIOUS
  <2> QED
    BY <2>1, <2>2
<1> QED
  BY <1>4, <1>5, SameCampaign DEF Applies

LEMMA ActivateStep ==
  ASSUME CampaignTypes, NEW j \in Jobs, NEW r \in Ranks,
         NEW quiet \in SUBSET Mine(j, r), NEW inline \in SUBSET Mine(j, r),
         Activate(j, r, quiet, inline)
  PROVE  LET s == ses[j][r]  t == ses'[j][r]
         IN  /\ CampaignTypes' /\ Moves(j, r) /\ UNCHANGED <<store, held>>
             /\ Begins(j, r) /\ Applies(j, r)
             /\ s.at = "activate" /\ KeepsBooks(s, t)
             /\ t.at = IF RequiresActivationConsensus(s) THEN "arm" ELSE "train"
<1> DEFINE s == ses[j][r]
           applied == Mine(j, r) \ quiet
           A == applied \ inline
           R == [o \in Occurrences |->
                   CASE o \in quiet -> "failed"
                     [] o \in inline -> "completed"
                     [] o \in A -> IF Incident(o).kind = "hook" THEN "pending" ELSE "active"
                     [] o \in Skipped(j, r) -> "skipped"
                     [] OTHER -> record[j][r][o]]
           done == [s EXCEPT !.err = FALSE, !.active = @ \cup A]
           p == AfterActivation(done)
           t == [done EXCEPT !.at = p]
<1>1. /\ s \in Session /\ s.at = "activate" /\ Goes(j, r, t)
      /\ OnBecomes(j, r, on[j][r] \cup A) /\ Fires(r, applied)
      /\ UNCHANGED fixed /\ UNCHANGED <<store, held>>
      /\ record' = [record EXCEPT ![j] = [record[j] EXCEPT ![r] = R]]
      /\ \A o \in Mine(j, r) : o \in inline => MayBeInline(o)
  BY DEF Activate, CampaignTypes, OnBecomes, Fires
<1>2. /\ A \in SUBSET {o \in Occurrences : o[2] = s.iter} /\ applied \in SUBSET Mine(j, r)
      /\ A \subseteq Occurrences /\ on[j][r] \in SUBSET Occurrences
  BY MineIsDue DEF CampaignTypes
<1>3. \A o \in Occurrences :
        /\ R[o] \in Statuses
        /\ R[o] = "completed" => o \in inline \/ (record[j][r][o] = "completed" /\ o \notin A)
        /\ o[2] # s.iter => R[o] = record[j][r][o]
  BY MineIsDue DEF CampaignTypes, Statuses
<1>4. \A o \in A : R[o] # "completed"
  BY <1>2, <1>3
<1>5. p = IF RequiresActivationConsensus(s) THEN "arm" ELSE "train"
  <2>1. done.before = s.before /\ done.iter = s.iter /\ done.err = FALSE
    BY <1>1 DEF Session
  <2> QED
    BY <2>1 DEF AfterActivation, RequiresActivationConsensus
<1> HIDE DEF R, A, p, applied
<1>6. /\ t \in Session /\ t.at = p /\ KeepsBooks(s, t)
      /\ t.active = s.active \cup A /\ t.stuck = s.stuck
  BY <1>1, <1>2, <1>5 DEF Session, Places, Consensus, KeepsBooks
<1> HIDE DEF t
<1>7. /\ record' \in [Jobs -> [Ranks -> [Occurrences -> Statuses]]]
      /\ record'[j][r] = R
      /\ \A k \in Jobs, q \in Ranks : k # j \/ q # r => record'[k][q] = record[k][q]
  <2>1. R \in [Occurrences -> Statuses]
    BY <1>3 DEF R
  <2> QED
    BY <1>1, <2>1 DEF CampaignTypes
<1>8. /\ on' \in [Jobs' -> [Ranks -> SUBSET Occurrences']]
      /\ on'[j][r] = on[j][r] \cup A
      /\ \A k \in Jobs, q \in Ranks : k # j \/ q # r => on'[k][q] = on[k][q]
  <2>1. on[j][r] \cup A \in SUBSET Occurrences
    BY <1>2
  <2> QED
    BY <1>1, <2>1, SetsEffects
<1>9. fired' \in [Ranks -> [Occurrences' -> Nat]] /\ Applies(j, r)
  BY <1>1, <1>2, FiresStep
<1>10. /\ ses' \in [Jobs' -> [Ranks -> Session']]
       /\ ses'[j][r] = t
       /\ \A k \in Jobs, q \in Ranks : k # j \/ q # r => ses'[k][q] = ses[k][q]
  BY <1>1, <1>6, GoesTo
<1>11. CampaignTypes'
  BY <1>1, <1>7, <1>8, <1>9, <1>10, StaysTyped, SameCampaign DEF CampaignTypes
<1>12. Moves(j, r)
  BY <1>1, <1>7, <1>8, <1>10 DEF Moves
<1>13. Begins(j, r)
  <2>1. \E B, K \in SUBSET {o \in Occurrences : o[2] = s.iter} :
           /\ t.active = s.active \cup B /\ t.stuck = s.stuck \cup K
           /\ on'[j][r] = on[j][r] \cup B \cup K
           /\ \A o \in B \cup K : record'[j][r][o] # "completed"
    <3>1. /\ t.active = s.active \cup A /\ t.stuck = s.stuck \cup {}
          /\ on'[j][r] = on[j][r] \cup A \cup {}
          /\ \A o \in A \cup {} : record'[j][r][o] # "completed"
      BY <1>4, <1>6, <1>7, <1>8
    <3> QED
      BY <1>2, <3>1
  <2>2. \A o \in Occurrences :
          /\ record'[j][r][o] = "completed" => MayBeInline(o) \/ record[j][r][o] = "completed"
          /\ o[2] # s.iter => record'[j][r][o] = record[j][r][o]
    BY <1>1, <1>3, <1>7
  <2> QED
    BY <1>10, <2>1, <2>2 DEF Begins
<1> QED
  BY <1>1, <1>5, <1>6, <1>9, <1>10, <1>11, <1>12, <1>13

LEMMA ActivateFailsStep ==
  ASSUME CampaignTypes, NEW j \in Jobs, NEW r \in Ranks,
         NEW attempted \in SUBSET Mine(j, r), NEW applied \in SUBSET attempted,
         NEW stuck \in SUBSET applied, ActivateFails(j, r, attempted, applied, stuck)
  PROVE  LET s == ses[j][r]  t == ses'[j][r]
         IN  /\ CampaignTypes' /\ Moves(j, r) /\ UNCHANGED <<store, held>>
             /\ Begins(j, r) /\ Applies(j, r)
             /\ s.at = "activate" /\ KeepsBooks(s, t)
             /\ t.at = IF RequiresActivationConsensus(s) THEN "arm" ELSE "cleanup"
<1> DEFINE s == ses[j][r]
           failed == [s EXCEPT !.err = TRUE, !.stuck = @ \cup stuck]
           p == AfterActivation(failed)
           t == [failed EXCEPT !.at = p]
<1>1. /\ s \in Session /\ s.at = "activate" /\ Goes(j, r, t)
      /\ OnBecomes(j, r, on[j][r] \cup stuck) /\ Fires(r, applied)
      /\ UNCHANGED fixed /\ UNCHANGED <<store, held>> /\ Marks(j, r, attempted, "failed")
  BY DEF ActivateFails, CampaignTypes, OnBecomes, Fires
<1>2. /\ stuck \in SUBSET {o \in Occurrences : o[2] = s.iter} /\ applied \in SUBSET Mine(j, r)
      /\ on[j][r] \cup stuck \in SUBSET Occurrences /\ stuck \subseteq Occurrences
      /\ \A o \in attempted : o[2] = s.iter
  BY MineIsDue DEF CampaignTypes
<1>3. p = IF RequiresActivationConsensus(s) THEN "arm" ELSE "cleanup"
  <2>1. failed.before = s.before /\ failed.iter = s.iter /\ failed.err = TRUE
    BY <1>1 DEF Session
  <2> QED
    BY <2>1 DEF AfterActivation, RequiresActivationConsensus
<1> HIDE DEF p
<1>4. /\ t \in Session /\ t.at = p /\ KeepsBooks(s, t)
      /\ t.active = s.active /\ t.stuck = s.stuck \cup stuck
  BY <1>1, <1>2, <1>3 DEF Session, Places, Consensus, KeepsBooks
<1> HIDE DEF t
<1>5. /\ record' \in [Jobs' -> [Ranks -> [Occurrences' -> Statuses]]]
      /\ \A o \in Occurrences :
           record'[j][r][o] = IF o \in attempted THEN "failed" ELSE record[j][r][o]
      /\ \A k \in Jobs, q \in Ranks : k # j \/ q # r => record'[k][q] = record[k][q]
  BY <1>1, MarksStep DEF Statuses
<1>6. /\ on' \in [Jobs' -> [Ranks -> SUBSET Occurrences']]
      /\ on'[j][r] = on[j][r] \cup stuck
      /\ \A k \in Jobs, q \in Ranks : k # j \/ q # r => on'[k][q] = on[k][q]
  BY <1>1, <1>2, SetsEffects
<1>7. fired' \in [Ranks -> [Occurrences' -> Nat]] /\ Applies(j, r)
  BY <1>1, <1>2, FiresStep
<1>8. /\ ses' \in [Jobs' -> [Ranks -> Session']]
      /\ ses'[j][r] = t
      /\ \A k \in Jobs, q \in Ranks : k # j \/ q # r => ses'[k][q] = ses[k][q]
  BY <1>1, <1>4, GoesTo
<1>9. CampaignTypes'
  BY <1>1, <1>5, <1>6, <1>7, <1>8, StaysTyped DEF CampaignTypes
<1>10. Moves(j, r)
  BY <1>1, <1>5, <1>6, <1>8 DEF Moves
<1>11. Begins(j, r)
  <2>1. \E A, K \in SUBSET {o \in Occurrences : o[2] = s.iter} :
           /\ t.active = s.active \cup A /\ t.stuck = s.stuck \cup K
           /\ on'[j][r] = on[j][r] \cup A \cup K
           /\ \A o \in A \cup K : record'[j][r][o] # "completed"
    <3>1. /\ t.active = s.active \cup {} /\ t.stuck = s.stuck \cup stuck
          /\ on'[j][r] = on[j][r] \cup {} \cup stuck
          /\ \A o \in {} \cup stuck : record'[j][r][o] # "completed"
      BY <1>2, <1>4, <1>5, <1>6
    <3> QED
      BY <1>2, <3>1
  <2>2. \A o \in Occurrences :
          /\ record'[j][r][o] = "completed" => MayBeInline(o) \/ record[j][r][o] = "completed"
          /\ o[2] # s.iter => record'[j][r][o] = record[j][r][o]
    BY <1>2, <1>5
  <2> QED
    BY <1>8, <2>1, <2>2 DEF Begins
<1> QED
  BY <1>1, <1>3, <1>4, <1>7, <1>8, <1>9, <1>10, <1>11

(* After a step without errors only those effects go on that have another  *)
(* iteration left.                                                         *)
LEMMA StepCompleteStep ==
  ASSUME CampaignTypes, NEW j \in Jobs, NEW r \in Ranks, NEW stuck,
         NEW outcome \in {"ok", "optimizer", "history"},
         StepComplete(j, r, outcome, stuck), RunsSinceTrigger(j, r)
  PROVE  LET s == ses[j][r]  t == ses'[j][r]
         IN  /\ CampaignTypes' /\ Moves(j, r) /\ Ends(j, r) /\ UNCHANGED <<store, fired>>
             /\ s.at = "train" /\ t.journal = s.journal /\ t.before = s.before
             /\ t.iter \in {s.iter, s.iter + 1}
             /\ t.at = IF RequiresBoundaryConsensus(s.journal, s.iter, r) THEN "prepare"
                       ELSE IF t.err THEN "cleanup" ELSE "enter"
             /\ ~t.err =>
                  /\ t.iter = s.iter + 1
                  /\ \A o \in on[j][r] : held'[j][r][o] = held[j][r][o] + 1
                  /\ \A o \in t.active : Bounded(o) => s.iter < o[2] + Incident(o).iterations - 1
<1> DEFINE s == ses[j][r]
           expired == IF outcome = "optimizer" THEN {} ELSE Expiring(s)
           advances == outcome # "optimizer" /\ stuck = {}
           err == outcome # "ok" \/ stuck # {}
           n == IF advances THEN s.iter + 1 ELSE s.iter
           p == IF RequiresBoundaryConsensus(s.journal, s.iter, r) THEN "prepare"
                ELSE IF err THEN "cleanup" ELSE "enter"
           u == Without(s, expired, stuck)
           t == [u EXCEPT !.err = err, !.iter = n, !.at = p]
           H == [o \in Occurrences |->
                   IF o \in on[j][r] THEN held[j][r][o] + 1 ELSE held[j][r][o]]
<1>1. /\ s \in Session /\ s.active \in SUBSET Occurrences /\ s.at = "train"
      /\ s.iter \in Nat /\ on[j][r] \in SUBSET Occurrences
      /\ held[j][r] \in [Occurrences -> Nat]
  BY DEF StepComplete, CampaignTypes, Session
<1>2. /\ stuck \subseteq expired /\ expired \subseteq s.active /\ expired \in SUBSET Occurrences
      /\ Completes(j, r, expired, stuck, {})
      /\ stuck # {} => outcome = "ok"
  BY <1>1 DEF StepComplete, Expiring
<1>3. held' = IF outcome = "optimizer" THEN held
              ELSE [held EXCEPT ![j] = [held[j] EXCEPT ![r] = H]]
  BY <1>1 DEF StepComplete, CampaignTypes
<1>4. Goes(j, r, t)
  <2>1. u \in Session /\ u.iter = s.iter
    BY <1>1, <1>2 DEF Without, Session
  <2>2. t = [u EXCEPT !.err = err, !.iter = IF advances THEN @ + 1 ELSE @, !.at = p]
    BY <2>1 DEF Session
  <2> QED
    BY <2>2 DEF StepComplete
<1>5. /\ err \in BOOLEAN /\ n \in Nat /\ p \in Places
      /\ n \in {s.iter, s.iter + 1}
      /\ (~err => n = s.iter + 1 /\ outcome # "optimizer")
      /\ p = IF RequiresBoundaryConsensus(s.journal, s.iter, r) THEN "prepare"
             ELSE IF err THEN "cleanup" ELSE "enter"
  BY <1>1 DEF Places, Consensus
<1>6. \A o \in s.active : Bounded(o) =>
        /\ held[j][r][o] = s.iter - o[2] /\ o \in on[j][r]
        /\ s.iter <= o[2] + Incident(o).iterations - 1
        /\ o[2] \in Nat /\ Incident(o).iterations \in Nat /\ Incident(o).until = "none"
  BY <1>1, LifetimeIsOne DEF RunsSinceTrigger, Sound, Leaving, Gone
<1>7. \A o \in s.active : Bounded(o) =>
        IF o \in expired THEN outcome # "optimizer" /\ s.iter >= o[2] + Incident(o).iterations - 1
        ELSE outcome # "optimizer" => s.iter < o[2] + Incident(o).iterations - 1
  <2> SUFFICES ASSUME NEW o \in s.active, Bounded(o)
               PROVE  IF o \in expired
                        THEN outcome # "optimizer" /\ s.iter >= o[2] + Incident(o).iterations - 1
                        ELSE outcome # "optimizer" => s.iter < o[2] + Incident(o).iterations - 1
    OBVIOUS
  <2>1. o \in Expiring(s) <=> s.iter >= o[2] + Incident(o).iterations - 1
    BY <1>6 DEF Expiring
  <2>2. o \in expired <=> outcome # "optimizer" /\ o \in Expiring(s)
    OBVIOUS
  <2> QED
    BY <1>1, <1>6, <2>1, <2>2
<1> HIDE DEF expired, err, n, p, H
<1>8. /\ t \in Session /\ t.at = p /\ t.err = err /\ t.iter = n
      /\ t.journal = s.journal /\ t.before = s.before
      /\ t.active = s.active \ expired /\ t.stuck = s.stuck \cup stuck
  BY <1>1, <1>2, <1>5 DEF Session, Without
<1> HIDE DEF t
<1>9. /\ H \in [Occurrences -> Nat]
      /\ \A o \in Occurrences :
           H[o] = IF o \in on[j][r] THEN held[j][r][o] + 1 ELSE held[j][r][o]
  BY <1>1 DEF H
<1>10. /\ held' \in [Jobs -> [Ranks -> [Occurrences -> Nat]]]
       /\ held'[j][r] = IF outcome = "optimizer" THEN held[j][r] ELSE H
       /\ \A k \in Jobs, q \in Ranks : k # j \/ q # r => held'[k][q] = held[k][q]
  <2>1. CASE outcome = "optimizer"
    BY <1>3, <2>1 DEF CampaignTypes
  <2>2. CASE outcome # "optimizer"
    BY <1>3, <1>9, <2>2 DEF CampaignTypes
  <2> QED
    BY <2>1, <2>2
<1>11. Undoes(j, r, expired, stuck, {})
  BY <1>2, CompletesStep
<1>12. /\ ses' \in [Jobs' -> [Ranks -> Session']]
       /\ ses'[j][r] = t
       /\ \A k \in Jobs, q \in Ranks : k # j \/ q # r => ses'[k][q] = ses[k][q]
  BY <1>4, <1>8, <1>11, GoesTo DEF Undoes
<1>13. CampaignTypes'
  BY <1>10, <1>11, <1>12, StaysTyped, SameCampaign DEF CampaignTypes, Undoes
<1>14. Moves(j, r)
  BY <1>10, <1>11, <1>12 DEF Moves, Undoes
<1>15. \A o \in Occurrences :
         /\ o \notin on[j][r] => held'[j][r][o] = held[j][r][o]
         /\ o \in on[j][r] /\ outcome # "optimizer" => held'[j][r][o] = held[j][r][o] + 1
  BY <1>9, <1>10
<1>16. Ends(j, r)
  <2>1. /\ t.active \subseteq s.active /\ on'[j][r] \subseteq on[j][r]
        /\ (s.active \cup s.stuck) \cap on'[j][r] \subseteq t.active \cup t.stuck
        /\ \A o \in t.active : Bounded(o) /\ o \in on[j][r] => o \in on'[j][r]
    BY <1>8, <1>11 DEF Undoes
  <2>2. ASSUME NEW o \in Occurrences
        PROVE  /\ o \notin s.active /\ record[j][r][o] = "none" => record'[j][r][o] = "none"
               /\ record'[j][r][o] = "completed" =>
                    \/ record[j][r][o] = "completed"
                    \/ /\ o \in s.active /\ o \notin on'[j][r]
                       /\ Bounded(o) => held'[j][r][o] = Incident(o).iterations
    <3>1. o \notin s.active => o \notin expired /\ o \notin stuck
      BY <1>2
    <3>2. record'[j][r][o] = "completed" =>
            \/ record[j][r][o] = "completed"
            \/ o \in expired /\ o \notin stuck
      BY <1>11 DEF Undoes
    <3>3. o \in expired /\ o \notin stuck => o \in s.active /\ o \notin on'[j][r]
      BY <1>2, <1>11 DEF Undoes
    <3>4. o \in expired /\ Bounded(o) => held'[j][r][o] = Incident(o).iterations
      <4> SUFFICES ASSUME o \in expired, Bounded(o)
                   PROVE  held'[j][r][o] = Incident(o).iterations
        OBVIOUS
      <4>1. o \in s.active
        BY <1>2
      <4>2. held'[j][r][o] = held[j][r][o] + 1
        BY <1>6, <1>7, <1>15, <4>1
      <4> QED
        BY <1>1, <1>6, <1>7, <4>1, <4>2
    <3> QED
      BY <1>11, <3>1, <3>2, <3>3, <3>4 DEF Undoes
  <2> QED
    BY <1>12, <1>15, <2>1, <2>2 DEF Ends
<1>17. ~t.err =>
         /\ t.iter = s.iter + 1
         /\ \A o \in on[j][r] : held'[j][r][o] = held[j][r][o] + 1
         /\ \A o \in t.active : Bounded(o) => s.iter < o[2] + Incident(o).iterations - 1
  BY <1>1, <1>5, <1>7, <1>8, <1>15
<1> QED
  BY <1>1, <1>5, <1>8, <1>11, <1>12, <1>13, <1>14, <1>16, <1>17 DEF Undoes

(* A round moves every rank of the job, and nothing else.                  *)
LEMMA RoundStep ==
  ASSUME CampaignTypes, NEW j \in Jobs, Round(j)
  PROVE  /\ CampaignTypes' /\ UNCHANGED fixed /\ UNCHANGED <<store, effects>>
         /\ \A k \in Jobs, r \in Ranks : k # j => ses'[k][r] = ses[k][r]
         /\ \A r \in Ranks :
              LET s == ses[j][r]  t == ses'[j][r]
              IN  /\ s.at \in Consensus /\ t.at = AfterRound(s, RoundFails(j))
                  /\ KeepsBooks(s, t) /\ t.err = s.err
                  /\ t.active = s.active /\ t.stuck = s.stuck
<1> DEFINE N == [r \in Ranks |-> [ses[j][r] EXCEPT !.at = AfterRound(ses[j][r], RoundFails(j))]]
<1>1. /\ \A r \in Ranks : ses[j][r].at \in Consensus /\ ses[j][r] \in Session
      /\ ses' = [ses EXCEPT ![j] = N]
      /\ UNCHANGED fixed /\ UNCHANGED <<store, effects>>
  BY DEF Round, CampaignTypes
<1>2. \A r \in Ranks : AfterRound(ses[j][r], RoundFails(j)) \in Places
  BY DEF AfterRound, Places, Consensus
<1>3. \A r \in Ranks : /\ N[r] \in Session
                       /\ N[r].at = AfterRound(ses[j][r], RoundFails(j))
                       /\ KeepsBooks(ses[j][r], N[r]) /\ N[r].err = ses[j][r].err
                       /\ N[r].active = ses[j][r].active /\ N[r].stuck = ses[j][r].stuck
  BY <1>1, <1>2 DEF Session, KeepsBooks
<1>4. N \in [Ranks -> Session]
  BY <1>3
<1> HIDE DEF N
<1>5. /\ ses' \in [Jobs -> [Ranks -> Session]] /\ ses'[j] = N
      /\ \A k \in Jobs, r \in Ranks : k # j => ses'[k][r] = ses[k][r]
  BY <1>1, <1>4 DEF CampaignTypes
<1>6. CampaignTypes'
  BY <1>1, <1>5, StaysTyped, SameCampaign, SameMeaning DEF CampaignTypes, effects
<1> QED
  BY <1>1, <1>3, <1>5, <1>6

-----------------------------------------------------------------------------
(* The ranks are in step.  A rank that does what is due next, or leaves,   *)
(* does not disturb the others.                                            *)
LEMMA FollowsIsInStep ==
  ASSUME CampaignTypes, CampaignTypes', NEW j \in Jobs, NEW r \in Ranks, Moves(j, r),
         \A k \in Jobs : InStep(k),
         \A round \in Consensus, w, b \in Kept, n \in Nat :
           OnTheWay(ses[j][r], round, w, b, n) => OnTheWay(ses'[j][r], round, w, b, n)
  PROVE  \A k \in Jobs' : InStep(k)'
<1>1. /\ Jobs' = Jobs /\ Kept' = Kept
      /\ \A s, round, w, b, n : OnTheWay(s, round, w, b, n)' <=> OnTheWay(s, round, w, b, n)
  BY SameCampaign, SameMeaning DEF Moves
<1> SUFFICES ASSUME NEW k \in Jobs PROVE InStep(k)'
  BY <1>1
<1>2. PICK round \in Consensus, w \in Kept, b \in Kept, n \in Nat :
        \A q \in Ranks : OnTheWay(ses[k][q], round, w, b, n)
  BY DEF InStep
<1>3. \A q \in Ranks : OnTheWay(ses'[k][q], round, w, b, n)
  BY <1>2 DEF Moves
<1> QED
  BY <1>1, <1>2, <1>3 DEF InStep

LEMMA LeavingIsInStep ==
  ASSUME NEW s, s.at \in Leaving, NEW round, NEW w, NEW b, NEW n
  PROVE  OnTheWay(s, round, w, b, n)
BY DEF OnTheWay

(* Where a rank is tells which round it is on its way to.                  *)
LEMMA WayOf ==
  ASSUME NEW s \in Session, NEW round \in Consensus, NEW w \in Kept, NEW b \in Kept, NEW n \in Nat,
         OnTheWay(s, round, w, b, n)
  PROVE  /\ s.at = "off" => round = "enable"
         /\ s.at = "bind" => round = "binding" /\ ToBinding(s, w, n)
         /\ s.at = "stage" => round = "persist" /\ ToPersist(s, w, n)
         /\ s.at = "persist" => round = "persist" /\ ToPersist(s, w, n)
         /\ s.at = "restore" => round = "restored" /\ ToRestored(s, n)
         /\ s.at = "restored" => round = "restored" /\ ToRestored(s, n)
         /\ s.at = "train" => round = "prepare" /\ ToPrepare(s, w, n)
         /\ s.at = "enter" => \/ round = "preflight" /\ ToPreflight(s, w, n)
                              \/ round = "prepare" /\ ToPrepare(s, w, n)
         /\ s.at = "activate" => \/ round = "arm" /\ ToArm(s, w, b, n)
                                 \/ round = "prepare" /\ ToPrepare(s, w, n)
         /\ s.at \in Consensus => s.at = round
BY DEF OnTheWay, ToEnable, ToBinding, ToPreflight, ToPersist, ToRestored, ToArm, ToPrepare,
       Leaving, Gone, Consensus

(* The operations of a session, as far as rounds and journals go.          *)
Advances(s, t) ==
  \/ t.at \in Leaving
  \/ s.at = "off" /\ t.at = "enable" /\ t.journal = [t.before EXCEPT !.bound = TRUE]
  \/ s.at = "bind" /\ t.at = "binding" /\ KeepsBooks(s, t)
  \/ /\ s.at = "enter" /\ KeepsBooks(s, t)
     /\ t.at = IF Candidates(s.journal, s.iter) = {} THEN "train" ELSE "preflight"
  \/ /\ s.at = "stage" /\ t.at = "persist" /\ t.iter = s.iter /\ t.before = s.journal
     /\ t.journal = IF t.err THEN s.journal ELSE Claimed(s.journal, Selected(s.journal, s.iter))
  \/ s.at = "restore" /\ t.at = "restored" /\ t.iter = s.iter
  \/ /\ s.at = "activate" /\ KeepsBooks(s, t)
     /\ t.at = IF RequiresActivationConsensus(s) THEN "arm" ELSE "train"
  \/ s.at = "train" /\ t.at = "train" /\ KeepsBooks(s, t)

LEMMA AdvancesIsInStep ==
  ASSUME CampaignTypes, NEW s \in Session, NEW t \in Session, Advances(s, t),
         NEW round \in Consensus, NEW w \in Kept, NEW b \in Kept, NEW n \in Nat,
         OnTheWay(s, round, w, b, n)
  PROVE  OnTheWay(t, round, w, b, n)
<1>1. CASE t.at \in Leaving
  BY <1>1, LeavingIsInStep
<1>2. CASE s.at = "off" /\ t.at = "enable"
  BY <1>2, WayOf DEF OnTheWay, ToEnable
<1>3. CASE s.at = "bind" /\ t.at = "binding" /\ KeepsBooks(s, t)
  BY <1>3, WayOf DEF OnTheWay, ToBinding, KeepsBooks
<1>4. CASE /\ s.at = "enter" /\ KeepsBooks(s, t)
           /\ t.at = IF Candidates(s.journal, s.iter) = {} THEN "train" ELSE "preflight"
  <2>1. CASE round = "preflight" /\ ToPreflight(s, w, n)
    BY <1>4, <2>1 DEF OnTheWay, ToPreflight, KeepsBooks
  <2>2. CASE round = "prepare" /\ ToPrepare(s, w, n)
    BY <1>4, <2>2 DEF OnTheWay, ToPrepare, KeepsBooks
  <2> QED
    BY <1>4, <2>1, <2>2, WayOf
<1>5. CASE s.at = "stage" /\ t.at = "persist" /\ t.iter = s.iter /\ t.before = s.journal
  BY <1>5, WayOf DEF OnTheWay, ToPersist
<1>6. CASE s.at = "restore" /\ t.at = "restored" /\ t.iter = s.iter
  BY <1>6, WayOf DEF OnTheWay, ToRestored
<1>7. CASE /\ s.at = "activate" /\ KeepsBooks(s, t)
           /\ t.at = IF RequiresActivationConsensus(s) THEN "arm" ELSE "train"
  <2>1. RequiresActivationConsensus(t) <=> RequiresActivationConsensus(s)
    BY <1>7 DEF RequiresActivationConsensus, KeepsBooks
  <2>2. CASE round = "arm" /\ ToArm(s, w, b, n)
    BY <1>7, <2>1, <2>2 DEF OnTheWay, ToArm, KeepsBooks
  <2>3. CASE round = "prepare" /\ ToPrepare(s, w, n)
    BY <1>7, <2>1, <2>3 DEF OnTheWay, ToPrepare, KeepsBooks
  <2> QED
    BY <1>7, <2>2, <2>3, WayOf
<1>8. CASE s.at = "train" /\ t.at = "train" /\ KeepsBooks(s, t)
  BY <1>8, WayOf DEF OnTheWay, ToPrepare, KeepsBooks
<1> QED
  BY <1>1, <1>2, <1>3, <1>4, <1>5, <1>6, <1>7, <1>8 DEF Advances

LEMMA AdvancesKeepsBooks ==
  ASSUME NEW s, NEW t, Advances(s, t), Books(s)
  PROVE  Books(t)
BY DEF Advances, Books, KeepsBooks, Leaving, Gone

(* Whether a boundary is due is the same question on every rank.           *)
LEMMA SameBoundary ==
  ASSUME NEW r \in Ranks, NEW w, NEW n
  PROVE  BoundaryIsDue(w, n) <=> RequiresBoundaryConsensus(w, n, r)
BY DEF BoundaryIsDue, RequiresBoundaryConsensus

(* A rank that finishes an iteration.  If all ranks have to meet after it, *)
(* it is the furthest one that any of them has reached; if not, this rank  *)
(* may be the first in the next one.                                       *)
LEMMA StepCompleteIsInStep ==
  ASSUME CampaignTypes, CampaignTypes', NEW j \in Jobs, NEW r \in Ranks, Moves(j, r),
         InStep(j), ses[j][r].at = "train", ses'[j][r].journal = ses[j][r].journal,
         ses'[j][r].at = IF RequiresBoundaryConsensus(ses[j][r].journal, ses[j][r].iter, r)
                           THEN "prepare" ELSE IF ses'[j][r].err THEN "cleanup" ELSE "enter",
         ~ses'[j][r].err => ses'[j][r].iter = ses[j][r].iter + 1,
         ses'[j][r].iter \in {ses[j][r].iter, ses[j][r].iter + 1}
  PROVE  InStep(j)'
<1> DEFINE s == ses[j][r]
           t == ses'[j][r]
<1>1. /\ Kept' = Kept
      /\ \A x, round, w, b, n : OnTheWay(x, round, w, b, n)' <=> OnTheWay(x, round, w, b, n)
      /\ s \in Session /\ t \in Session
      /\ \A q \in Ranks : q # r => ses'[j][q] = ses[j][q]
      /\ \A q \in Ranks : ses[j][q] \in Session
  BY SameCampaign, SameMeaning DEF Moves, CampaignTypes
<1>2. PICK round \in Consensus, w \in Kept, b \in Kept, n \in Nat :
        \A q \in Ranks : OnTheWay(ses[j][q], round, w, b, n)
  BY DEF InStep
<1>3. round = "prepare" /\ ToPrepare(s, w, n)
  BY <1>1, <1>2, WayOf
<1>4. /\ s.journal = w /\ s.iter \in Nat /\ s.iter <= n
      /\ \A m \in Nat : s.iter <= m /\ m < n => ~BoundaryIsDue(w, m)
  BY <1>1, <1>3 DEF ToPrepare, Session
<1> SUFFICES \E m \in Nat : \A q \in Ranks : OnTheWay(ses'[j][q], round, w, b, m)
  BY <1>1 DEF InStep
<1>5. CASE BoundaryIsDue(w, s.iter)
  <2>1. s.iter = n
    BY <1>4, <1>5
  <2>2. t.at = "prepare"
    BY <1>4, <1>5, SameBoundary
  <2>3. ToPrepare(t, w, n)
    BY <1>4, <1>5, <2>1, <2>2 DEF ToPrepare
  <2> QED
    BY <1>1, <1>2, <1>3, <2>3 DEF OnTheWay
<1>6. CASE ~BoundaryIsDue(w, s.iter) /\ t.err
  <2>1. t.at = "cleanup"
    BY <1>4, <1>6, SameBoundary
  <2> QED
    BY <1>1, <1>2, <2>1 DEF OnTheWay, Leaving
<1>7. CASE ~BoundaryIsDue(w, s.iter) /\ ~t.err
  <2>1. t.at = "enter" /\ t.iter = s.iter + 1 /\ t.journal = w
    BY <1>4, <1>7, SameBoundary
  <2>2. Candidates(w, t.iter) = {}
    BY <1>4, <1>7, <2>1, SameBoundary DEF RequiresBoundaryConsensus
  <2>3. CASE s.iter < n
    <3>1. ToPrepare(t, w, n)
      BY <1>4, <2>1, <2>2, <2>3 DEF ToPrepare
    <3> QED
      BY <1>1, <1>2, <1>3, <3>1 DEF OnTheWay
  <2>4. CASE s.iter = n
    <3>1. ToPrepare(t, w, n + 1)
      BY <1>4, <2>1, <2>2, <2>4 DEF ToPrepare
    <3>2. \A q \in Ranks : q # r => OnTheWay(ses'[j][q], round, w, b, n + 1)
      <4> SUFFICES ASSUME NEW q \in Ranks, q # r, ses[j][q].at \notin Leaving
                   PROVE  ToPrepare(ses[j][q], w, n + 1)
        BY <1>1, <1>3 DEF OnTheWay
      <4>1. ToPrepare(ses[j][q], w, n) /\ ses[j][q].iter \in Nat
        BY <1>1, <1>2, <1>3 DEF OnTheWay, Session
      <4>2. ~BoundaryIsDue(w, n)
        BY <1>7, <2>4
      <4>3. \A m \in Nat : m < n + 1 => m < n \/ m = n
        OBVIOUS
      <4> QED
        BY <4>1, <4>2, <4>3 DEF ToPrepare
    <3>3. OnTheWay(t, round, w, b, n + 1)
      BY <1>3, <3>1 DEF OnTheWay
    <3> QED
      BY <3>2, <3>3
  <2> QED
    BY <1>4, <2>3, <2>4
<1> QED
  BY <1>5, <1>6, <1>7

(* All ranks of a job leave a round together and with the same knowledge.  *)
LEMMA RoundIsInStep ==
  ASSUME CampaignTypes, NEW j \in Jobs, Round(j), InStep(j),
         \A r \in Ranks : Books(ses[j][r])
  PROVE  InStep(j)' /\ \A r \in Ranks : Books(ses'[j][r])
<1> DEFINE F == RoundFails(j)
           Onward == \E place \in Consensus, v, u \in Kept, m \in Nat :
                       \A r \in Ranks : OnTheWay(ses'[j][r], place, v, u, m)
<1>1. /\ Kept' = Kept
      /\ \A x, round, w, b, n : OnTheWay(x, round, w, b, n)' <=> OnTheWay(x, round, w, b, n)
      /\ \A r \in Ranks : ses[j][r] \in Session
  BY RoundStep, SameCampaign, SameMeaning DEF CampaignTypes
<1>2. \A r \in Ranks :
        /\ ses[j][r].at \in Consensus /\ ses'[j][r].at = AfterRound(ses[j][r], F)
        /\ KeepsBooks(ses[j][r], ses'[j][r]) /\ ses'[j][r].err = ses[j][r].err
  BY RoundStep
<1>3. PICK round \in Consensus, w \in Kept, b \in Kept, n \in Nat :
        \A r \in Ranks : OnTheWay(ses[j][r], round, w, b, n)
  BY DEF InStep
<1>4. \A r \in Ranks : ses[j][r].at = round
  BY <1>1, <1>2, <1>3, WayOf
<1>5. \A r \in Ranks :
        LET p == ses'[j][r].at
        IN  /\ F /\ round # "persist" => p \in {"cleanup", "rollback"}
            /\ F /\ round = "persist" => p = "restore"
            /\ ~F /\ round = "persist" => p = "activate"
            /\ ~F /\ round = "arm" => p = "train"
            /\ ~F /\ round = "enable" => p = "bind"
            /\ ~F /\ round = "preflight" => p = "stage"
            /\ ~F /\ round \in {"binding", "prepare"} => p = "enter"
            /\ round = "restored" => p = "cleanup"
  <2> SUFFICES ASSUME NEW r \in Ranks
               PROVE  LET p == AfterRound(ses[j][r], F)
                      IN  /\ F /\ round # "persist" => p \in {"cleanup", "rollback"}
                          /\ F /\ round = "persist" => p = "restore"
                          /\ ~F /\ round = "persist" => p = "activate"
                          /\ ~F /\ round = "arm" => p = "train"
                          /\ ~F /\ round = "enable" => p = "bind"
                          /\ ~F /\ round = "preflight" => p = "stage"
                          /\ ~F /\ round \in {"binding", "prepare"} => p = "enter"
                          /\ round = "restored" => p = "cleanup"
    BY <1>2
  <2>1. ses[j][r].at = round
    BY <1>4
  <2> HIDE DEF F
  <2>2. CASE F
    BY <2>1, <2>2 DEF AfterRound, Consensus
  <2>3. CASE ~F
    BY <2>1, <2>3 DEF AfterRound, Consensus
  <2> QED
    BY <2>2, <2>3
<1>6. ~F => \A r \in Ranks : ~ses[j][r].err
  BY DEF RoundFails
<1>7. \A r \in Ranks : Books(ses'[j][r])
  <2> SUFFICES ASSUME NEW r \in Ranks PROVE Books(ses'[j][r])
    OBVIOUS
  <2> DEFINE p == ses'[j][r].at
  <2>1. p \in {"cleanup", "rollback", "restore", "activate", "train", "bind", "stage", "enter"}
    BY <1>3, <1>5 DEF Consensus
  <2>2. p = "restore" => round = "persist"
    BY <1>3, <1>5 DEF Consensus
  <2>3. p = "bind" => round = "enable"
    BY <1>3, <1>5 DEF Consensus
  <2>4. p = "bind" => Books(ses'[j][r])
    BY <1>2, <1>4, <2>3 DEF Books, KeepsBooks
  <2>5. p = "restore" => Books(ses'[j][r])
    BY <1>2, <1>4, <2>2 DEF Books, KeepsBooks
  <2> QED
    BY <2>1, <2>4, <2>5 DEF Books
<1>8. Onward
  <2>1. CASE Ranks = {}
    BY <1>3, <2>1
  <2>2. CASE (F /\ round # "persist") \/ round = "restored"
    BY <1>3, <1>5, <2>2, LeavingIsInStep DEF Leaving, Consensus
  <2>3. CASE F /\ round = "persist"
    <3>0. \A r \in Ranks : ses[j][r].iter = n
      BY <1>3, <1>4, <2>3 DEF OnTheWay, ToPersist, Leaving, Gone
    <3>1. \A r \in Ranks : ses'[j][r].at = "restore" /\ ses'[j][r].iter = n
      <4> SUFFICES ASSUME NEW r \in Ranks
                   PROVE  ses'[j][r].at = "restore" /\ ses'[j][r].iter = n
        OBVIOUS
      <4>1. ses'[j][r].at = "restore"
        BY <1>5, <2>3
      <4>2. ses'[j][r].iter = ses[j][r].iter
        BY <1>2 DEF KeepsBooks
      <4> QED
        BY <3>0, <4>1, <4>2
    <3>2. \A r \in Ranks : OnTheWay(ses'[j][r], "restored", w, b, n)
      BY <3>1 DEF OnTheWay, ToRestored
    <3> QED
      BY <1>3, <3>2 DEF Consensus
  <2>4. CASE ~F /\ round = "enable" /\ Ranks # {}
    <3>1. PICK q \in Ranks : TRUE
      BY <2>4
    <3> DEFINE v == ses[j][q].journal
               m == ses[j][q].iter
    <3>2. v \in Kept /\ m \in Nat
      BY <1>1 DEF Session
    <3>3. ASSUME NEW r \in Ranks
          PROVE  ses[j][r].iter = m /\ ses[j][r].journal = v
      <4>1. /\ ses[j][r].iter = m
            /\ ses[j][r].journal.attempts = v.attempts
        BY <1>4, <2>4 DEF RoundFails
      <4>2. ses[j][r].journal \in Journals /\ v \in Journals
        BY <1>1 DEF Session, Kept
      <4>3. /\ ses[j][r].before \in Journals /\ ses[j][q].before \in Journals
            /\ ses[j][r].journal = [ses[j][r].before EXCEPT !.bound = TRUE]
            /\ v = [ses[j][q].before EXCEPT !.bound = TRUE]
        BY <1>1, <1>4, <2>4 DEF Session, Kept, Books
      <4>4. ses[j][r].journal.bound = v.bound
        BY <4>3 DEF Journals
      <4> QED
        BY <4>1, <4>2, <4>4 DEF Journals
    <3>4. \A r \in Ranks : ToBinding(ses'[j][r], v, m)
      BY <1>2, <1>5, <2>4, <3>3 DEF ToBinding, KeepsBooks
    <3> QED
      BY <3>2, <3>4, <1>3 DEF OnTheWay, Consensus
  <2>5. CASE ~F /\ round = "binding"
    <3>1. \A r \in Ranks : /\ ses'[j][r].at = "enter" /\ ses'[j][r].journal = w
                           /\ ses'[j][r].iter = n
      BY <1>2, <1>3, <1>4, <1>5, <2>5 DEF OnTheWay, ToBinding, KeepsBooks, Leaving, Gone
    <3>2. CASE Candidates(w, n) = {}
      <4>1. \A r \in Ranks : ToPrepare(ses'[j][r], w, n)
        BY <3>1, <3>2 DEF ToPrepare
      <4> QED
        BY <1>3, <4>1 DEF OnTheWay, Consensus
    <3>3. CASE Candidates(w, n) # {}
      <4>1. \A r \in Ranks : ToPreflight(ses'[j][r], w, n)
        BY <3>1, <3>3 DEF ToPreflight
      <4> QED
        BY <1>3, <4>1 DEF OnTheWay, Consensus
    <3> QED
      BY <3>2, <3>3
  <2>6. CASE ~F /\ round = "preflight"
    <3>1. \A r \in Ranks : ToPersist(ses'[j][r], w, n)
      BY <1>2, <1>3, <1>4, <1>5, <2>6
         DEF OnTheWay, ToPreflight, ToPersist, KeepsBooks, Leaving, Gone
    <3> QED
      BY <1>3, <3>1 DEF OnTheWay, Consensus
  <2>7. CASE ~F /\ round = "persist" /\ Ranks # {}
    <3> DEFINE v == Claimed(w, Selected(w, n))
    <3>1. v \in Kept
      BY ClaimedIsKept
    <3>2. \A r \in Ranks : ses[j][r].before = w /\ ses[j][r].iter = n
      BY <1>3, <1>4, <2>7 DEF OnTheWay, ToPersist, Leaving, Gone
    <3>3. \A r \in Ranks : ses[j][r].journal = v
      BY <1>4, <1>6, <2>7, <3>2 DEF Books
    <3>4. \A r \in Ranks : /\ ses'[j][r].at = "activate" /\ ses'[j][r].journal = v
                           /\ ses'[j][r].before = w /\ ses'[j][r].iter = n
      BY <1>2, <1>5, <2>7, <3>2, <3>3 DEF KeepsBooks
    <3>5. \A r, q \in Ranks :
            RequiresActivationConsensus(ses'[j][r]) <=> RequiresActivationConsensus(ses'[j][q])
      BY <3>4 DEF RequiresActivationConsensus
    <3>6. PICK q \in Ranks : TRUE
      BY <2>7
    <3> HIDE DEF v
    <3>7. CASE RequiresActivationConsensus(ses'[j][q])
      <4>1. \A r \in Ranks : ToArm(ses'[j][r], v, w, n)
        BY <3>4, <3>5, <3>7 DEF ToArm
      <4> QED
        BY <1>3, <3>1, <4>1 DEF OnTheWay, Consensus
    <3>8. CASE ~RequiresActivationConsensus(ses'[j][q])
      <4>1. \A r \in Ranks : ToPrepare(ses'[j][r], v, n)
        BY <3>4, <3>5, <3>8 DEF ToPrepare
      <4> QED
        BY <1>3, <3>1, <4>1 DEF OnTheWay, Consensus
    <3> QED
      BY <3>7, <3>8
  <2>8. CASE ~F /\ round = "arm"
    <3>1. \A r \in Ranks : ToPrepare(ses'[j][r], w, n)
      BY <1>2, <1>3, <1>4, <1>5, <2>8
         DEF OnTheWay, ToArm, ToPrepare, KeepsBooks, Leaving, Gone
    <3> QED
      BY <1>3, <3>1 DEF OnTheWay, Consensus
  <2>9. CASE ~F /\ round = "prepare"
    <3>1. \A r \in Ranks : /\ ses'[j][r].at = "enter" /\ ses'[j][r].journal = w
                           /\ ses'[j][r].iter = n + 1
      BY <1>2, <1>3, <1>4, <1>5, <1>6, <2>9 DEF OnTheWay, ToPrepare, KeepsBooks, Leaving, Gone
    <3>2. CASE Candidates(w, n + 1) = {}
      <4>1. \A r \in Ranks : ToPrepare(ses'[j][r], w, n + 1)
        BY <3>1, <3>2 DEF ToPrepare
      <4>2. \A r \in Ranks : OnTheWay(ses'[j][r], "prepare", w, b, n + 1)
        BY <4>1 DEF OnTheWay
      <4>3. "prepare" \in Consensus /\ n + 1 \in Nat
        BY <1>3 DEF Consensus
      <4> QED
        BY <1>3, <4>2, <4>3
    <3>3. CASE Candidates(w, n + 1) # {}
      <4>1. \A r \in Ranks : ToPreflight(ses'[j][r], w, n + 1)
        BY <3>1, <3>3 DEF ToPreflight
      <4>2. \A r \in Ranks : OnTheWay(ses'[j][r], "preflight", w, b, n + 1)
        BY <4>1 DEF OnTheWay
      <4>3. "preflight" \in Consensus /\ n + 1 \in Nat
        BY <1>3 DEF Consensus
      <4> QED
        BY <1>3, <4>2, <4>3
    <3> QED
      BY <3>2, <3>3
  <2>10. round \in {"enable", "binding", "preflight", "persist", "restored", "arm", "prepare"}
    BY <1>3 DEF Consensus
  <2> HIDE DEF F, Onward
  <2> QED
    BY <2>1, <2>2, <2>3, <2>4, <2>5, <2>6, <2>7, <2>8, <2>9, <2>10
<1>9. PICK place \in Consensus, v \in Kept, u \in Kept, m \in Nat :
        \A r \in Ranks : OnTheWay(ses'[j][r], place, v, u, m)
  BY <1>8
<1> HIDE DEF F, Onward
<1>10. InStep(j)'
  BY <1>1, <1>9 DEF InStep
<1> QED
  BY <1>7, <1>10

-----------------------------------------------------------------------------
LEMMA JobsAreFinite ==
  ASSUME CampaignTypes
  PROVE  IsFiniteSet(Jobs)
<1>1. MaxJobs \in Nat
  BY CampaignAssumption DEF CampaignTypes, MaxJobs
<1> QED
  BY <1>1, FS_Interval DEF Jobs

(* The jobs are counted one by one.                                        *)
LEMMA CountJobs ==
  ASSUME CampaignTypes, NEW j \in Jobs, NEW D \in SUBSET Jobs
  PROVE  /\ IsFiniteSet(D) /\ Cardinality(D) \in Nat /\ Cardinality(D \ {j}) \in Nat
         /\ Cardinality(D) = Cardinality(D \ {j}) + (IF j \in D THEN 1 ELSE 0)
<1>1. IsFiniteSet(Jobs)
  BY JobsAreFinite
<1>2. IsFiniteSet(D) /\ IsFiniteSet(D \ {j})
  BY <1>1, FS_Subset
<1>3. Cardinality(D) \in Nat /\ Cardinality(D \ {j}) \in Nat
  BY <1>2, FS_CardinalityType
<1>4. Cardinality(D \ {j}) = IF j \in D THEN Cardinality(D) - 1 ELSE Cardinality(D)
  BY <1>2, FS_RemoveElement
<1> DEFINE all == Cardinality(D)
           others == Cardinality(D \ {j})
<1>5. all = others + (IF j \in D THEN 1 ELSE 0)
  <2>1. all \in Nat /\ others \in Nat /\ others = IF j \in D THEN all - 1 ELSE all
    BY <1>3, <1>4
  <2> HIDE DEF all, others
  <2> QED
    BY <2>1
<1> QED
  BY <1>2, <1>3, <1>5

LEMMA SameDebt ==
  ASSUME UNCHANGED fixed
  PROVE  \A f, r, q, o : Owed(f, r, q, o)' <=> Owed(f, r, q, o)
BY SameCampaign DEF Owed

Owes(f, r, q, o) == IF Owed(f, r, q, o) THEN 1 ELSE 0

(* A step of one job keeps the accounts if it pays for what it applies and *)
(* owes.                                                                   *)
LEMMA ClaimsBalance ==
  ASSUME CampaignTypes, CampaignTypes', UNCHANGED fixed, NEW j \in Jobs,
         \A k \in Jobs, r \in Ranks : k # j => ses'[k][r] = ses[k][r],
         Claims,
         \A r, q \in Ranks, o \in Occurrences :
           fired'[r][o] + Owes(ses'[j], r, q, o) + store[q].attempts[o]
             <= fired[r][o] + Owes(ses[j], r, q, o) + store'[q].attempts[o]
  PROVE  Claims'
<1>1. /\ Jobs' = Jobs /\ Occurrences' = Occurrences /\ Kept' = Kept /\ Journals' = Journals
      /\ \A f, r, q, o : Owed(f, r, q, o)' <=> Owed(f, r, q, o)
  BY SameCampaign, SameMeaning, SameDebt
<1> SUFFICES ASSUME NEW r \in Ranks, NEW q \in Ranks, NEW o \in Occurrences
             PROVE  fired'[r][o] + Cardinality(Debts(r, q, o)') <= store'[q].attempts[o]
  BY <1>1 DEF Claims
<1> DEFINE D == Debts(r, q, o)
           E == {k \in Jobs : Owed(ses'[k], r, q, o)}
<1>2. Debts(r, q, o)' = E
  BY <1>1 DEF Debts
<1>3. D \ {j} = E \ {j}
  <2>1. \A k \in Jobs : k # j => (Owed(ses'[k], r, q, o) <=> Owed(ses[k], r, q, o))
    BY DEF Owed
  <2> QED
    BY <2>1 DEF Debts
<1>4. /\ j \in D <=> Owed(ses[j], r, q, o)
      /\ j \in E <=> Owed(ses'[j], r, q, o)
      /\ D \in SUBSET Jobs /\ E \in SUBSET Jobs
  BY SMTT(30) DEF Debts
<1> HIDE DEF D, E
<1>5. /\ Cardinality(D \ {j}) \in Nat
      /\ Cardinality(D) = Cardinality(D \ {j}) + Owes(ses[j], r, q, o)
      /\ Cardinality(E) = Cardinality(D \ {j}) + Owes(ses'[j], r, q, o)
  <2>1. /\ Cardinality(D \ {j}) \in Nat
        /\ Cardinality(D) = Cardinality(D \ {j}) + (IF j \in D THEN 1 ELSE 0)
    BY <1>4, CountJobs
  <2>2. Cardinality(E) = Cardinality(E \ {j}) + (IF j \in E THEN 1 ELSE 0)
    BY <1>4, CountJobs
  <2>3. /\ Owes(ses[j], r, q, o) = IF j \in D THEN 1 ELSE 0
        /\ Owes(ses'[j], r, q, o) = IF j \in E THEN 1 ELSE 0
    BY <1>4 DEF Owes
  <2> QED
    BY <1>3, <2>1, <2>2, <2>3
<1>6. fired[r][o] + Cardinality(D) <= store[q].attempts[o]
  BY DEF Claims, D
<1>7. /\ fired[r][o] \in Nat /\ store[q].attempts[o] \in Nat
      /\ fired'[r][o] \in Nat /\ store'[q].attempts[o] \in Nat
      /\ Owes(ses[j], r, q, o) \in Nat /\ Owes(ses'[j], r, q, o) \in Nat
  BY <1>1 DEF CampaignTypes, Kept, Journals, Owes
<1>8. fired'[r][o] + Owes(ses'[j], r, q, o) + store[q].attempts[o]
        <= fired[r][o] + Owes(ses[j], r, q, o) + store'[q].attempts[o]
  OBVIOUS
<1> HIDE DEF Owes
<1> QED
  BY <1>2, <1>5, <1>6, <1>7, <1>8

(* A step that neither claims, takes back nor applies.                     *)
LEMMA OtherClaims ==
  ASSUME CampaignTypes, CampaignTypes', NEW j \in Jobs, NEW r \in Ranks, Moves(j, r),
         Claims, fired' = fired, \A q \in Ranks : store'[q].attempts = store[q].attempts,
         ses'[j][r].at \notin {"persist", "restore", "activate"}
  PROVE  Claims'
<1>1. ASSUME NEW x \in Ranks, NEW q \in Ranks, NEW o \in Occurrences
      PROVE  fired'[x][o] + Owes(ses'[j], x, q, o) + store[q].attempts[o]
               <= fired[x][o] + Owes(ses[j], x, q, o) + store'[q].attempts[o]
  <2>1. Owed(ses'[j], x, q, o) => Owed(ses[j], x, q, o)
    BY DEF Owed, Moves
  <2>2. fired[x][o] \in Nat /\ store[q].attempts[o] \in Nat
    BY DEF CampaignTypes, Kept, Journals
  <2> QED
    BY <2>1, <2>2 DEF Owes
<1> QED
  BY <1>1, ClaimsBalance DEF Moves

LEMMA StageClaims ==
  ASSUME CampaignTypes, NEW j \in Jobs, NEW r \in Ranks, NEW outcome \in SwapOutcomes,
         Stage(j, r, outcome), Claims
  PROVE  Claims'
<1> DEFINE s == ses[j][r]
           t == ses'[j][r]
           S == Selected(s.journal, s.iter)
<1>1. /\ CampaignTypes' /\ Moves(j, r) /\ UNCHANGED effects
      /\ t.at = "persist" /\ t.iter = s.iter /\ t.before = s.journal
      /\ \A q \in Ranks : q # r => store'[q] = store[q]
      /\ \A o \in Occurrences :
           store'[r].attempts[o] >=
             store[r].attempts[o] + (IF ~t.err /\ o \in S THEN 1 ELSE 0)
  BY StageStep
<1>2. ASSUME NEW x \in Ranks, NEW q \in Ranks, NEW o \in Occurrences
      PROVE  fired'[x][o] + Owes(ses'[j], x, q, o) + store[q].attempts[o]
               <= fired[x][o] + Owes(ses[j], x, q, o) + store'[q].attempts[o]
  <2>1. /\ fired'[x][o] = fired[x][o] /\ fired[x][o] \in Nat
        /\ store[q].attempts[o] \in Nat /\ store'[q].attempts[o] \in Nat
    BY <1>1, SameCampaign, SameMeaning DEF CampaignTypes, Kept, Journals, effects, Moves
  <2>2. CASE q # r
    <3>1. Owed(ses'[j], x, q, o) => Owed(ses[j], x, q, o)
      BY <1>1, <2>2 DEF Owed, Moves
    <3>2. store'[q].attempts[o] = store[q].attempts[o]
      BY <1>1, <2>2
    <3> QED
      BY <2>1, <3>1, <3>2 DEF Owes
  <2>3. CASE q = r
    <3>1. Owed(ses'[j], x, q, o) => Owed(ses[j], x, q, o) \/ (~t.err /\ o \in S)
      BY <1>1, <2>3 DEF Owed, Moves
    <3>2. store'[q].attempts[o] >=
            store[q].attempts[o] + (IF ~t.err /\ o \in S THEN 1 ELSE 0)
      BY <1>1, <2>3
    <3> QED
      BY <2>1, <3>1, <3>2 DEF Owes
  <2> QED
    BY <2>2, <2>3
<1> QED
  BY <1>1, <1>2, ClaimsBalance DEF Moves

(* Taking a claim back: no rank of the job applies anything any more.      *)
LEMMA RestoreClaims ==
  ASSUME CampaignTypes, NEW j \in Jobs, NEW r \in Ranks, NEW outcome \in SwapOutcomes,
         Restore(j, r, outcome), Claims, InStep(j), Books(ses[j][r])
  PROVE  Claims'
<1> DEFINE s == ses[j][r]
           t == ses'[j][r]
           S == Selected(s.before, s.iter)
<1>1. /\ CampaignTypes' /\ Moves(j, r) /\ UNCHANGED effects
      /\ s.at = "restore" /\ t.at = "restored"
      /\ \A q \in Ranks : q # r => store'[q] = store[q]
      /\ \/ store'[r] = store[r]
         \/ store[r] = s.journal /\ store'[r] = s.before
  BY RestoreStep
<1>2. /\ s \in Session /\ s.before \in Kept
      /\ s.journal = IF s.err THEN s.before ELSE Claimed(s.before, S)
  BY <1>1 DEF CampaignTypes, Session, Books
<1>3. \A o \in Occurrences : Claimed(s.before, S).attempts[o] =
        IF o \in S THEN s.before.attempts[o] + 1 ELSE s.before.attempts[o]
  BY <1>2, ClaimedIsKept
<1>4. \A x \in Ranks : ses[j][x].at # "activate"
  <2>1. PICK round \in Consensus, w \in Kept, b \in Kept, n \in Nat :
          \A q \in Ranks : OnTheWay(ses[j][q], round, w, b, n)
    BY DEF InStep
  <2>2. round = "restored"
    BY <1>1, <1>2, <2>1, WayOf
  <2> SUFFICES ASSUME NEW x \in Ranks, ses[j][x].at = "activate" PROVE FALSE
    OBVIOUS
  <2>3. ses[j][x] \in Session
    BY DEF CampaignTypes
  <2> QED
    BY <2>1, <2>2, <2>3, WayOf
<1>5. ASSUME NEW x \in Ranks, NEW q \in Ranks, NEW o \in Occurrences
      PROVE  fired'[x][o] + Owes(ses'[j], x, q, o) + store[q].attempts[o]
               <= fired[x][o] + Owes(ses[j], x, q, o) + store'[q].attempts[o]
  <2>1. /\ fired'[x][o] = fired[x][o] /\ fired[x][o] \in Nat
        /\ store[q].attempts[o] \in Nat /\ store'[q].attempts[o] \in Nat
        /\ s.before.attempts[o] \in Nat
    BY <1>1, <1>2, SameCampaign, SameMeaning DEF CampaignTypes, Kept, Journals, effects, Moves
  <2>2. CASE q # r
    <3>1. Owed(ses'[j], x, q, o) => Owed(ses[j], x, q, o)
      BY <1>1, <2>2 DEF Owed, Moves
    <3>2. store'[q].attempts[o] = store[q].attempts[o]
      BY <1>1, <2>2
    <3> QED
      BY <2>1, <3>1, <3>2 DEF Owes
  <2>3. CASE q = r
    <3>1. ~Owed(ses'[j], x, q, o)
      BY <1>1, <1>4, <2>3 DEF Owed, Moves
    <3>2. ~s.err /\ o \in S => Owed(ses[j], x, q, o)
      BY <1>1, <2>3 DEF Owed
    <3>3. \/ store'[q].attempts[o] = store[q].attempts[o]
          \/ /\ store'[q].attempts[o] = s.before.attempts[o]
             /\ store[q].attempts[o] =
                  IF ~s.err /\ o \in S THEN s.before.attempts[o] + 1 ELSE s.before.attempts[o]
      BY <1>1, <1>2, <1>3, <2>3
    <3> QED
      BY <2>1, <3>1, <3>2, <3>3 DEF Owes
  <2> QED
    BY <2>2, <2>3
<1> QED
  BY <1>1, <1>5, ClaimsBalance DEF Moves

(* Applying what is owed: when a rank does, no rank of the job takes its   *)
(* claim back any more.                                                    *)
LEMMA ActivateClaims ==
  ASSUME CampaignTypes, CampaignTypes', NEW j \in Jobs, NEW r \in Ranks, Moves(j, r),
         Applies(j, r), UNCHANGED store, ses[j][r].at = "activate",
         ses'[j][r].at \in {"arm", "train", "cleanup"}, Claims, InStep(j)
  PROVE  Claims'
<1>1. \A q \in Ranks : ses[j][q].at \notin {"persist", "restore"}
  <2>1. PICK round \in Consensus, w \in Kept, b \in Kept, n \in Nat :
          \A q \in Ranks : OnTheWay(ses[j][q], round, w, b, n)
    BY DEF InStep
  <2>2. \A q \in Ranks : ses[j][q] \in Session
    BY DEF CampaignTypes
  <2>3. round \in {"arm", "prepare"}
    BY <2>1, <2>2, WayOf
  <2> SUFFICES ASSUME NEW q \in Ranks, ses[j][q].at \in {"persist", "restore"} PROVE FALSE
    OBVIOUS
  <2> QED
    BY <2>1, <2>2, <2>3, WayOf
<1>2. ASSUME NEW x \in Ranks, NEW q \in Ranks, NEW o \in Occurrences
      PROVE  fired'[x][o] + Owes(ses'[j], x, q, o) + store[q].attempts[o]
               <= fired[x][o] + Owes(ses[j], x, q, o) + store'[q].attempts[o]
  <2>1. /\ fired[x][o] \in Nat /\ store[q].attempts[o] \in Nat /\ store' = store
    BY DEF CampaignTypes, Kept, Journals
  <2>2. CASE x # r
    <3>1. Owed(ses'[j], x, q, o) => Owed(ses[j], x, q, o)
      BY <2>2 DEF Owed, Moves
    <3>2. fired'[x][o] = fired[x][o]
      BY <2>2 DEF Applies
    <3> QED
      BY <2>1, <3>1, <3>2 DEF Owes
  <2>3. CASE x = r
    <3>1. ~Owed(ses'[j], x, q, o)
      BY <1>1, <2>3 DEF Owed, Moves
    <3>2. o \in Mine(j, r) => Owed(ses[j], x, q, o)
      BY <2>3 DEF Owed, Mine
    <3>3. fired'[x][o] = fired[x][o] \/ (o \in Mine(j, r) /\ fired'[x][o] = fired[x][o] + 1)
      BY <2>3 DEF Applies
    <3> QED
      BY <2>1, <3>1, <3>2, <3>3 DEF Owes
  <2> QED
    BY <2>2, <2>3
<1> QED
  BY <1>2, ClaimsBalance DEF Moves

(* After a round in which no rank has failed, all have claimed the same.   *)
LEMMA RoundClaims ==
  ASSUME CampaignTypes, NEW j \in Jobs, Round(j), Claims, InStep(j)
  PROVE  Claims'
<1>1. /\ CampaignTypes' /\ UNCHANGED fixed /\ UNCHANGED <<store, effects>>
      /\ \A k \in Jobs, r \in Ranks : k # j => ses'[k][r] = ses[k][r]
      /\ \A r \in Ranks :
           LET s == ses[j][r]  t == ses'[j][r]
           IN  /\ s.at \in Consensus /\ t.at = AfterRound(s, RoundFails(j))
               /\ KeepsBooks(s, t) /\ t.err = s.err
  BY RoundStep
<1>2. PICK round \in Consensus, w \in Kept, b \in Kept, n \in Nat :
        \A r \in Ranks : OnTheWay(ses[j][r], round, w, b, n)
  BY DEF InStep
<1>3. \A r \in Ranks : ses[j][r] \in Session /\ ses[j][r].at = round
  BY <1>1, <1>2, WayOf DEF CampaignTypes
<1>4. \A r \in Ranks :
        /\ ses'[j][r].at \in {"activate", "restore"} => round = "persist"
        /\ ses'[j][r].at = "activate" => ~RoundFails(j)
        /\ ses'[j][r].at # "persist"
  BY <1>1, <1>3 DEF AfterRound
<1>5. ASSUME NEW x \in Ranks, NEW q \in Ranks, NEW o \in Occurrences
      PROVE  fired'[x][o] + Owes(ses'[j], x, q, o) + store[q].attempts[o]
               <= fired[x][o] + Owes(ses[j], x, q, o) + store'[q].attempts[o]
  <2>1. /\ fired'[x][o] = fired[x][o] /\ fired[x][o] \in Nat
        /\ store' = store /\ store[q].attempts[o] \in Nat
    BY <1>1 DEF CampaignTypes, Kept, Journals, effects
  <2>2. ASSUME Owed(ses'[j], x, q, o) PROVE Owed(ses[j], x, q, o)
    <3>1. CASE /\ ses'[j][q].at = "restore" /\ ~ses'[j][q].err
               /\ o \in Selected(ses'[j][q].before, ses'[j][q].iter)
      BY <1>1, <1>3, <1>4, <3>1 DEF Owed, KeepsBooks
    <3>2. CASE /\ ses'[j][x].at = "activate"
               /\ o \in Selected(ses'[j][x].before, ses'[j][x].iter)
      <4>1. round = "persist" /\ ~ses[j][q].err
        BY <1>4, <3>2 DEF RoundFails
      <4>2. /\ ses[j][q].before = w /\ ses[j][q].iter = n
            /\ ses[j][x].before = w /\ ses[j][x].iter = n
        BY <1>2, <1>3, <4>1, WayOf DEF ToPersist
      <4> QED
        BY <1>1, <1>3, <3>2, <4>1, <4>2 DEF Owed, KeepsBooks
    <3> QED
      BY <1>4, <2>2, <3>1, <3>2 DEF Owed
  <2> QED
    BY <2>1, <2>2 DEF Owes
<1> QED
  BY <1>1, <1>5, ClaimsBalance

-----------------------------------------------------------------------------
(* Effects, restated for a session after a step.                           *)
LEMMA EffectsAfter ==
  ASSUME CampaignTypes, CampaignTypes', UNCHANGED fixed, NEW j \in Jobs, NEW r \in Ranks,
         LET t == ses'[j][r]
         IN  /\ Sound(t) =>
                  /\ \A o \in Occurrences :
                       \/ o[2] > t.iter
                       \/ o[2] = t.iter /\ t.at \in BeforeActivation
                       \/ t.at = "off"
                       => /\ o \notin t.active /\ o \notin on'[j][r]
                          /\ record'[j][r][o] = "none" /\ held'[j][r][o] = 0
                  /\ \A o \in t.active : Bounded(o) =>
                       /\ o[2] <= t.iter /\ t.iter <= o[2] + Incident(o).iterations - 1
                       /\ o \in on'[j][r] /\ held'[j][r][o] = t.iter - o[2]
             /\ \A o \in Occurrences :
                  record'[j][r][o] = "completed" /\ Bounded(o) /\ ~MayBeInline(o) =>
                    o \notin on'[j][r] /\ held'[j][r][o] = Incident(o).iterations
             /\ on'[j][r] \subseteq t.active \cup t.stuck
             /\ t.at \in Gone => t.active = {}
  PROVE  Effects(j, r)'
<1>1. /\ Occurrences' = Occurrences
      /\ \A o : Incident(o)' = Incident(o)
      /\ \A o : Bounded(o)' <=> Bounded(o)
      /\ \A o : MayBeInline(o)' <=> MayBeInline(o)
  BY SameCampaign, SameMeaning
<1>2. NoTraceAhead(j, r)'
  BY <1>1, SMTT(30) DEF NoTraceAhead, Untouched, Sound
<1>3. RunsSinceTrigger(j, r)'
  BY <1>1 DEF RunsSinceTrigger, Sound
<1>4. CompletedIsOff(j, r)'
  BY <1>1 DEF CompletedIsOff
<1>5. Owned(j, r)'
  BY DEF Owned
<1> QED
  BY <1>2, <1>3, <1>4, <1>5 DEF Effects

LEMMA EffectsElsewhere ==
  ASSUME CampaignTypes, CampaignTypes', UNCHANGED fixed, NEW k \in Jobs, NEW q \in Ranks,
         ses'[k][q] = ses[k][q], on'[k][q] = on[k][q], held'[k][q] = held[k][q],
         record'[k][q] = record[k][q], Effects(k, q)
  PROVE  Effects(k, q)'
<1> USE DEF Effects
<1>1. NoTraceAhead(k, q) /\ Sound(ses[k][q]) =>
        \A o \in Occurrences :
          \/ o[2] > ses[k][q].iter
          \/ o[2] = ses[k][q].iter /\ ses[k][q].at \in BeforeActivation
          \/ ses[k][q].at = "off"
          => /\ o \notin ses[k][q].active /\ o \notin on[k][q]
             /\ record[k][q][o] = "none" /\ held[k][q][o] = 0
  BY SMTT(30) DEF NoTraceAhead, Untouched
<1>2. RunsSinceTrigger(k, q) /\ Sound(ses[k][q]) =>
        \A o \in ses[k][q].active : Bounded(o) =>
          /\ o[2] <= ses[k][q].iter /\ ses[k][q].iter <= o[2] + Incident(o).iterations - 1
          /\ o \in on[k][q] /\ held[k][q][o] = ses[k][q].iter - o[2]
  BY DEF RunsSinceTrigger
<1> HIDE DEF Effects
<1> QED
  BY <1>1, <1>2, EffectsAfter, SMTT(30) DEF Effects, CompletedIsOff, Owned

(* Steps that end effects, in the iteration in which they were.            *)
LEMMA EndsEffects ==
  ASSUME CampaignTypes, CampaignTypes', UNCHANGED fixed, NEW j \in Jobs, NEW r \in Ranks,
         Ends(j, r), Effects(j, r), ses'[j][r].at \in Gone => ses'[j][r].active = {},
         \/ ses'[j][r].at \in Leaving
         \/ /\ ses'[j][r].iter = ses[j][r].iter /\ held' = held /\ Sound(ses[j][r])
            /\ ses'[j][r].at \in BeforeActivation => ses[j][r].at \in BeforeActivation
            /\ ses'[j][r].at # "off"
  PROVE  Effects(j, r)'
<1> DEFINE s == ses[j][r]
           t == ses'[j][r]
<1>1. /\ on[j][r] \subseteq Occurrences /\ s.active \subseteq Occurrences
      /\ t.active \subseteq s.active
      /\ on[j][r] \subseteq s.active \cup s.stuck
  BY DEF CampaignTypes, Session, Ends, Effects, Owned
<1>2. on'[j][r] \subseteq t.active \cup t.stuck
  BY <1>1 DEF Ends
<1>3. ASSUME NEW o \in Occurrences,
             record'[j][r][o] = "completed", Bounded(o), ~MayBeInline(o)
      PROVE  o \notin on'[j][r] /\ held'[j][r][o] = Incident(o).iterations
  BY <1>3 DEF Ends, Effects, CompletedIsOff
<1>4. CASE t.at \in Leaving
  BY <1>2, <1>3, <1>4, EffectsAfter DEF Sound
<1>5. CASE /\ t.iter = s.iter /\ held' = held /\ Sound(s)
           /\ t.at \in BeforeActivation => s.at \in BeforeActivation
           /\ t.at # "off"
  <2>1. ASSUME NEW o \in Occurrences,
               o[2] > t.iter \/ (o[2] = t.iter /\ t.at \in BeforeActivation)
        PROVE  /\ o \notin t.active /\ o \notin on'[j][r]
               /\ record'[j][r][o] = "none" /\ held'[j][r][o] = 0
    <3>1. Untouched(j, r, o)
      BY <1>5, <2>1 DEF Effects, NoTraceAhead
    <3> QED
      BY <1>1, <1>5, <3>1 DEF Untouched, Ends
  <2>2. ASSUME NEW o \in t.active, Bounded(o)
        PROVE  /\ o[2] <= t.iter /\ t.iter <= o[2] + Incident(o).iterations - 1
               /\ o \in on'[j][r] /\ held'[j][r][o] = t.iter - o[2]
    <3>1. /\ o[2] <= s.iter /\ s.iter <= o[2] + Incident(o).iterations - 1
          /\ o \in on[j][r] /\ held[j][r][o] = s.iter - o[2]
      BY <1>1, <1>5, <2>2 DEF Effects, RunsSinceTrigger
    <3> QED
      BY <1>5, <2>2, <3>1 DEF Ends
  <2> QED
    BY <1>2, <1>3, <1>5, <2>1, <2>2, EffectsAfter
<1> QED
  BY <1>4, <1>5

LEMMA NothingEnds ==
  ASSUME NEW j \in Jobs, NEW r \in Ranks, UNCHANGED effects,
         ses'[j][r].active = ses[j][r].active, ses'[j][r].stuck = ses[j][r].stuck
  PROVE  Ends(j, r)
BY DEF Ends, effects

LEMMA PrepareEffects ==
  ASSUME CampaignTypes, CampaignTypes', UNCHANGED fixed, NEW j \in Jobs, NEW r \in Ranks,
         UNCHANGED effects, Effects(j, r), ses[j][r].at = "off", ses'[j][r].at = "enable",
         ses'[j][r].active = {}
  PROVE  Effects(j, r)'
<1> DEFINE s == ses[j][r]
           t == ses'[j][r]
<1>1. \A o \in Occurrences : Untouched(j, r, o)
  BY DEF Effects, NoTraceAhead, Sound, Leaving, Gone
<1>2. on[j][r] = {}
  BY <1>1 DEF CampaignTypes, Untouched
<1>3. \A o \in Occurrences : o \notin t.active /\ o \notin on'[j][r]
        /\ record'[j][r][o] = "none" /\ held'[j][r][o] = 0
  BY <1>1, <1>2 DEF Untouched, effects
<1> QED
  BY <1>2, <1>3, EffectsAfter DEF effects, Gone

LEMMA BeginsEffects ==
  ASSUME CampaignTypes, CampaignTypes', UNCHANGED <<fixed, held>>,
         NEW j \in Jobs, NEW r \in Ranks,
         Begins(j, r), Effects(j, r), ses[j][r].at = "activate",
         ses'[j][r].at \in {"arm", "train", "cleanup"}, ses'[j][r].iter = ses[j][r].iter
  PROVE  Effects(j, r)'
<1> DEFINE s == ses[j][r]
           t == ses'[j][r]
<1>1. /\ on[j][r] \subseteq s.active \cup s.stuck /\ s.iter \in Nat
      /\ s.active \subseteq Occurrences
  BY DEF CampaignTypes, Session, Effects, Owned
<1>2. PICK A \in SUBSET {o \in Occurrences : o[2] = s.iter},
           K \in SUBSET {o \in Occurrences : o[2] = s.iter} :
        /\ t.active = s.active \cup A /\ t.stuck = s.stuck \cup K
        /\ on'[j][r] = on[j][r] \cup A \cup K
        /\ \A o \in A \cup K : record'[j][r][o] # "completed"
  BY DEF Begins
<1>3. \A o \in Occurrences : o[2] >= s.iter => Untouched(j, r, o)
  <2> SUFFICES ASSUME NEW o \in Occurrences, o[2] >= s.iter PROVE Untouched(j, r, o)
    OBVIOUS
  <2>1. o[2] \in Nat
    BY LifetimeIsOne
  <2>2. o[2] > s.iter \/ o[2] = s.iter
    BY <1>1, <2>1
  <2>3. Sound(s)
    BY DEF Sound, Leaving, Gone
  <2> QED
    BY <2>2, <2>3 DEF Effects, NoTraceAhead, BeforeActivation
<1>4. ASSUME NEW o \in Occurrences, o[2] > t.iter
      PROVE  /\ o \notin t.active /\ o \notin on'[j][r]
             /\ record'[j][r][o] = "none" /\ held'[j][r][o] = 0
  <2>1. o[2] \in Nat
    BY LifetimeIsOne
  <2>2. Untouched(j, r, o) /\ o \notin A /\ o \notin K
    BY <1>1, <1>2, <1>3, <1>4, <2>1
  <2>3. record'[j][r][o] = record[j][r][o]
    BY <1>1, <1>4, <2>1 DEF Begins
  <2> QED
    BY <1>2, <2>2, <2>3 DEF Untouched
<1>5. ASSUME NEW o \in t.active, Bounded(o)
      PROVE  /\ o[2] <= t.iter /\ t.iter <= o[2] + Incident(o).iterations - 1
             /\ o \in on'[j][r] /\ held'[j][r][o] = t.iter - o[2]
  <2>1. CASE o \in s.active
    <3>1. /\ o[2] <= s.iter /\ s.iter <= o[2] + Incident(o).iterations - 1
          /\ o \in on[j][r] /\ held[j][r][o] = s.iter - o[2]
      BY <1>5, <2>1 DEF Effects, RunsSinceTrigger, Sound, Leaving, Gone
    <3> QED
      BY <1>2, <3>1
  <2>2. CASE o \in A
    <3>1. o \in Occurrences /\ o[2] = s.iter /\ Untouched(j, r, o)
      BY <1>1, <1>2, <1>3, <2>2
    <3>2. Incident(o).iterations \in Nat /\ Incident(o).iterations > 0
      BY <1>5, <3>1, LifetimeIsOne DEF Bounded
    <3> QED
      BY <1>1, <1>2, <2>2, <3>1, <3>2 DEF Untouched
  <2> QED
    BY <1>2, <1>5, <2>1, <2>2
<1>6. ASSUME NEW o \in Occurrences,
             record'[j][r][o] = "completed", Bounded(o), ~MayBeInline(o)
      PROVE  o \notin on'[j][r] /\ held'[j][r][o] = Incident(o).iterations
  <2>1. record[j][r][o] = "completed" /\ o \notin A /\ o \notin K
    BY <1>2, <1>6 DEF Begins
  <2> QED
    BY <1>2, <1>6, <2>1 DEF Effects, CompletedIsOff
<1>7. on'[j][r] \subseteq t.active \cup t.stuck /\ t.at \notin BeforeActivation
        /\ t.at # "off" /\ t.at \notin Gone
  BY <1>1, <1>2 DEF BeforeActivation, Gone
<1> QED
  BY <1>4, <1>5, <1>6, <1>7, EffectsAfter

LEMMA StepCompleteEffects ==
  ASSUME CampaignTypes, CampaignTypes', UNCHANGED fixed, NEW j \in Jobs, NEW r \in Ranks,
         Ends(j, r), Effects(j, r), ses[j][r].at = "train",
         LET s == ses[j][r]  t == ses'[j][r]
         IN  /\ t.at \in {"prepare", "cleanup", "enter"} /\ (t.at = "enter" => ~t.err)
             /\ ~t.err =>
                  /\ t.iter = s.iter + 1
                  /\ \A o \in on[j][r] : held'[j][r][o] = held[j][r][o] + 1
                  /\ \A o \in t.active : Bounded(o) => s.iter < o[2] + Incident(o).iterations - 1
  PROVE  Effects(j, r)'
<1> DEFINE s == ses[j][r]
           t == ses'[j][r]
<1>1. /\ on[j][r] \subseteq s.active \cup s.stuck /\ s.iter \in Nat
      /\ s.active \subseteq Occurrences /\ t.active \subseteq s.active
  BY DEF CampaignTypes, Session, Effects, Owned, Ends
<1>2. on'[j][r] \subseteq t.active \cup t.stuck
  BY <1>1 DEF Ends
<1>3. ASSUME NEW o \in Occurrences,
             record'[j][r][o] = "completed", Bounded(o), ~MayBeInline(o)
      PROVE  o \notin on'[j][r] /\ held'[j][r][o] = Incident(o).iterations
  BY <1>3 DEF Ends, Effects, CompletedIsOff
<1>4. Sound(s) /\ (Sound(t) => t.iter = s.iter + 1 /\ ~t.err) /\ t.at # "off" /\ t.at \notin Gone
  BY DEF Sound, Leaving, Gone
<1>5. ASSUME NEW o \in Occurrences, Sound(t),
             o[2] > t.iter \/ (o[2] = t.iter /\ t.at \in BeforeActivation)
      PROVE  /\ o \notin t.active /\ o \notin on'[j][r]
             /\ record'[j][r][o] = "none" /\ held'[j][r][o] = 0
  <2>1. o[2] \in Nat
    BY LifetimeIsOne
  <2>2. o[2] > s.iter
    BY <1>1, <1>4, <1>5, <2>1
  <2>3. Untouched(j, r, o)
    BY <1>4, <2>2 DEF Effects, NoTraceAhead
  <2> QED
    BY <1>1, <2>3 DEF Untouched, Ends
<1>6. ASSUME NEW o \in t.active, Sound(t), Bounded(o)
      PROVE  /\ o[2] <= t.iter /\ t.iter <= o[2] + Incident(o).iterations - 1
             /\ o \in on'[j][r] /\ held'[j][r][o] = t.iter - o[2]
  <2>1. o \in Occurrences /\ o[2] \in Nat /\ Incident(o).iterations \in Nat
    BY <1>1, LifetimeIsOne
  <2>2. /\ o[2] <= s.iter /\ o \in on[j][r] /\ held[j][r][o] = s.iter - o[2]
    BY <1>1, <1>4, <1>6 DEF Effects, RunsSinceTrigger
  <2>3. o \in on'[j][r]
    BY <1>6, <2>2 DEF Ends
  <2>4. /\ t.iter = s.iter + 1 /\ held'[j][r][o] = held[j][r][o] + 1
        /\ s.iter < o[2] + Incident(o).iterations - 1
    BY <1>4, <1>6, <2>2
  <2> QED
    BY <1>1, <2>1, <2>2, <2>3, <2>4
<1> QED
  BY <1>2, <1>3, <1>4, <1>5, <1>6, EffectsAfter

-----------------------------------------------------------------------------
CampaignInv ==
  /\ CampaignTypes
  /\ \A j \in Jobs : InStep(j)
  /\ \A j \in Jobs, r \in Ranks : Books(ses[j][r]) /\ Effects(j, r)
  /\ Claims

LEMMA CampaignInit == Init => CampaignInv
<1> SUFFICES ASSUME Init PROVE CampaignInv
  OBVIOUS
<1>1. \A o \in Occurrences : Incident(o).limit \in Nat
  BY CampaignAssumption DEF Init, Occurrences, Incident, campaign
<1>2. NewJournal \in Kept /\ \A o \in Occurrences : NewJournal.attempts[o] = 0
  BY <1>1 DEF NewJournal, Unclaimed, Kept, Journals, WithinLimit
<1>3. /\ NoSession \in Session /\ NoSession.at = "off"
      /\ NoSession.active = {} /\ NoSession.stuck = {}
  BY <1>2 DEF NoSession, Session, Places
<1>4. /\ CampaignTypes
      /\ \A r \in Ranks : store[r] = NewJournal
      /\ \A j \in Jobs, r \in Ranks :
           /\ ses[j][r] = NoSession /\ on[j][r] = {}
           /\ \A o \in Occurrences : held[j][r][o] = 0 /\ record[j][r][o] = "none"
      /\ \A r \in Ranks, o \in Occurrences : fired[r][o] = 0
  BY <1>2, <1>3 DEF Init, CampaignTypes, Unclaimed, Statuses
<1>5. ASSUME NEW j \in Jobs PROVE InStep(j)
  <2>1. \A r \in Ranks : OnTheWay(ses[j][r], "enable", NewJournal, NewJournal, 0)
    BY <1>3, <1>4 DEF OnTheWay, ToEnable
  <2> QED
    BY <1>2, <2>1 DEF InStep, Consensus
<1>6. ASSUME NEW j \in Jobs, NEW r \in Ranks PROVE Books(ses[j][r])
  BY <1>3, <1>4 DEF Books
<1>7. ASSUME NEW j \in Jobs, NEW r \in Ranks PROVE Effects(j, r)
  BY <1>3, <1>4 DEF Effects, NoTraceAhead, Untouched, RunsSinceTrigger, CompletedIsOff, Owned, Gone
<1>8. Claims
  <2> SUFFICES ASSUME NEW r \in Ranks, NEW q \in Ranks, NEW o \in Occurrences
               PROVE  fired[r][o] + Cardinality(Debts(r, q, o)) <= store[q].attempts[o]
    BY DEF Claims
  <2>1. Debts(r, q, o) = {}
    BY <1>3, <1>4 DEF Debts, Owed
  <2> QED
    BY <1>2, <1>4, <2>1, FS_EmptySet
<1> QED
  BY <1>4, <1>5, <1>6, <1>7, <1>8 DEF CampaignInv

(* What a step of one rank has to be shown to do, if it advances.          *)
LEMMA AdvancesIsDone ==
  ASSUME CampaignInv, CampaignTypes', NEW j \in Jobs, NEW r \in Ranks, Moves(j, r),
         Advances(ses[j][r], ses'[j][r]), Effects(j, r)', Claims'
  PROVE  CampaignInv'
<1>1. CampaignTypes /\ UNCHANGED fixed /\ Jobs' = Jobs
      /\ \A s : Books(s)' <=> Books(s)
  BY SameCampaign, SameMeaning DEF CampaignInv, Moves
<1>2. \A k \in Jobs' : InStep(k)'
  <2>1. ses[j][r] \in Session /\ ses'[j][r] \in Session
    BY <1>1, SameMeaning DEF CampaignTypes
  <2>2. \A round \in Consensus, w, b \in Kept, n \in Nat :
          OnTheWay(ses[j][r], round, w, b, n) => OnTheWay(ses'[j][r], round, w, b, n)
    BY <1>1, <2>1, AdvancesIsInStep
  <2> QED
    BY <1>1, <2>2, FollowsIsInStep DEF CampaignInv
<1>3. ASSUME NEW k \in Jobs, NEW q \in Ranks PROVE Books(ses'[k][q]) /\ Effects(k, q)'
  <2>1. CASE k = j /\ q = r
    BY <2>1, AdvancesKeepsBooks DEF CampaignInv
  <2>2. CASE k # j \/ q # r
    <3>1. /\ ses'[k][q] = ses[k][q] /\ on'[k][q] = on[k][q]
          /\ held'[k][q] = held[k][q] /\ record'[k][q] = record[k][q]
      BY <2>2 DEF Moves
    <3> QED
      BY <1>1, <3>1, EffectsElsewhere DEF CampaignInv
  <2> QED
    BY <2>1, <2>2
<1> QED
  BY <1>1, <1>2, <1>3 DEF CampaignInv

(* The steps of one rank that leave journals and applications alone.       *)
LEMMA EndsIsDone ==
  ASSUME CampaignInv, CampaignTypes', NEW j \in Jobs, NEW r \in Ranks, Moves(j, r),
         Advances(ses[j][r], ses'[j][r]), Ends(j, r), UNCHANGED <<store, fired>>,
         ses'[j][r].at \notin {"persist", "restore", "activate"},
         ses'[j][r].at \in Gone => ses'[j][r].active = {},
         \/ ses'[j][r].at \in Leaving
         \/ /\ ses'[j][r].iter = ses[j][r].iter /\ held' = held /\ Sound(ses[j][r])
            /\ ses'[j][r].at \in BeforeActivation => ses[j][r].at \in BeforeActivation
            /\ ses'[j][r].at # "off"
  PROVE  CampaignInv'
<1>1. CampaignTypes /\ UNCHANGED fixed /\ Claims /\ Effects(j, r)
  BY DEF CampaignInv, Moves
<1>2. Claims'
  BY <1>1, OtherClaims
<1>3. Effects(j, r)'
  BY <1>1, EndsEffects
<1> QED
  BY <1>2, <1>3, AdvancesIsDone

(* A rank leaves, or stays in training, and effects of its may end.        *)
LEMMA LeavesIsDone ==
  ASSUME CampaignInv, CampaignTypes', NEW j \in Jobs, NEW r \in Ranks, Moves(j, r),
         Ends(j, r), UNCHANGED <<store, held, fired>>, ses'[j][r].at \in Leaving,
         ses'[j][r].at \in Gone => ses'[j][r].active = {}
  PROVE  CampaignInv'
<1>1. Advances(ses[j][r], ses'[j][r])
  BY DEF Advances
<1>2. ses'[j][r].at \notin {"persist", "restore", "activate"}
  BY DEF Leaving, Gone
<1> QED
  BY <1>1, <1>2, EndsIsDone

LEMMA TrainsIsDone ==
  ASSUME CampaignInv, CampaignTypes', NEW j \in Jobs, NEW r \in Ranks, Moves(j, r),
         Ends(j, r), UNCHANGED <<store, held, fired>>, KeepsBooks(ses[j][r], ses'[j][r]),
         ses[j][r].at = "train", ses'[j][r].at = "train"
  PROVE  CampaignInv'
<1>1. Advances(ses[j][r], ses'[j][r])
  BY DEF Advances
<1>2. /\ ses'[j][r].at \notin {"persist", "restore", "activate", "off"} \cup BeforeActivation
      /\ ses'[j][r].at \notin Gone /\ Sound(ses[j][r]) /\ ses'[j][r].iter = ses[j][r].iter
  BY DEF BeforeActivation, Leaving, Gone, Sound, KeepsBooks
<1> QED
  BY <1>1, <1>2, EndsIsDone

(* Both ways to arm a rank.                                                *)
LEMMA ActivationIsDone ==
  ASSUME CampaignInv, CampaignTypes', NEW j \in Jobs, NEW r \in Ranks, Moves(j, r),
         UNCHANGED <<store, held>>, Begins(j, r), Applies(j, r), ses[j][r].at = "activate",
         KeepsBooks(ses[j][r], ses'[j][r]),
         \/ ses'[j][r].at = "cleanup"
         \/ ses'[j][r].at = IF RequiresActivationConsensus(ses[j][r]) THEN "arm" ELSE "train"
  PROVE  CampaignInv'
<1>1. /\ CampaignTypes /\ UNCHANGED fixed /\ Claims /\ InStep(j) /\ Effects(j, r)
      /\ ses'[j][r].at \in {"arm", "train", "cleanup"}
      /\ ses'[j][r].iter = ses[j][r].iter
  BY DEF CampaignInv, Moves, KeepsBooks
<1>2. Advances(ses[j][r], ses'[j][r])
  BY DEF Advances, Leaving
<1>3. Effects(j, r)'
  BY <1>1, BeginsEffects
<1>4. Claims'
  BY <1>1, ActivateClaims
<1> QED
  BY <1>2, <1>3, <1>4, AdvancesIsDone

LEMMA RoundIsDone ==
  ASSUME CampaignInv, NEW j \in Jobs, Round(j)
  PROVE  CampaignInv'
<1>1. CampaignTypes /\ Claims /\ InStep(j)
  BY DEF CampaignInv
<1>2. /\ CampaignTypes' /\ UNCHANGED fixed /\ UNCHANGED <<store, effects>>
      /\ \A k \in Jobs, r \in Ranks : k # j => ses'[k][r] = ses[k][r]
      /\ \A r \in Ranks :
           LET s == ses[j][r]  t == ses'[j][r]
           IN  /\ s.at \in Consensus /\ t.at = AfterRound(s, RoundFails(j))
               /\ KeepsBooks(s, t) /\ t.err = s.err
               /\ t.active = s.active /\ t.stuck = s.stuck
  BY <1>1, RoundStep
<1>3. Claims'
  BY <1>1, RoundClaims
<1>4. InStep(j)' /\ \A r \in Ranks : Books(ses'[j][r])
  BY <1>1, RoundIsInStep DEF CampaignInv
<1>5. /\ Jobs' = Jobs /\ Kept' = Kept
      /\ \A s : Books(s)' <=> Books(s)
      /\ \A s, round, w, b, n : OnTheWay(s, round, w, b, n)' <=> OnTheWay(s, round, w, b, n)
  BY <1>2, SameCampaign, SameMeaning
<1>6. ASSUME NEW k \in Jobs, k # j PROVE InStep(k)'
  <2>1. PICK round \in Consensus, w \in Kept, b \in Kept, n \in Nat :
          \A q \in Ranks : OnTheWay(ses[k][q], round, w, b, n)
    BY DEF CampaignInv, InStep
  <2>2. \A q \in Ranks : OnTheWay(ses'[k][q], round, w, b, n)
    BY <1>2, <1>6, <2>1
  <2> QED
    BY <1>5, <2>1, <2>2 DEF InStep
<1>7. ASSUME NEW k \in Jobs, NEW q \in Ranks, k # j PROVE Books(ses'[k][q]) /\ Effects(k, q)'
  BY <1>1, <1>2, <1>7, EffectsElsewhere DEF CampaignInv, effects
<1>8. ASSUME NEW r \in Ranks PROVE Effects(j, r)'
  <2> DEFINE s == ses[j][r]
             t == ses'[j][r]
  <2>1. Ends(j, r)
    BY <1>2, NothingEnds
  <2>2. Effects(j, r) /\ s.at \in Consensus /\ t.iter = s.iter
    BY <1>2 DEF CampaignInv, KeepsBooks
  <2>3. t.at = AfterRound(s, RoundFails(j)) /\ (s.err => RoundFails(j))
    BY <1>2 DEF RoundFails
  <2>4. t.at \notin Gone /\ t.at # "off" /\ (t.at \in BeforeActivation => s.at \in BeforeActivation)
    BY <2>2, <2>3 DEF AfterRound, Consensus, Gone, BeforeActivation
  <2>5. s.at = "prepare" /\ s.err => t.at \in Leaving
    BY <2>3 DEF AfterRound, Leaving
  <2>6. Sound(s) \/ (s.at = "prepare" /\ s.err)
    BY <2>2 DEF Sound, Leaving, Gone, Consensus
  <2> QED
    BY <1>1, <1>2, <2>1, <2>2, <2>4, <2>5, <2>6, EndsEffects DEF effects
<1> QED
  BY <1>2, <1>3, <1>4, <1>5, <1>6, <1>7, <1>8 DEF CampaignInv

LEMMA StepCompleteIsDone ==
  ASSUME CampaignInv, NEW j \in Jobs, NEW r \in Ranks, NEW stuck,
         NEW outcome \in {"ok", "optimizer", "history"}, StepComplete(j, r, outcome, stuck)
  PROVE  CampaignInv'
<1> DEFINE s == ses[j][r]
           t == ses'[j][r]
<1>1. /\ CampaignTypes /\ Claims /\ InStep(j) /\ Effects(j, r) /\ RunsSinceTrigger(j, r)
  BY DEF CampaignInv, Effects
<1>2. /\ CampaignTypes' /\ Moves(j, r) /\ Ends(j, r) /\ UNCHANGED <<store, fired>>
      /\ s.at = "train" /\ t.journal = s.journal /\ t.iter \in {s.iter, s.iter + 1}
      /\ t.at = IF RequiresBoundaryConsensus(s.journal, s.iter, r) THEN "prepare"
                ELSE IF t.err THEN "cleanup" ELSE "enter"
      /\ ~t.err =>
           /\ t.iter = s.iter + 1
           /\ \A o \in on[j][r] : held'[j][r][o] = held[j][r][o] + 1
           /\ \A o \in t.active : Bounded(o) => s.iter < o[2] + Incident(o).iterations - 1
  BY <1>1, StepCompleteStep
<1>3. /\ UNCHANGED fixed /\ Jobs' = Jobs /\ Kept' = Kept
      /\ \A x : Books(x)' <=> Books(x)
      /\ \A x, round, w, b, n : OnTheWay(x, round, w, b, n)' <=> OnTheWay(x, round, w, b, n)
  BY <1>2, SameCampaign, SameMeaning DEF Moves
<1>4. t.at \in {"prepare", "cleanup", "enter"} /\ (t.at = "enter" => ~t.err)
  BY <1>2
<1>5. Claims'
  BY <1>1, <1>2, <1>4, OtherClaims
<1>6. Effects(j, r)'
  BY <1>1, <1>2, <1>3, <1>4, StepCompleteEffects
<1>7. Books(t)
  BY <1>4 DEF Books
<1>8. InStep(j)'
  BY <1>1, <1>2, StepCompleteIsInStep
<1>9. ASSUME NEW k \in Jobs, k # j PROVE InStep(k)'
  <2>1. PICK round \in Consensus, w \in Kept, b \in Kept, n \in Nat :
          \A q \in Ranks : OnTheWay(ses[k][q], round, w, b, n)
    BY DEF CampaignInv, InStep
  <2>2. \A q \in Ranks : OnTheWay(ses'[k][q], round, w, b, n)
    BY <1>2, <1>9, <2>1 DEF Moves
  <2> QED
    BY <1>3, <2>1, <2>2 DEF InStep
<1>10. ASSUME NEW k \in Jobs, NEW q \in Ranks, k # j \/ q # r
       PROVE  Books(ses'[k][q]) /\ Effects(k, q)'
  <2>1. /\ ses'[k][q] = ses[k][q] /\ on'[k][q] = on[k][q]
        /\ held'[k][q] = held[k][q] /\ record'[k][q] = record[k][q]
    BY <1>2, <1>10 DEF Moves
  <2> QED
    BY <1>1, <1>2, <1>3, <2>1, EffectsElsewhere DEF CampaignInv
<1>11. \A k \in Jobs : InStep(k)'
  BY <1>8, <1>9
<1>12. \A k \in Jobs, q \in Ranks : Books(ses'[k][q]) /\ Effects(k, q)'
  BY <1>6, <1>7, <1>10
<1> QED
  BY <1>2, <1>3, <1>5, <1>11, <1>12 DEF CampaignInv

LEMMA NothingIsDone ==
  ASSUME CampaignInv, UNCHANGED vars
  PROVE  CampaignInv'
<1>1. /\ CampaignTypes /\ UNCHANGED fixed
      /\ UNCHANGED <<store, ses, on, held, record, fired>>
  BY DEF CampaignInv, vars, fixed
<1>2. /\ Jobs' = Jobs /\ Kept' = Kept /\ Session' = Session /\ Occurrences' = Occurrences
      /\ \A x : Books(x)' <=> Books(x)
      /\ \A x, round, w, b, n : OnTheWay(x, round, w, b, n)' <=> OnTheWay(x, round, w, b, n)
      /\ \A f, r, q, o : Owed(f, r, q, o)' <=> Owed(f, r, q, o)
  BY <1>1, SameCampaign, SameMeaning, SameDebt
<1>3. CampaignTypes'
  BY <1>1, <1>2, StaysTyped DEF CampaignTypes
<1>4. \A k \in Jobs : InStep(k)'
  BY <1>1, <1>2 DEF CampaignInv, InStep
<1>5. \A k \in Jobs, q \in Ranks : Books(ses'[k][q]) /\ Effects(k, q)'
  BY <1>1, <1>2, <1>3, EffectsElsewhere DEF CampaignInv
<1>6. Claims'
  <2>1. \A r, q, o : Debts(r, q, o)' = Debts(r, q, o)
    BY <1>1, <1>2 DEF Debts
  <2> QED
    BY <1>1, <1>2, <2>1 DEF Claims, CampaignInv
<1> QED
  BY <1>2, <1>3, <1>4, <1>5, <1>6, <1>1 DEF CampaignInv

LEMMA CampaignStep == CampaignInv /\ [Next]_vars => CampaignInv'
<1> SUFFICES ASSUME CampaignInv, [Next]_vars PROVE CampaignInv'
  OBVIOUS
<1>1. /\ CampaignTypes /\ Claims
      /\ \A j \in Jobs : InStep(j)
      /\ \A j \in Jobs, r \in Ranks : Books(ses[j][r]) /\ Effects(j, r)
  BY DEF CampaignInv
<1>2. ASSUME NEW j \in Jobs, Round(j) PROVE CampaignInv'
  BY <1>2, RoundIsDone
<1>3. ASSUME NEW j \in Jobs, NEW r \in Ranks, NEW n \in Iters, NEW ok \in BOOLEAN,
             Prepare(j, r, n, ok)
      PROVE  CampaignInv'
  <2>1. /\ CampaignTypes' /\ Moves(j, r) /\ UNCHANGED <<store, effects>>
        /\ ses[j][r].at = "off" /\ ses'[j][r].at = "enable" /\ ses'[j][r].active = {}
        /\ ses'[j][r].journal = [ses'[j][r].before EXCEPT !.bound = TRUE]
    BY <1>1, <1>3, PrepareStep
  <2>2. Advances(ses[j][r], ses'[j][r])
    BY <2>1 DEF Advances
  <2>3. Effects(j, r)'
    BY <1>1, <2>1, PrepareEffects DEF Moves
  <2>4. Claims'
    BY <1>1, <2>1, OtherClaims DEF effects
  <2> QED
    BY <2>1, <2>2, <2>3, <2>4, AdvancesIsDone
<1>4. ASSUME NEW j \in Jobs, NEW r \in Ranks, NEW ok \in BOOLEAN, EnterIteration(j, r, ok)
      PROVE  CampaignInv'
  <2> DEFINE s == ses[j][r]
             t == ses'[j][r]
  <2>1. /\ CampaignTypes' /\ Moves(j, r) /\ UNCHANGED <<store, effects>>
        /\ s.at = "enter" /\ KeepsBooks(s, t) /\ t.active = s.active /\ t.stuck = s.stuck
        /\ t.at = IF Candidates(s.journal, s.iter) = {} THEN "train" ELSE "preflight"
    BY <1>1, <1>4, EnterIterationStep
  <2>2. Advances(s, t)
    BY <2>1 DEF Advances
  <2>3. Ends(j, r) /\ t.at \in {"train", "preflight"} /\ t.iter = s.iter
    BY <2>1, NothingEnds DEF KeepsBooks
  <2>4. Sound(s) /\ s.at \in BeforeActivation /\ t.at \notin Gone
    BY <2>1, <2>3 DEF Sound, Leaving, Gone, BeforeActivation
  <2> QED
    BY <2>1, <2>2, <2>3, <2>4, EndsIsDone DEF effects
<1>5. ASSUME NEW j \in Jobs, NEW r \in Ranks, NEW outcome \in SwapOutcomes,
             CommitJournalBinding(j, r, outcome)
      PROVE  CampaignInv'
  <2> DEFINE s == ses[j][r]
             t == ses'[j][r]
  <2>1. /\ CampaignTypes' /\ Moves(j, r) /\ UNCHANGED effects
        /\ s.at = "bind" /\ t.at = "binding"
        /\ KeepsBooks(s, t) /\ t.active = s.active /\ t.stuck = s.stuck
        /\ \A q \in Ranks : store'[q].attempts = store[q].attempts
    BY <1>1, <1>5, CommitStep
  <2>2. Advances(s, t)
    BY <2>1 DEF Advances
  <2>3. Ends(j, r) /\ t.iter = s.iter
    BY <2>1, NothingEnds DEF KeepsBooks
  <2>4. Sound(s) /\ s.at \in BeforeActivation /\ t.at \notin Gone
    BY <2>1 DEF Sound, Leaving, Gone, BeforeActivation
  <2>5. Effects(j, r)'
    BY <1>1, <2>1, <2>3, <2>4, EndsEffects DEF Moves, effects
  <2>6. Claims'
    BY <1>1, <2>1, OtherClaims DEF effects
  <2> QED
    BY <2>1, <2>2, <2>5, <2>6, AdvancesIsDone
<1>6. ASSUME NEW j \in Jobs, NEW r \in Ranks, NEW outcome \in SwapOutcomes, Stage(j, r, outcome)
      PROVE  CampaignInv'
  <2> DEFINE s == ses[j][r]
             t == ses'[j][r]
  <2>1. /\ CampaignTypes' /\ Moves(j, r) /\ UNCHANGED effects
        /\ s.at = "stage" /\ t.at = "persist" /\ t.iter = s.iter /\ t.before = s.journal
        /\ t.active = s.active /\ t.stuck = s.stuck
        /\ t.journal = IF t.err THEN s.journal
                       ELSE Claimed(s.journal, Selected(s.journal, s.iter))
    BY <1>1, <1>6, StageStep
  <2>2. Advances(s, t)
    BY <2>1 DEF Advances
  <2>3. Ends(j, r)
    BY <2>1, NothingEnds
  <2>4. Sound(s) /\ s.at \in BeforeActivation /\ t.at \notin Gone
    BY <2>1 DEF Sound, Leaving, Gone, BeforeActivation
  <2>5. Effects(j, r)'
    BY <1>1, <2>1, <2>3, <2>4, EndsEffects DEF Moves, effects
  <2>6. Claims'
    BY <1>1, <1>6, StageClaims
  <2> QED
    BY <2>1, <2>2, <2>5, <2>6, AdvancesIsDone
<1>7. ASSUME NEW j \in Jobs, NEW r \in Ranks, NEW outcome \in SwapOutcomes, Restore(j, r, outcome)
      PROVE  CampaignInv'
  <2> DEFINE s == ses[j][r]
             t == ses'[j][r]
  <2>1. /\ CampaignTypes' /\ Moves(j, r) /\ UNCHANGED effects
        /\ s.at = "restore" /\ t.at = "restored" /\ t.iter = s.iter
        /\ t.active = s.active /\ t.stuck = s.stuck
    BY <1>1, <1>7, RestoreStep
  <2>2. Advances(s, t)
    BY <2>1 DEF Advances
  <2>3. Ends(j, r)
    BY <2>1, NothingEnds
  <2>4. Sound(s) /\ s.at \in BeforeActivation /\ t.at \notin Gone
    BY <2>1 DEF Sound, Leaving, Gone, BeforeActivation
  <2>5. Effects(j, r)'
    BY <1>1, <2>1, <2>3, <2>4, EndsEffects DEF Moves, effects
  <2>6. Claims'
    BY <1>1, <1>7, RestoreClaims
  <2> QED
    BY <2>1, <2>2, <2>5, <2>6, AdvancesIsDone
<1>8. ASSUME NEW j \in Jobs, NEW r \in Ranks, NEW quiet \in SUBSET Mine(j, r),
             NEW inline \in SUBSET Mine(j, r), Activate(j, r, quiet, inline)
      PROVE  CampaignInv'
  <2>1. /\ CampaignTypes' /\ Moves(j, r) /\ UNCHANGED <<store, held>>
        /\ Begins(j, r) /\ Applies(j, r)
        /\ ses[j][r].at = "activate" /\ KeepsBooks(ses[j][r], ses'[j][r])
        /\ ses'[j][r].at = IF RequiresActivationConsensus(ses[j][r]) THEN "arm" ELSE "train"
    BY <1>1, <1>8, ActivateStep
  <2> QED
    BY <2>1, ActivationIsDone
<1>9. ASSUME NEW j \in Jobs, NEW r \in Ranks, NEW attempted \in SUBSET Mine(j, r),
             NEW applied \in SUBSET attempted, NEW stuck \in SUBSET applied,
             ActivateFails(j, r, attempted, applied, stuck)
      PROVE  CampaignInv'
  <2>1. /\ CampaignTypes' /\ Moves(j, r) /\ UNCHANGED <<store, held>>
        /\ Begins(j, r) /\ Applies(j, r)
        /\ ses[j][r].at = "activate" /\ KeepsBooks(ses[j][r], ses'[j][r])
        /\ ses'[j][r].at = IF RequiresActivationConsensus(ses[j][r]) THEN "arm" ELSE "cleanup"
    BY <1>1, <1>9, ActivateFailsStep
  <2>2. \/ ses'[j][r].at = "cleanup"
        \/ ses'[j][r].at = IF RequiresActivationConsensus(ses[j][r]) THEN "arm" ELSE "train"
    BY <2>1
  <2> QED
    BY <2>1, <2>2, ActivationIsDone
<1>10. ASSUME NEW j \in Jobs, NEW r \in Ranks, NEW stuck,
              Rollback(j, r, stuck) \/ Cleanup(j, r, stuck) \/ Close(j, r, stuck)
       PROVE  CampaignInv'
  <2>1. /\ CampaignTypes' /\ Moves(j, r) /\ Ends(j, r) /\ UNCHANGED <<store, held, fired>>
        /\ \/ ses'[j][r].at = "cleanup"
           \/ ses'[j][r].at \in {"raised", "closed"} /\ ses'[j][r].active = {}
    BY <1>1, <1>10, RollbackStep, CleanupStep, CloseStep
  <2>2. ses'[j][r].at \in Leaving /\ (ses'[j][r].at \in Gone => ses'[j][r].active = {})
    BY <2>1 DEF Leaving, Gone
  <2> QED
    BY <2>1, <2>2, LeavesIsDone
<1>11. ASSUME NEW j \in Jobs, NEW r \in Ranks, NEW boundary \in {"recovery", "replacement"},
              NEW stuck, Notify(j, r, boundary, stuck)
       PROVE  CampaignInv'
  BY <1>1, <1>11, NotifyStep, TrainsIsDone
<1>12. ASSUME NEW j \in Jobs, NEW r \in Ranks, StateReplaced(j, r)
       PROVE  CampaignInv'
  BY <1>1, <1>12, StateReplacedStep, TrainsIsDone
<1>13. ASSUME NEW j \in Jobs, NEW r \in Ranks, NEW o \in ses[j][r].active,
              NEW outcome \in {"ok", "quiet", "stuck"}, MatchCall(j, r, o, outcome)
       PROVE  CampaignInv'
  BY <1>1, <1>13, MatchCallStep, TrainsIsDone
<1>14. ASSUME NEW j \in Jobs, NEW r \in Ranks,
              CollectiveFails(j, r) \/ TrainingRaises(j, r) \/ Crash(j, r)
       PROVE  CampaignInv'
  <2>1. /\ CampaignTypes' /\ Moves(j, r) /\ Ends(j, r) /\ UNCHANGED <<store, held, fired>>
        /\ \/ ses'[j][r].at = "cleanup"
           \/ ses'[j][r].at = "dead" /\ ses'[j][r].active = {}
    BY <1>1, <1>14, LeavesStep, CrashStep
  <2>2. ses'[j][r].at \in Leaving /\ (ses'[j][r].at \in Gone => ses'[j][r].active = {})
    BY <2>1 DEF Leaving, Gone
  <2> QED
    BY <2>1, <2>2, LeavesIsDone
<1>15. ASSUME NEW j \in Jobs, NEW r \in Ranks, NEW stuck,
              NEW outcome \in {"ok", "optimizer", "history"}, StepComplete(j, r, outcome, stuck)
       PROVE  CampaignInv'
  BY <1>15, StepCompleteIsDone
<1>16. CASE UNCHANGED vars
  BY <1>16, NothingIsDone
<1> QED
  BY <1>2, <1>3, <1>4, <1>5, <1>6, <1>7, <1>8, <1>9, <1>10, <1>11, <1>12, <1>13, <1>14,
     <1>15, <1>16 DEF Next

LEMMA CampaignInvariant == Spec => []CampaignInv
<1>1. Init => CampaignInv
  BY CampaignInit
<1>2. CampaignInv /\ [Next]_vars => CampaignInv'
  BY CampaignStep
<1> QED
  BY <1>1, <1>2, PTL DEF Spec

(* Debts are never negative.                                               *)
LEMMA ClaimsInEveryJournal == CampaignInv => ClaimedEverywhere
<1> SUFFICES ASSUME CampaignInv, NEW r \in Ranks, NEW q \in Ranks, NEW o \in Occurrences
             PROVE  fired[r][o] <= store[q].attempts[o]
  BY DEF ClaimedEverywhere
<1>1. fired[r][o] + Cardinality(Debts(r, q, o)) <= store[q].attempts[o]
  BY DEF CampaignInv, Claims
<1>2. fired[r][o] \in Nat /\ store[q].attempts[o] \in Nat
  BY DEF CampaignInv, CampaignTypes, Kept, Journals
<1>3. IsFiniteSet(Debts(r, q, o))
  <2>1. IsFiniteSet(Jobs)
    BY JobsAreFinite DEF CampaignInv
  <2> QED
    BY <2>1, FS_Subset DEF Debts
<1>4. Cardinality(Debts(r, q, o)) \in Nat
  BY <1>3, FS_CardinalityType
<1> QED
  BY <1>1, <1>2, <1>4

-----------------------------------------------------------------------------
(* The rounds carry no tag, and every rank decides for itself whether one  *)
(* is due (_requires_boundary_consensus, RequiresActivationConsensus); yet *)
(* whenever all ranks of a job wait in a round, they mean the same one,    *)
(* and of the same iteration.                                              *)
THEOREM SameConsensusAlways == Spec => []SameConsensus
<1>1. CampaignInv => SameConsensus
  <2> SUFFICES ASSUME CampaignInv, NEW j \in Jobs, \A r \in Ranks : ses[j][r].at \in Consensus,
                      NEW q \in Ranks
               PROVE  /\ \A r \in Ranks : ses[j][r].at = ses[j][q].at
                      /\ \/ ses[j][q].at = "enable"
                         \/ \E n \in Boundaries(ses[j][q]) :
                              \A r \in Ranks : n \in Boundaries(ses[j][r])
    BY DEF SameConsensus
  <2>1. PICK round \in Consensus, w \in Kept, b \in Kept, n \in Nat :
          \A p \in Ranks : OnTheWay(ses[j][p], round, w, b, n)
    BY DEF CampaignInv, InStep
  <2>2. \A p \in Ranks : ses[j][p] \in Session
    BY DEF CampaignInv, CampaignTypes
  <2>3. \A p \in Ranks : ses[j][p].at = round
    BY <2>1, <2>2, WayOf
  <2>4. ASSUME NEW p \in Ranks, round # "enable"
        PROVE  n \in Boundaries(ses[j][p])
    <3> DEFINE s == ses[j][p]
    <3>1. s.at = round /\ s.iter \in Nat /\ OnTheWay(s, round, w, b, n)
      BY <2>1, <2>2, <2>3 DEF Session
    <3>2. CASE round = "prepare"
      <4>1. ToPrepare(s, w, n)
        BY <3>1, <3>2 DEF OnTheWay, Leaving, Gone
      <4>2. IF s.err THEN s.iter \in {n, n + 1} ELSE s.iter = n + 1
        BY <3>1, <3>2, <4>1 DEF ToPrepare
      <4> QED
        BY <3>1, <3>2, <4>2 DEF Boundaries
    <3>3. CASE round # "prepare"
      <4>1. s.iter = n
        BY <2>4, <3>1, <3>3 DEF OnTheWay, Leaving, Gone, Consensus, ToBinding, ToPreflight,
                                ToPersist, ToRestored, ToArm
      <4> QED
        BY <3>1, <3>3, <4>1 DEF Boundaries
    <3> QED
      BY <3>2, <3>3
  <2> QED
    BY <2>3, <2>4
<1> QED
  BY <1>1, CampaignInvariant, PTL

(* _stage_iteration_attempts claims before _activate_staged_iteration      *)
(* applies, and _restore_journal_attempts takes back no claim of another   *)
(* job: no rank has applied an occurrence more often than it is claimed in *)
(* the journal file of any rank.                                           *)
THEOREM ClaimedEverywhereAlways == Spec => []ClaimedEverywhere
BY CampaignInvariant, ClaimsInEveryJournal, PTL

(* No rank applies an occurrence more often than the manifest allows       *)
(* (once, or max_occurrences), over all restarts, rewinds and overlapping  *)
(* jobs: load_journal, compare_and_swap and the candidates of an iteration.*)
THEOREM LimitIsKeptAlways == Spec => []LimitIsKept
<1>1. CampaignInv => LimitIsKept
  <2> SUFFICES ASSUME CampaignInv, NEW r \in Ranks, NEW o \in Occurrences,
                      Incident(o).limit > 0
               PROVE  fired[r][o] <= Incident(o).limit
    BY DEF LimitIsKept
  <2>1. fired[r][o] <= store[r].attempts[o]
    BY ClaimsInEveryJournal DEF ClaimedEverywhere
  <2>2. store[r].attempts[o] <= Incident(o).limit
    BY DEF CampaignInv, CampaignTypes, Kept, WithinLimit
  <2>3. fired[r][o] \in Nat /\ store[r].attempts[o] \in Nat
    BY DEF CampaignInv, CampaignTypes, Kept, Journals
  <2>4. Incident(o).limit \in Nat
    BY LifetimeIsOne DEF CampaignInv
  <2> QED
    BY <2>1, <2>2, <2>3, <2>4
<1> QED
  BY <1>1, CampaignInvariant, PTL

(* A bounded injection whose record says completed (_complete_effect,      *)
(* _on_step_complete) has lasted for exactly the optimizer steps of its    *)
(* lifetime, unless an external executor was done at once.                 *)
THEOREM CompletedLastedInFullAlways == Spec => []CompletedLastedInFull
<1>1. CampaignInv => CompletedLastedInFull
  BY DEF CampaignInv, Effects, CompletedIsOff, CompletedLastedInFull
<1> QED
  BY <1>1, CampaignInvariant, PTL

(* An effect is applied only while its session owns it, a session that has *)
(* raised, closed or died owns none, and no rank trains beyond the         *)
(* lifetime of an effect it owns (close, _cleanup, _on_step_complete).     *)
THEOREM NothingLeftBehindAlways == Spec => []NothingLeftBehind
<1>1. CampaignInv => NothingLeftBehind
  BY DEF CampaignInv, Effects, Owned, RunsSinceTrigger, NothingLeftBehind, Sound, Leaving, Gone
<1> QED
  BY <1>1, CampaignInvariant, PTL

-----------------------------------------------------------------------------
(***************************************************************************)
(* Arming.  A rank that waits in the round after activation has applied    *)
(* nothing that is not selected, and unless it reports a failure it has    *)
(* a record of every action it had to take (R: the records of its job).    *)
(***************************************************************************)
ArmedIn(s, r, R) ==
  s.at = "arm" =>
    /\ \A o \in s.active : o[2] = s.iter => o \in Selected(s.before, s.iter)
    /\ ~s.err => \A o \in Selected(s.before, s.iter) :
                   r \in Incident(o).ranks => R[r][o] # "none"

TogetherIn(s, R) ==
  s.at = "train" /\ (\A o \in Selected(s.before, s.iter) : Incident(o).safe) =>
    \A o \in s.active : o[2] = s.iter =>
      \A q \in Incident(o).ranks : R[q][o] # "none"

AsOne(s, r, R) == ArmedIn(s, r, R) /\ TogetherIn(s, R)

ArmInv == CampaignInv /\ \A j \in Jobs, r \in Ranks : AsOne(ses[j][r], r, record[j])

(* No record is taken back.                                                *)
Grows ==
  \A k \in Jobs, q \in Ranks, o \in Occurrences :
    record'[k][q][o] = "none" => record[k][q][o] = "none"

LEMMA CompletesGrows ==
  ASSUME CampaignTypes, NEW j \in Jobs, NEW r \in Ranks, NEW S, NEW stuck, NEW cut,
         Completes(j, r, S, stuck, cut)
  PROVE  Grows
<1> DEFINE R2 == [o \in Occurrences |->
                    CASE o \in stuck -> "failed"
                      [] o \in S \ stuck -> IF record[j][r][o] = "active" /\ o \notin cut
                                              THEN "completed" ELSE "cancelled"
                      [] OTHER -> record[j][r][o]]
<1>1. record' = [record EXCEPT ![j] = [record[j] EXCEPT ![r] = R2]]
  BY DEF Completes, CampaignTypes
<1>2. \A o \in Occurrences : R2[o] = "none" => record[j][r][o] = "none"
  OBVIOUS
<1> HIDE DEF R2
<1>3. /\ record'[j][r] = R2
      /\ \A k \in Jobs, q \in Ranks : k # j \/ q # r => record'[k][q] = record[k][q]
  BY <1>1 DEF CampaignTypes
<1> QED
  BY <1>2, <1>3 DEF Grows

LEMMA MarksGrows ==
  ASSUME CampaignTypes, NEW j \in Jobs, NEW r \in Ranks, NEW S, UNCHANGED fixed,
         Marks(j, r, S, "failed")
  PROVE  Grows
BY MarksStep, "failed" \in Statuses DEF Grows, Statuses

LEMMA ActivateGrows ==
  ASSUME CampaignTypes, NEW j \in Jobs, NEW r \in Ranks,
         NEW quiet \in SUBSET Mine(j, r), NEW inline \in SUBSET Mine(j, r),
         Activate(j, r, quiet, inline)
  PROVE  /\ Grows
         /\ \A o \in Mine(j, r) : record'[j][r][o] # "none"
<1> DEFINE A == (Mine(j, r) \ quiet) \ inline
           R == [o \in Occurrences |->
                   CASE o \in quiet -> "failed"
                     [] o \in inline -> "completed"
                     [] o \in A -> IF Incident(o).kind = "hook" THEN "pending" ELSE "active"
                     [] o \in Skipped(j, r) -> "skipped"
                     [] OTHER -> record[j][r][o]]
<1>1. record' = [record EXCEPT ![j] = [record[j] EXCEPT ![r] = R]]
  BY DEF Activate, CampaignTypes
<1>2. \A o \in Occurrences : /\ R[o] = "none" => record[j][r][o] = "none"
                             /\ o \in Mine(j, r) => R[o] # "none"
  OBVIOUS
<1> HIDE DEF R
<1>3. /\ record'[j][r] = R
      /\ \A k \in Jobs, q \in Ranks : k # j \/ q # r => record'[k][q] = record[k][q]
  BY <1>1 DEF CampaignTypes
<1> QED
  BY <1>2, <1>3, MineIsDue DEF Grows

LEMMA MatchCallGrows ==
  ASSUME CampaignTypes, NEW j \in Jobs, NEW r \in Ranks, NEW o \in ses[j][r].active,
         NEW outcome \in {"ok", "quiet", "stuck"}, MatchCall(j, r, o, outcome)
  PROVE  Grows
<1> DEFINE last == outcome = "quiet" \/ Incident(o).until = "matching_call"
           status == IF outcome # "ok" THEN "failed" ELSE IF last THEN "completed" ELSE "active"
<1>1. /\ status # "none" /\ o \in Occurrences
      /\ record' = [record EXCEPT ![j] = [record[j] EXCEPT ![r] =
                      [record[j][r] EXCEPT ![o] = status]]]
  BY DEF MatchCall, CampaignTypes, Session
<1> HIDE DEF status
<1>2. /\ record'[j][r] = [record[j][r] EXCEPT ![o] = status]
      /\ \A k \in Jobs, q \in Ranks : k # j \/ q # r => record'[k][q] = record[k][q]
  BY <1>1 DEF CampaignTypes
<1>3. \A p \in Occurrences : record'[j][r][p] = IF p = o THEN status ELSE record[j][r][p]
  BY <1>1, <1>2 DEF CampaignTypes
<1> QED
  BY <1>1, <1>2, <1>3 DEF Grows

(* The ranks of an incident are ranks of the job.                          *)
LEMMA RanksOfJob ==
  ASSUME CampaignTypes, NEW o \in Occurrences
  PROVE  Incident(o).ranks \subseteq Ranks
<1>1. PICK i \in DOMAIN campaign : o \in {i} \X campaign[i].at
  BY DEF Occurrences
<1>2. o[1] = i /\ scope \in Scopes
  BY <1>1 DEF CampaignTypes
<1> QED
  BY <1>2, CampaignAssumption DEF Incident, campaign

LEMMA SameArming ==
  ASSUME UNCHANGED fixed
  PROVE  \A s, r, R : AsOne(s, r, R)' <=> AsOne(s, r, R)
BY SameCampaign DEF AsOne, ArmedIn, TogetherIn

LEMMA MoreRecords ==
  ASSUME CampaignTypes, Grows, NEW k \in Jobs, NEW r \in Ranks, NEW s \in Session,
         AsOne(s, r, record[k])
  PROVE  AsOne(s, r, record'[k])
<1>1. \A o \in s.active : Incident(o).ranks \subseteq Ranks /\ o \in Occurrences
  BY RanksOfJob DEF Session
<1>2. Selected(s.before, s.iter) \subseteq Occurrences
  BY DEF Selected, Candidates
<1> QED
  BY <1>1, <1>2 DEF AsOne, ArmedIn, TogetherIn, Grows

(* A step of rank r in job j: what it comes to be is enough.               *)
LEMMA ArmedElsewhere ==
  ASSUME ArmInv, CampaignInv', Grows, NEW j \in Jobs, NEW r \in Ranks, Moves(j, r),
         AsOne(ses'[j][r], r, record'[j])
  PROVE  ArmInv'
<1>1. /\ CampaignTypes /\ UNCHANGED fixed /\ Jobs' = Jobs
      /\ \A s, q, R : AsOne(s, q, R)' <=> AsOne(s, q, R)
  BY SameArming, SameCampaign DEF ArmInv, CampaignInv, Moves
<1>2. ASSUME NEW k \in Jobs, NEW q \in Ranks, k # j \/ q # r
      PROVE  AsOne(ses'[k][q], q, record'[k])
  <2>1. ses'[k][q] = ses[k][q] /\ ses[k][q] \in Session /\ AsOne(ses[k][q], q, record[k])
    BY <1>1, <1>2 DEF Moves, ArmInv, CampaignTypes
  <2> QED
    BY <1>1, <2>1, MoreRecords
<1>3. \A k \in Jobs, q \in Ranks : AsOne(ses'[k][q], q, record'[k])
  BY <1>2
<1> QED
  BY <1>1, <1>3 DEF ArmInv

(* A step that neither arms nor trains asks for nothing.                   *)
LEMMA NotArming ==
  ASSUME ArmInv, CampaignInv', Grows, NEW j \in Jobs, NEW r \in Ranks, Moves(j, r),
         ses'[j][r].at \notin {"arm", "train"}
  PROVE  ArmInv'
<1>1. AsOne(ses'[j][r], r, record'[j])
  BY DEF AsOne, ArmedIn, TogetherIn
<1> QED
  BY <1>1, ArmedElsewhere

LEMMA TrainsOn ==
  ASSUME ArmInv, CampaignInv', Grows, NEW j \in Jobs, NEW r \in Ranks, Moves(j, r),
         Ends(j, r), ses[j][r].at = "train", ses'[j][r].at = "train",
         KeepsBooks(ses[j][r], ses'[j][r])
  PROVE  ArmInv'
<1> DEFINE s == ses[j][r]
           t == ses'[j][r]
<1>1. CampaignTypes /\ s \in Session /\ AsOne(s, r, record[j])
  BY DEF ArmInv, CampaignInv, CampaignTypes
<1>2. AsOne(s, r, record'[j])
  BY <1>1, MoreRecords
<1>3. t.active \subseteq s.active
  BY DEF Ends
<1>4. AsOne(t, r, record'[j])
  BY <1>2, <1>3 DEF AsOne, ArmedIn, TogetherIn, KeepsBooks
<1> QED
  BY <1>4, ArmedElsewhere

(* Before activation nothing that is due is applied yet.                   *)
LEMMA NothingDueYet ==
  ASSUME CampaignInv, NEW j \in Jobs, NEW r \in Ranks, ses[j][r].at \in {"enter", "activate"}
  PROVE  \A o \in ses[j][r].active : o[2] # ses[j][r].iter
<1>1. Sound(ses[j][r]) /\ ses[j][r].at \in BeforeActivation
  BY DEF Sound, Leaving, Gone, BeforeActivation
<1>2. NoTraceAhead(j, r) /\ ses[j][r].active \subseteq Occurrences
  BY DEF CampaignInv, Effects, CampaignTypes, Session
<1> QED
  BY <1>1, <1>2 DEF NoTraceAhead, Untouched

LEMMA EnterArms ==
  ASSUME ArmInv, CampaignInv', NEW j \in Jobs, NEW r \in Ranks, NEW ok \in BOOLEAN,
         EnterIteration(j, r, ok)
  PROVE  ArmInv'
<1> DEFINE s == ses[j][r]
           t == ses'[j][r]
<1> CampaignInv /\ CampaignTypes
  BY DEF ArmInv, CampaignInv
<1>1. /\ Moves(j, r) /\ UNCHANGED <<store, effects>> /\ s.at = "enter"
      /\ t.at \in {"train", "preflight"} /\ KeepsBooks(s, t) /\ t.active = s.active
  BY EnterIterationStep
<1>2. \A o \in t.active : o[2] # t.iter
  BY <1>1, NothingDueYet DEF KeepsBooks
<1>3. AsOne(t, r, record'[j]) /\ Grows
  BY <1>1, <1>2 DEF AsOne, ArmedIn, TogetherIn, Grows, effects
<1> QED
  BY <1>1, <1>3, ArmedElsewhere

(* All that is selected is applied, found wanting, or reported as failed.  *)
LEMMA ActivateArms ==
  ASSUME ArmInv, CampaignInv', NEW j \in Jobs, NEW r \in Ranks,
         NEW quiet \in SUBSET Mine(j, r), NEW inline \in SUBSET Mine(j, r),
         Activate(j, r, quiet, inline)
  PROVE  ArmInv'
<1> DEFINE s == ses[j][r]
           t == ses'[j][r]
<1> CampaignInv /\ CampaignTypes
  BY DEF ArmInv, CampaignInv
<1>1. /\ s \in Session /\ Moves(j, r) /\ s.at = "activate" /\ KeepsBooks(s, t)
      /\ t.at = IF RequiresActivationConsensus(s) THEN "arm" ELSE "train"
  BY ActivateStep DEF CampaignTypes
<1>2. t.active = s.active \cup ((Mine(j, r) \ quiet) \ inline)
  <2> DEFINE done == [s EXCEPT !.err = FALSE, !.active = @ \cup ((Mine(j, r) \ quiet) \ inline)]
             u == [done EXCEPT !.at = AfterActivation(done)]
  <2>1. Goes(j, r, u)
    BY DEF Activate
  <2>2. u.active = s.active \cup ((Mine(j, r) \ quiet) \ inline)
    BY <1>1 DEF Session
  <2> HIDE DEF u
  <2>3. ses'[j][r] = u
    BY <1>1, <2>1 DEF Goes, CampaignTypes
  <2> QED
    BY <2>2, <2>3
<1>3. Grows /\ \A o \in Mine(j, r) : record'[j][r][o] # "none"
  BY <1>1, ActivateGrows
<1>4. \A o \in t.active : o[2] = t.iter => o \in Mine(j, r)
  BY <1>1, <1>2, NothingDueYet DEF KeepsBooks
<1>5. /\ Mine(j, r) = {o \in Selected(t.before, t.iter) : r \in Incident(o).ranks}
      /\ RequiresActivationConsensus(s) <=>
           /\ Selected(t.before, t.iter) # {}
           /\ \A o \in Selected(t.before, t.iter) : Incident(o).safe
  BY <1>1 DEF Mine, KeepsBooks, RequiresActivationConsensus
<1>6. AsOne(t, r, record'[j])
  BY <1>1, <1>3, <1>4, <1>5 DEF AsOne, ArmedIn, TogetherIn
<1> QED
  BY <1>1, <1>3, <1>6, ArmedElsewhere

LEMMA ActivateFailsArms ==
  ASSUME ArmInv, CampaignInv', NEW j \in Jobs, NEW r \in Ranks,
         NEW attempted \in SUBSET Mine(j, r), NEW applied \in SUBSET attempted,
         NEW stuck \in SUBSET applied, ActivateFails(j, r, attempted, applied, stuck)
  PROVE  ArmInv'
<1> DEFINE s == ses[j][r]
           t == ses'[j][r]
<1> CampaignInv /\ CampaignTypes
  BY DEF ArmInv, CampaignInv
<1>1. /\ s \in Session /\ Moves(j, r) /\ s.at = "activate" /\ KeepsBooks(s, t)
      /\ t.at \in {"arm", "cleanup"}
  BY ActivateFailsStep DEF CampaignTypes
<1>2. t.active = s.active /\ t.err
  <2> DEFINE failed == [s EXCEPT !.err = TRUE, !.stuck = @ \cup stuck]
             u == [failed EXCEPT !.at = AfterActivation(failed)]
  <2>1. Goes(j, r, u)
    BY DEF ActivateFails
  <2>2. u.active = s.active /\ u.err
    BY <1>1 DEF Session
  <2> HIDE DEF u
  <2>3. ses'[j][r] = u
    BY <1>1, <2>1 DEF Goes, CampaignTypes
  <2> QED
    BY <2>2, <2>3
<1>3. Grows
  BY <1>1, MarksGrows DEF ActivateFails, Moves
<1>4. \A o \in t.active : o[2] # t.iter
  BY <1>1, <1>2, NothingDueYet DEF KeepsBooks
<1>5. AsOne(t, r, record'[j])
  BY <1>1, <1>2, <1>4 DEF AsOne, ArmedIn, TogetherIn
<1> QED
  BY <1>1, <1>3, <1>5, ArmedElsewhere

(* All ranks wait in the same round with the same selection, so a rank     *)
(* that trains after it knows that no rank has failed to take its part.    *)
LEMMA RoundArms ==
  ASSUME ArmInv, CampaignInv', NEW j \in Jobs, Round(j)
  PROVE  ArmInv'
<1>1. CampaignTypes /\ InStep(j) /\ \A k \in Jobs, r \in Ranks : AsOne(ses[k][r], r, record[k])
  BY DEF ArmInv, CampaignInv
<1>2. /\ UNCHANGED fixed /\ record' = record
      /\ \A k \in Jobs, r \in Ranks : k # j => ses'[k][r] = ses[k][r]
      /\ \A r \in Ranks :
           LET s == ses[j][r]  t == ses'[j][r]
           IN  /\ s \in Session /\ s.at \in Consensus /\ t.at = AfterRound(s, RoundFails(j))
               /\ KeepsBooks(s, t) /\ t.active = s.active
  BY <1>1, RoundStep DEF effects, CampaignTypes
<1>3. ASSUME NEW r \in Ranks PROVE AsOne(ses'[j][r], r, record'[j])
  <2> DEFINE s == ses[j][r]
             t == ses'[j][r]
  <2>1. t.at # "arm" /\ (t.at = "train" => s.at = "arm" /\ ~RoundFails(j))
    BY <1>2 DEF AfterRound
  <2>2. CASE t.at # "train"
    BY <2>1, <2>2 DEF AsOne, ArmedIn, TogetherIn
  <2>3. CASE t.at = "train"
    <3>1. PICK round \in Consensus, w \in Kept, b \in Kept, n \in Nat :
            \A q \in Ranks : OnTheWay(ses[j][q], round, w, b, n)
      BY <1>1 DEF InStep
    <3>2. round = "arm"
      BY <1>2, <2>1, <2>3, <3>1, WayOf
    <3>3. ASSUME NEW q \in Ranks
          PROVE  /\ ses[j][q].at = "arm" /\ ~ses[j][q].err
                 /\ ses[j][q].before = b /\ ses[j][q].iter = n
      <4>1. ses[j][q].at = "arm"
        BY <1>2, <3>1, <3>2, WayOf
      <4>2. ToArm(ses[j][q], w, b, n)
        BY <3>1, <4>1 DEF OnTheWay, ToEnable, ToBinding, ToPreflight, ToPersist, ToRestored,
                          ToPrepare, Leaving, Gone
      <4> QED
        BY <2>1, <2>3, <4>1, <4>2 DEF ToArm, RoundFails
    <3>4. ASSUME NEW o \in t.active, o[2] = t.iter, NEW q \in Incident(o).ranks
          PROVE  record'[j][q][o] # "none"
      <4>1. q \in Ranks
        BY <1>2, RanksOfJob, <1>1 DEF Session
      <4>2. o \in Selected(b, n)
        BY <1>1, <1>2, <3>3, <3>4 DEF AsOne, ArmedIn, KeepsBooks
      <4> QED
        BY <1>1, <1>2, <3>3, <4>1, <4>2 DEF AsOne, ArmedIn
    <3> QED
      BY <2>1, <3>4 DEF AsOne, ArmedIn, TogetherIn
  <2> QED
    BY <2>2, <2>3
<1>4. \A k \in Jobs, r \in Ranks : AsOne(ses'[k][r], r, record'[k])
  BY <1>1, <1>2, <1>3
<1> QED
  BY <1>2, <1>4, SameArming, SameCampaign DEF ArmInv

LEMMA ArmInit == Init => ArmInv
<1>1. ASSUME Init, NEW j \in Jobs, NEW r \in Ranks PROVE AsOne(ses[j][r], r, record[j])
  BY <1>1 DEF Init, NoSession, AsOne, ArmedIn, TogetherIn
<1> QED
  BY <1>1, CampaignInit DEF ArmInv

LEMMA ArmStep == ArmInv /\ [Next]_vars => ArmInv'
<1> SUFFICES ASSUME ArmInv, [Next]_vars PROVE ArmInv'
  OBVIOUS
<1>1. CampaignInv /\ CampaignInv'
  BY CampaignStep DEF ArmInv
<1>2. /\ CampaignTypes
      /\ \A j \in Jobs, r \in Ranks : Books(ses[j][r]) /\ RunsSinceTrigger(j, r)
  BY <1>1 DEF CampaignInv, Effects
<1>3. ASSUME UNCHANGED record PROVE Grows
  BY <1>3 DEF Grows
<1>4. ASSUME NEW j \in Jobs, Round(j) PROVE ArmInv'
  BY <1>1, <1>4, RoundArms
<1>5. ASSUME NEW j \in Jobs, NEW r \in Ranks, NEW n \in Iters, NEW ok \in BOOLEAN,
             Prepare(j, r, n, ok)
      PROVE  ArmInv'
  <2>1. /\ CampaignTypes' /\ Moves(j, r) /\ UNCHANGED <<store, effects>>
        /\ ses[j][r].at = "off" /\ ses'[j][r].at = "enable" /\ ses'[j][r].active = {}
        /\ ses'[j][r].journal = [ses'[j][r].before EXCEPT !.bound = TRUE]
    <3>1. CampaignTypes
      BY <1>2
    <3> QED
      BY <3>1, <1>5, PrepareStep
  <2>2. Grows
    BY <1>3, <2>1 DEF effects
  <2> QED
    BY <1>1, <2>1, <2>2, NotArming
<1>6. ASSUME NEW j \in Jobs, NEW r \in Ranks, NEW ok \in BOOLEAN, EnterIteration(j, r, ok)
      PROVE  ArmInv'
  BY <1>1, <1>6, EnterArms
<1>7. ASSUME NEW j \in Jobs, NEW r \in Ranks, NEW outcome \in SwapOutcomes,
             \/ CommitJournalBinding(j, r, outcome)
             \/ Stage(j, r, outcome) \/ Restore(j, r, outcome)
      PROVE  ArmInv'
  <2>1. /\ Moves(j, r) /\ UNCHANGED effects
        /\ ses'[j][r].at \in {"binding", "persist", "restored"}
    <3>1. CASE CommitJournalBinding(j, r, outcome)
      BY <1>2, <3>1, CommitStep
    <3>2. CASE Stage(j, r, outcome)
      BY <1>2, <3>2, StageStep
    <3>3. CASE Restore(j, r, outcome)
      BY <1>2, <3>3, RestoreStep
    <3> QED
      BY <1>7, <3>1, <3>2, <3>3
  <2>2. Grows
    BY <1>3, <2>1 DEF effects
  <2> QED
    BY <1>1, <2>1, <2>2, NotArming
<1>8. ASSUME NEW j \in Jobs, NEW r \in Ranks, NEW quiet \in SUBSET Mine(j, r),
             NEW inline \in SUBSET Mine(j, r), Activate(j, r, quiet, inline)
      PROVE  ArmInv'
  BY <1>1, <1>8, ActivateArms
<1>9. ASSUME NEW j \in Jobs, NEW r \in Ranks, NEW attempted \in SUBSET Mine(j, r),
             NEW applied \in SUBSET attempted, NEW stuck \in SUBSET applied,
             ActivateFails(j, r, attempted, applied, stuck)
      PROVE  ArmInv'
  BY <1>1, <1>9, ActivateFailsArms
<1>10. ASSUME NEW j \in Jobs, NEW r \in Ranks, NEW stuck,
             Rollback(j, r, stuck) \/ Cleanup(j, r, stuck) \/ Close(j, r, stuck)
      PROVE  ArmInv'
  <2>1. Moves(j, r) /\ ses'[j][r].at \in {"cleanup", "raised", "closed"}
    BY <1>2, <1>10, RollbackStep, CleanupStep, CloseStep
  <2>2. Grows
    BY <1>2, <1>10, <2>1, MarksGrows, CompletesGrows DEF Rollback, Cleanup, Close, Moves
  <2> QED
    BY <1>1, <2>1, <2>2, NotArming
<1>11. ASSUME NEW j \in Jobs, NEW r \in Ranks, NEW boundary \in {"recovery", "replacement"},
              NEW stuck, Notify(j, r, boundary, stuck)
       PROVE  ArmInv'
  <2>1. Grows
    BY <1>2, <1>11, CompletesGrows DEF Notify
  <2> QED
    BY <1>1, <1>2, <1>11, <2>1, NotifyStep, TrainsOn
<1>12. ASSUME NEW j \in Jobs, NEW r \in Ranks, StateReplaced(j, r)
       PROVE  ArmInv'
  <2>1. Grows
    BY <1>2, <1>12, StateReplacedStep, MarksGrows DEF StateReplaced, Moves
  <2> QED
    BY <1>1, <1>2, <1>12, <2>1, StateReplacedStep, TrainsOn
<1>13. ASSUME NEW j \in Jobs, NEW r \in Ranks, NEW o \in ses[j][r].active,
              NEW outcome \in {"ok", "quiet", "stuck"}, MatchCall(j, r, o, outcome)
       PROVE  ArmInv'
  BY <1>1, <1>2, <1>13, MatchCallGrows, MatchCallStep, TrainsOn
<1>14. ASSUME NEW j \in Jobs, NEW r \in Ranks,
              CollectiveFails(j, r) \/ TrainingRaises(j, r) \/ Crash(j, r)
       PROVE  ArmInv'
  <2>1. Moves(j, r) /\ ses'[j][r].at \in {"cleanup", "dead"}
    BY <1>2, <1>14, LeavesStep, CrashStep
  <2>2. UNCHANGED record
    BY <1>14 DEF CollectiveFails, TrainingRaises, Crash, effects
  <2> QED
    BY <1>1, <1>3, <2>1, <2>2, NotArming
<1>15. ASSUME NEW j \in Jobs, NEW r \in Ranks, NEW stuck,
              NEW outcome \in {"ok", "optimizer", "history"}, StepComplete(j, r, outcome, stuck)
       PROVE  ArmInv'
  <2>1. Moves(j, r) /\ ses'[j][r].at \in {"prepare", "cleanup", "enter"}
    BY <1>2, <1>15, StepCompleteStep
  <2>2. Grows
    BY <1>2, <1>15, CompletesGrows DEF StepComplete
  <2> QED
    BY <1>1, <2>1, <2>2, NotArming
<1>16. CASE UNCHANGED vars
  BY <1>1, <1>16, SameArming, SameCampaign DEF ArmInv, vars, fixed
<1> QED
  BY <1>4, <1>5, <1>6, <1>7, <1>8, <1>9, <1>10, <1>11, <1>12, <1>13, <1>14, <1>15, <1>16
     DEF Next

(* Where every selected fault is safe, a rank trains in the trigger        *)
(* iteration with its part applied only after every targeted rank has its  *)
(* own record: _activate_staged_iteration and the round that follows it.   *)
THEOREM ArmedTogetherAlways == Spec => []ArmedTogether
<1>1. Init => ArmInv
  BY ArmInit
<1>2. ArmInv /\ [Next]_vars => ArmInv'
  BY ArmStep
<1>3. ArmInv => ArmedTogether
  BY DEF ArmInv, AsOne, TogetherIn, ArmedTogether
<1> QED
  BY <1>1, <1>2, <1>3, PTL DEF Spec

(* A campaign is carried out as it is scheduled, over all restarts and     *)
(* failures: FaultInjectionSession as a whole.                             *)
THEOREM InjectedAsScheduledAlways == Spec => []InjectedAsScheduled
<1>1. LimitIsKept /\ ArmedTogether /\ NothingLeftBehind => InjectedAsScheduled
  BY DEF InjectedAsScheduled
<1> QED
  BY <1>1, LimitIsKeptAlways, ArmedTogetherAlways, NothingLeftBehindAlways, PTL

-----------------------------------------------------------------------------
(***************************************************************************)
(* The tensor that two incidents aim at.  That it is free whenever one is  *)
(* due depends on arithmetic alone: validate_schedule has compared all     *)
(* windows, those of long ranges by a common value of two progressions,    *)
(* found with the greatest common divisor of their steps and an inverse.   *)
(***************************************************************************)
CONSTANTS Schedules, Modes, Enumerable, MaxSteps, MaxLoads

VARIABLES mode, schedule, stage, iter, tensor, effect, history, saved, loads

Tensor == INSTANCE StateFault WITH MaxIter <- MaxSteps

(* What is known of whole numbers.                                         *)
Positive == Nat \ {0}

(* Division with a remainder.                                              *)
LEMMA DivMod ==
  ASSUME NEW a \in Int, NEW b \in Positive
  PROVE  /\ a \div b \in Int /\ a % b \in 0 .. b - 1
         /\ a = b * (a \div b) + (a % b)
  BY DEF Positive

(* There is only one way to divide.                                        *)
LEMMA OnlyQuotient ==
  ASSUME NEW b \in Positive, NEW k \in Int, NEW q \in Int, NEW r \in Int, NEW s \in Int,
         0 <= r, r < b, 0 <= s, s < b, b * k + r = b * q + s
  PROVE  k = q /\ r = s
<1>1. b * (k - q) = s - r
  <2>1. b * (k - q) = b * k - b * q
    BY DEF Positive
  <2> QED BY <2>1 DEF Positive
<1>2. ASSUME k - q >= 1 PROVE FALSE
  <2>1. b * (k - q) >= b * 1
    BY <1>2 DEF Positive
  <2> QED BY <1>1, <2>1 DEF Positive
<1>3. ASSUME k - q <= -1 PROVE FALSE
  <2>1. b * (k - q) <= b * (-1)
    BY <1>3 DEF Positive
  <2>2. b * (-1) = -b
    BY DEF Positive
  <2> QED BY <1>1, <2>1, <2>2 DEF Positive
<1>4. k - q = 0
  BY <1>2, <1>3
<1> QED BY <1>4 DEF Positive

(* The quotient and the remainder of a number given as b * k + r.          *)
LEMMA Division ==
  ASSUME NEW b \in Positive, NEW k \in Int, NEW r \in 0 .. b - 1
  PROVE  (b * k + r) \div b = k /\ (b * k + r) % b = r
<1> DEFINE a == b * k + r
<1>1. a \in Int
  BY DEF Positive
<1> HIDE DEF a
<1>2. /\ a \div b \in Int /\ a % b \in 0 .. b - 1
      /\ a = b * (a \div b) + (a % b)
  BY <1>1, DivMod
<1> DEFINE q == a \div b
           s == a % b
<1>3. q \in Int /\ s \in Int /\ 0 <= s /\ s < b /\ b * k + r = b * q + s
  BY <1>1, <1>2 DEF a, Positive
<1> HIDE DEF q, s
<1>4. k = q /\ r = s
  BY <1>3, OnlyQuotient DEF Positive
<1> QED BY <1>4 DEF q, s, a

(* Rounding up stays below every multiple that is not smaller.             *)
LEMMA DivUp ==
  ASSUME NEW a \in Int, NEW b \in Positive, NEW k \in Int, a <= b * k
  PROVE  ((a + b - 1) \div b) * b <= b * k
<1> DEFINE q == (a + b - 1) \div b
<1>1. q \in Int /\ b * q <= a + b - 1
  BY DivMod DEF Positive
<1> HIDE DEF q
<1>2. CASE q <= k
  BY <1>1, <1>2 DEF Positive
<1>3. CASE q >= k + 1
  <2>1. b * q >= b * (k + 1)
    BY <1>1, <1>3 DEF Positive
  <2>2. b * (k + 1) = b * k + b
    BY DEF Positive
  <2> QED BY <1>1, <2>1, <2>2 DEF Positive
<1>4. q * b <= b * k
  BY <1>1, <1>2, <1>3 DEF Positive
<1> QED BY <1>4 DEF q

Divides(d, a) == \E k \in Int : a = d * k

(* A remainder of 0 is what divisibility means.                            *)
LEMMA DividesMod ==
  ASSUME NEW a \in Int, NEW d \in Positive
  PROVE  a % d = 0 <=> Divides(d, a)
<1>1. ASSUME a % d = 0 PROVE Divides(d, a)
  BY <1>1, DivMod DEF Divides, Positive
<1>2. ASSUME NEW k \in Int, a = d * k PROVE a % d = 0
  <2>1. (d * k + 0) % d = 0
    BY Division DEF Positive
  <2>2. d * k \in Int
    BY DEF Positive
  <2>3. a = d * k + 0
    BY <1>2, <2>2
  <2> QED BY <2>1, <2>3
<1> QED BY <1>1, <1>2 DEF Divides

(* A set of numbers that is not empty has a least one.                     *)
LEMMA Least ==
  ASSUME NEW S \in SUBSET Nat, S # {}
  PROVE  \E k \in S : \A y \in S : k <= y
<1>1. PICK k \in S : \A y \in S : ~ (<<y, k>> \in OpToRel(<, Nat))
  BY NatLessThanWellFounded, WFMin
<1>2. \A y \in S : ~ (y < k)
  BY <1>1 DEF OpToRel
<1>3. \A y \in S : k <= y
  BY <1>2
<1> QED BY <1>3

(* The positive combinations of two steps, the least of which is their     *)
(* greatest common divisor.                                                *)
Combinations(a, b) == {n \in Positive : \E x, y \in Int : n = a * x + b * y}

(* The least combination divides every other: the remainder would be a     *)
(* smaller one.                                                            *)
LEMMA Remainder ==
  ASSUME NEW a \in Positive, NEW b \in Positive, NEW d \in Combinations(a, b),
         \A n \in Combinations(a, b) : d <= n,
         NEW c \in Int, NEW u \in Int, NEW v \in Int, c = a * u + b * v
  PROVE  Divides(d, c)
<1>1. d \in Positive
  BY DEF Combinations
<1>2. PICK x \in Int, y \in Int : d = a * x + b * y
  BY DEF Combinations
<1> DEFINE q == c \div d
           r == c % d
<1>3. q \in Int /\ r \in 0 .. d - 1 /\ c = d * q + r
  BY <1>1, DivMod
<1> HIDE DEF q, r
<1>4. r = a * (u - x * q) + b * (v - y * q)
  <2>1. r = c - d * q
    BY <1>1, <1>3 DEF Positive
  <2>2. d * q = a * (x * q) + b * (y * q)
    BY <1>2, <1>3 DEF Positive
  <2>3. /\ a * (u - x * q) = a * u - a * (x * q)
        /\ b * (v - y * q) = b * v - b * (y * q)
    BY <1>2, <1>3 DEF Positive
  <2>4. /\ a * u \in Int /\ b * v \in Int /\ a * (x * q) \in Int /\ b * (y * q) \in Int
    BY <1>3 DEF Positive
  <2> QED BY <2>1, <2>2, <2>3, <2>4
<1>5. ~(r > 0)
  <2> SUFFICES ASSUME r > 0 PROVE FALSE
    OBVIOUS
  <2>1. u - x * q \in Int /\ v - y * q \in Int
    BY <1>3
  <2>2. r \in Positive
    BY <1>1, <1>3 DEF Positive
  <2>3. \E n, m \in Int : r = a * n + b * m
    BY <1>4, <2>1
  <2>4. r \in Combinations(a, b)
    BY <2>2, <2>3 DEF Combinations
  <2> QED BY <1>1, <1>3, <2>4 DEF Positive
<1>6. r = 0
  BY <1>1, <1>3, <1>5 DEF Positive
<1>7. c = d * q
  BY <1>1, <1>3, <1>6 DEF Positive
<1> QED BY <1>3, <1>7 DEF Divides

(* A divisor is no larger.                                                 *)
LEMMA AtMost ==
  ASSUME NEW d \in Positive, NEW n \in Positive, Divides(d, n)
  PROVE  d <= n
<1>1. PICK k \in Int : n = d * k
  BY DEF Divides
<1>2. CASE k <= 0
  <2>1. d * k <= d * 0
    BY <1>2 DEF Positive
  <2> QED BY <1>1, <2>1 DEF Positive
<1>3. CASE k >= 1
  <2>1. d * k >= d * 1
    BY <1>3 DEF Positive
  <2> QED BY <1>1, <2>1 DEF Positive
<1> QED BY <1>2, <1>3

(* Bezout: the greatest common divisor is a combination of the two steps.  *)
LEMMA Bezout ==
  ASSUME NEW a \in Positive, NEW b \in Positive
  PROVE  /\ Tensor!Gcd(a, b) \in Combinations(a, b)
         /\ Divides(Tensor!Gcd(a, b), a) /\ Divides(Tensor!Gcd(a, b), b)
<1>1. a \in Combinations(a, b)
  <2>1. a = a * 1 + b * 0
    BY DEF Positive
  <2> QED BY <2>1 DEF Combinations
<1>2. PICK d \in Combinations(a, b) : \A n \in Combinations(a, b) : d <= n
  <2>1. Combinations(a, b) \in SUBSET Nat
    BY DEF Combinations, Positive
  <2> QED BY <1>1, <2>1, Least
<1>3. d \in Positive /\ d <= a
  BY <1>1, <1>2 DEF Combinations
<1>4. Divides(d, a) /\ Divides(d, b)
  <2>1. a = a * 1 + b * 0 /\ b = a * 0 + b * 1
    BY DEF Positive
  <2>2. a \in Int /\ b \in Int /\ 0 \in Int /\ 1 \in Int
    BY DEF Positive
  <2>3. Divides(d, a)
    BY <1>2, <2>1, <2>2, Remainder, ZenonT(30)
  <2>4. Divides(d, b)
    BY <1>2, <2>1, <2>2, Remainder, ZenonT(30)
  <2> QED BY <2>3, <2>4
<1>5. \A c \in Positive : Divides(c, a) /\ Divides(c, b) => c <= d
  <2> SUFFICES ASSUME NEW c \in Positive, Divides(c, a), Divides(c, b) PROVE c <= d
    OBVIOUS
  <2>1. PICK k \in Int : a = c * k
    BY DEF Divides
  <2>2. PICK l \in Int : b = c * l
    BY DEF Divides
  <2>3. PICK x \in Int, y \in Int : d = a * x + b * y
    BY DEF Combinations
  <2>4. d = c * (k * x + l * y)
    <3>1. a * x = c * (k * x) /\ b * y = c * (l * y)
      BY <2>1, <2>2 DEF Positive
    <3>2. c * (k * x + l * y) = c * (k * x) + c * (l * y)
      BY DEF Positive
    <3> QED BY <2>3, <3>1, <3>2
  <2>5. Divides(c, d)
    <3>1. k * x + l * y \in Int
      OBVIOUS
    <3> QED BY <2>4, <3>1 DEF Divides
  <2> QED BY <1>3, <2>5, AtMost
<1> DEFINE Common(c) == /\ a % c = 0 /\ b % c = 0
                        /\ \A e \in c + 1 .. a : ~(a % e = 0 /\ b % e = 0)
<1>6. d \in 1 .. a /\ Common(d)
  <2>1. a % d = 0 /\ b % d = 0
    BY <1>3, <1>4, DividesMod DEF Positive
  <2>2. ASSUME NEW e \in d + 1 .. a, a % e = 0, b % e = 0 PROVE FALSE
    <3>1. e \in Positive
      BY <1>3 DEF Positive
    <3>2. Divides(e, a) /\ Divides(e, b)
      BY <2>2, <3>1, DividesMod DEF Positive
    <3> QED BY <1>3, <1>5, <3>1, <3>2 DEF Positive
  <2> QED BY <1>3, <2>1, <2>2 DEF Positive
<1> DEFINE g == Tensor!Gcd(a, b)
<1>7. g \in 1 .. a /\ Common(g)
  <2>1. g = CHOOSE c \in 1 .. a : Common(c)
    BY DEF Tensor!Gcd
  <2> HIDE DEF Common, g
  <2> QED BY <1>6, <2>1
<1>8. g = d
  <2>1. g \in Positive /\ Divides(g, a) /\ Divides(g, b)
    BY <1>7, DividesMod DEF Positive
  <2>2. g <= d
    BY <1>5, <2>1
  <2>3. ~(g < d)
    BY <1>3, <1>6, <1>7 DEF Positive
  <2> HIDE DEF g
  <2> QED BY <1>3, <2>1, <2>2, <2>3 DEF Positive
<1> QED BY <1>2, <1>4, <1>8

Coprime(k, l) == \E x, y \in Int : k * x + l * y = 1
Invertible(k, l) == \E w \in 0 .. l - 1 : (k * w) % l = 1

(* What is left of two steps when their common divisor is taken out.       *)
LEMMA LeftCoprime ==
  ASSUME NEW a \in Positive, NEW b \in Positive, NEW g \in Combinations(a, b),
         NEW k \in Positive, NEW l \in Positive, a = g * k, b = g * l
  PROVE  Coprime(k, l)
<1>1. PICK x \in Int, y \in Int : g = a * x + b * y
  BY DEF Combinations
<1>2. k * x + l * y = 1
  <2>1. g \in Positive
    BY DEF Combinations
  <2>2. a * x = g * (k * x) /\ b * y = g * (l * y)
    BY <2>1 DEF Positive
  <2>3. g * (k * x + l * y) = g * (k * x) + g * (l * y)
    BY <2>1 DEF Positive
  <2> DEFINE c == k * x + l * y
  <2>4. c \in Int /\ g * c = g
    BY <1>1, <2>2, <2>3 DEF Positive
  <2> HIDE DEF c
  <2>5. g * c + 0 = g * 1 + 0 /\ 0 < g
    BY <2>1, <2>4 DEF Positive
  <2>6. c = 1
    BY <2>1, <2>4, <2>5, OnlyQuotient DEF Positive
  <2> QED BY <2>6 DEF c
<1> QED BY <1>2 DEF Coprime

(* Bezout's coefficient, modulo l, is the inverse.                         *)
LEMMA HasInverse ==
  ASSUME NEW k \in Positive, NEW l \in Positive, Coprime(k, l), l > 1
  PROVE  Invertible(k, l)
<1>1. l \in Positive
  OBVIOUS
<1>2. PICK x \in Int, y \in Int : k * x + l * y = 1
  BY DEF Coprime
<1> DEFINE v == x % l
           q == x \div l
<1>3. q \in Int /\ v \in 0 .. l - 1 /\ x = l * q + v
  BY DivMod
<1> HIDE DEF v, q
<1>4. k * v = l * (-(y + k * q)) + 1
  <2>1. k * x = k * (l * q) + k * v
    BY <1>3 DEF Positive
  <2>2. k * (l * q) = l * (k * q)
    BY <1>3 DEF Positive
  <2>3. l * (-(y + k * q)) = -(l * y) - l * (k * q)
    BY <1>3 DEF Positive
  <2>4. k * x \in Int /\ k * v \in Int /\ l * y \in Int /\ l * (k * q) \in Int
    BY <1>3 DEF Positive
  <2> QED BY <1>2, <2>1, <2>2, <2>3, <2>4
<1>5. -(y + k * q) \in Int /\ 1 \in 0 .. l - 1
  BY <1>3 DEF Positive
<1>6. (k * v) % l = 1
  BY <1>4, <1>5, Division
<1> QED BY <1>3, <1>6, Zenon DEF Invertible

(* The member of a progression at or after low, as the code computes it.   *)
Later(first, period, low) ==
  IF first < low THEN first + ((low - first + period - 1) \div period) * period ELSE first

(* It is a member, not before low, and the first of those.                 *)
LEMMA LaterIs ==
  ASSUME NEW first \in Int, NEW period \in Positive, NEW low \in Int
  PROVE  /\ \E z \in Nat : Later(first, period, low) = first + period * z
         /\ Later(first, period, low) >= low
         /\ \A z \in Nat : first + period * z >= low =>
               Later(first, period, low) <= first + period * z
<1>1. CASE first >= low
  <2>1. Later(first, period, low) = first + period * 0
    BY <1>1 DEF Later, Positive
  <2>2. \A z \in Nat : period * z >= 0
    BY DEF Positive
  <2>3. Later(first, period, low) = first
    BY <1>1 DEF Later
  <2> QED BY <1>1, <2>1, <2>2, <2>3 DEF Positive
<1>2. CASE first < low
  <2> DEFINE n == low - first + period - 1
             q == n \div period
  <2>1. n \in Int /\ n >= period
    BY <1>2 DEF Positive
  <2>2. Later(first, period, low) = first + q * period
    BY <1>2 DEF Later
  <2> HIDE DEF n
  <2>3. q \in Int /\ n % period \in 0 .. period - 1 /\ n = period * q + (n % period)
    BY <2>1, DivMod
  <2> DEFINE rest == n % period
  <2> HIDE DEF q, rest
  <2>4. rest \in Int /\ 0 <= rest /\ rest < period /\ n = period * q + rest
    BY <2>3 DEF rest, Positive
  <2>5. period * q \in Int /\ q * period = period * q
    BY <2>3 DEF Positive
  <2>6. ~(q <= -1)
    <3> SUFFICES ASSUME q <= -1 PROVE FALSE
      OBVIOUS
    <3>1. period * q <= period * (-1)
      BY <2>3 DEF Positive
    <3>2. period * (-1) = -period
      BY DEF Positive
    <3> QED BY <2>1, <2>4, <2>5, <3>1, <3>2 DEF Positive
  <2>7. q \in Nat
    BY <2>3, <2>6
  <2>8. Later(first, period, low) = first + period * q
    BY <2>2, <2>5
  <2>9. period * q >= low - first
    BY <2>4, <2>5 DEF n, Positive
  <2>10. ASSUME NEW z \in Nat, first + period * z >= low PROVE period * q <= period * z
    <3>1. period * z \in Int
      BY DEF Positive
    <3>2. low - first \in Int /\ low - first <= period * z
      BY <2>10, <3>1
    <3> DEFINE late == low - first
    <3>3. q = (late + period - 1) \div period
      BY DEF q, n
    <3> HIDE DEF late
    <3>4. q * period <= period * z
      BY <3>2, <3>3, DivUp DEF late, Positive
    <3> QED BY <2>5, <3>4
  <2> QED
    <3>1. \A z \in Nat : period * z \in Int
      BY DEF Positive
    <3>2. Later(first, period, low) >= low
      BY <2>5, <2>8, <2>9
    <3>3. ASSUME NEW z \in Nat, first + period * z >= low
          PROVE  Later(first, period, low) <= first + period * z
      BY <2>5, <2>8, <2>10, <3>1, <3>3
    <3> QED BY <2>7, <2>8, <3>2, <3>3
<1> QED BY <1>1, <1>2

(* Two steps and what is left of them.                                     *)
LEMMA Reduced ==
  ASSUME NEW a \in Positive, NEW b \in Positive
  PROVE  LET g == Tensor!Gcd(a, b)
         IN  /\ g \in Positive /\ g \in Combinations(a, b)
             /\ a \div g \in Positive /\ a = g * (a \div g)
             /\ b \div g \in Positive /\ b = g * (b \div g)
             /\ Coprime(a \div g, b \div g)
<1> DEFINE g == Tensor!Gcd(a, b)
<1>1. g \in Combinations(a, b) /\ Divides(g, a) /\ Divides(g, b)
  BY Bezout
<1> HIDE DEF g
<1>2. g \in Positive
  BY <1>1 DEF Combinations
<1>3. ASSUME NEW n \in Positive, Divides(g, n)
      PROVE  n \div g \in Positive /\ n = g * (n \div g)
  <2>1. PICK k \in Int : n = g * k
    BY <1>3 DEF Divides
  <2>2. (g * k + 0) \div g = k
    BY <1>2, Division DEF Positive
  <2>3. g * k + 0 = n
    BY <1>2, <2>1 DEF Positive
  <2>4. ~(k <= 0)
    <3> SUFFICES ASSUME k <= 0 PROVE FALSE
      OBVIOUS
    <3>1. g * k <= g * 0
      BY <1>2 DEF Positive
    <3> QED BY <1>2, <2>1, <3>1 DEF Positive
  <2>5. k \in Positive
    BY <2>4 DEF Positive
  <2> QED BY <2>1, <2>2, <2>3, <2>5
<1>4. a \div g \in Positive /\ a = g * (a \div g)
  BY <1>1, <1>3
<1>5. b \div g \in Positive /\ b = g * (b \div g)
  BY <1>1, <1>3
<1>6. Coprime(a \div g, b \div g)
  <2> DEFINE k == a \div g
             l == b \div g
  <2>1. k \in Positive /\ l \in Positive /\ a = g * k /\ b = g * l
    BY <1>4, <1>5
  <2> HIDE DEF k, l
  <2>2. Coprime(k, l)
    BY <1>1, <2>1, LeftCoprime
  <2> QED BY <2>2 DEF k, l
<1> QED BY <1>1, <1>2, <1>4, <1>5, <1>6 DEF g

(* n is the solution of k * x = c modulo l.                                *)
Solves(n, k, c, l) ==
  /\ n \in 0 .. l - 1
  /\ \E z \in Int : k * n = c + l * z
  /\ \A x, y \in Int : k * x = c + l * y => \E z \in Int : x = n + l * z

(* Multiplying by the inverse gives the solution.                          *)
LEMMA Congruence ==
  ASSUME NEW k \in Positive, NEW l \in Positive, NEW c \in Int, NEW w \in Int,
         l > 1 => (k * w) % l = 1,
         NEW n, n = IF l = 1 THEN 0 ELSE (c * w) % l
  PROVE  Solves(n, k, c, l)
<1>1. CASE l = 1
  <2>1. k * n = c + l * (-c) /\ -c \in Int
    BY <1>1 DEF Positive
  <2>2. \A x \in Int : x = n + l * x
    BY <1>1
  <2> QED BY <1>1, <2>1, <2>2 DEF Solves
<1>2. CASE l > 1
  <2> DEFINE p == (k * w) \div l
             q == (c * w) \div l
  <2>1. p \in Int /\ k * w = l * p + 1
    <3>1. k * w \in Int
      BY DEF Positive
    <3> QED BY <1>2, <3>1, DivMod
  <2>2. q \in Int /\ n \in 0 .. l - 1 /\ c * w = l * q + n
    <3>1. c * w \in Int
      BY DEF Positive
    <3> QED BY <1>2, <3>1, DivMod
  <2> HIDE DEF p, q
  <2>3. n \in Int
    BY <2>2
  <2>4. k * n = c + l * (c * p - k * q)
    <3>1. k * n = k * (c * w) - k * (l * q)
      <4>1. n = c * w - l * q
        <5>1. c * w \in Int /\ l * q \in Int
          BY <2>2 DEF Positive
        <5> QED BY <2>2, <2>3, <5>1
      <4>2. k * (c * w - l * q) = k * (c * w) - k * (l * q)
        BY <2>2 DEF Positive
      <4> QED BY <4>1, <4>2
    <3>2. k * (c * w) = c * (k * w)
      BY DEF Positive
    <3>3. c * (k * w) = c * (l * p) + c
      BY <2>1 DEF Positive
    <3>4. c * (l * p) = l * (c * p) /\ k * (l * q) = l * (k * q)
      BY <2>1, <2>2 DEF Positive
    <3>5. l * (c * p - k * q) = l * (c * p) - l * (k * q)
      BY <2>1, <2>2 DEF Positive
    <3>6. l * (c * p) \in Int /\ l * (k * q) \in Int
      BY <2>1, <2>2 DEF Positive
    <3> QED BY <3>1, <3>2, <3>3, <3>4, <3>5, <3>6
  <2>5. ASSUME NEW x \in Int, NEW y \in Int, k * x = c + l * y
        PROVE  \E z \in Int : x = n + l * z
    <3> DEFINE u == y - (c * p - k * q)
               d == x - n
    <3>1. u \in Int /\ d \in Int
      BY <2>1, <2>2, <2>3 DEF Positive
    <3>2. k * d = l * u
      <4>1. k * d = k * x - k * n
        BY <2>3 DEF Positive
      <4>2. l * u = l * y - l * (c * p - k * q)
        BY <2>1, <2>2 DEF Positive
      <4>3. l * y \in Int /\ l * (c * p - k * q) \in Int
        BY <2>1, <2>2 DEF Positive
      <4> QED BY <2>4, <2>5, <4>1, <4>2, <4>3
    <3> HIDE DEF u, d
    <3>3. d = l * (u * w - p * d)
      <4>1. (k * d) * w = (l * u) * w
        BY <3>2
      <4>2. (k * d) * w = (k * w) * d /\ (l * u) * w = l * (u * w)
        BY <3>1 DEF Positive
      <4>3. (l * p + 1) * d = l * (p * d) + d
        BY <2>1, <3>1 DEF Positive
      <4>4. l * (u * w - p * d) = l * (u * w) - l * (p * d)
        BY <2>1, <3>1 DEF Positive
      <4>5. l * (u * w) \in Int /\ l * (p * d) \in Int
        BY <2>1, <3>1 DEF Positive
      <4> QED BY <2>1, <3>1, <4>1, <4>2, <4>3, <4>4, <4>5
    <3>4. u * w - p * d \in Int
      BY <2>1, <3>1
    <3>5. x = n + d
      BY <2>3 DEF d
    <3> QED BY <3>3, <3>4, <3>5
  <2> QED
    <3>1. c * p - k * q \in Int
      BY <2>1, <2>2 DEF Positive
    <3> QED BY <2>2, <2>4, <2>5, <3>1 DEF Solves
<1> QED BY <1>1, <1>2 DEF Positive

(* The first common value is start1 + step1 * multiplier, and they repeat  *)
(* with the period step1 * reduced: ProgressionsIntersect looks at the one *)
(* that is first in the range.                                             *)
LEMMA CommonValue ==
  ASSUME NEW s1 \in Int, NEW e1 \in Int, NEW t1 \in Positive,
         NEW s2 \in Int, NEW e2 \in Int, NEW t2 \in Positive
  PROVE  Tensor!ProgressionsIntersect(s1, e1, t1, s2, e2, t2)
           <=> \E v \in Int : /\ s1 <= v /\ v <= e1 /\ Divides(t1, v - s1)
                             /\ s2 <= v /\ v <= e2 /\ Divides(t2, v - s2)
<1> DEFINE g == Tensor!Gcd(t1, t2)
           k == t1 \div g
           l == t2 \div g
           apart == s2 - s1
           c == apart \div g
           w == CHOOSE x \in 0 .. l - 1 : (k * x) % l = 1
           n == IF l = 1 THEN 0 ELSE (c * w) % l
           first == s1 + t1 * n
           period == t1 * l
           low == IF s1 > s2 THEN s1 ELSE s2
           high == IF e1 < e2 THEN e1 ELSE e2
<1>1. Tensor!ProgressionsIntersect(s1, e1, t1, s2, e2, t2)
        <=> low <= high /\ apart % g = 0 /\ Later(first, period, low) <= high
  BY DEF Tensor!ProgressionsIntersect, Later
<1>2. /\ g \in Positive /\ g \in Combinations(t1, t2)
      /\ k \in Positive /\ t1 = g * k /\ l \in Positive /\ t2 = g * l
      /\ Coprime(k, l)
  BY Reduced
<1> HIDE DEF g, k, l
<1>3. l > 1 => w \in 0 .. l - 1 /\ (k * w) % l = 1
  <2> SUFFICES ASSUME l > 1 PROVE w \in 0 .. l - 1 /\ (k * w) % l = 1
    OBVIOUS
  <2>1. Invertible(k, l)
    BY <1>2, HasInverse
  <2> QED BY <2>1 DEF Invertible
<1> DEFINE m == IF l > 1 THEN w ELSE 0
<1>4. m \in Int /\ (l > 1 => (k * m) % l = 1) /\ n = IF l = 1 THEN 0 ELSE (c * m) % l
  BY <1>2, <1>3 DEF Positive
<1>5. c \in Int /\ apart \in Int
  BY <1>2, DivMod
<1> HIDE DEF m, n, w, c, apart
<1>6. /\ n \in 0 .. l - 1
      /\ \E z \in Int : k * n = c + l * z
      /\ \A x, y \in Int : k * x = c + l * y => \E z \in Int : x = n + l * z
  <2>1. Solves(n, k, c, l)
    BY <1>2, <1>4, <1>5, Congruence
  <2> QED BY <2>1 DEF Solves
<1>7. n \in Nat /\ n < l /\ t1 * n \in Int /\ first \in Int /\ period \in Positive
  <2>1. n \in Nat /\ n < l
    BY <1>2, <1>6 DEF Positive
  <2>2. t1 * l \in Int /\ t1 * l > 0
    <3>1. t1 * l >= t1 * 1
      BY <1>2 DEF Positive
    <3> QED BY <1>2, <3>1 DEF Positive
  <2> QED BY <2>1, <2>2 DEF Positive
<1>8. low \in Int /\ high \in Int
  OBVIOUS
<1>9. /\ \E z \in Nat : Later(first, period, low) = first + period * z
      /\ Later(first, period, low) >= low
      /\ \A z \in Nat : first + period * z >= low => Later(first, period, low) <= first + period * z
  <2> HIDE DEF first, period, low
  <2> QED BY <1>7, <1>8, LaterIs
<1>10. ASSUME NEW v \in Int, s1 <= v, v <= e1, Divides(t1, v - s1),
              s2 <= v, v <= e2, Divides(t2, v - s2)
       PROVE  low <= high /\ apart % g = 0 /\ Later(first, period, low) <= high
  <2>1. PICK x \in Int : v - s1 = t1 * x
    BY <1>10 DEF Divides
  <2>2. PICK y \in Int : v - s2 = t2 * y
    BY <1>10 DEF Divides
  <2>3. apart = g * (k * x - l * y)
    <3>1. t1 * x = g * (k * x) /\ t2 * y = g * (l * y)
      BY <1>2 DEF Positive
    <3>2. g * (k * x - l * y) = g * (k * x) - g * (l * y)
      BY <1>2 DEF Positive
    <3>3. t1 * x \in Int /\ t2 * y \in Int
      BY DEF Positive
    <3> QED BY <2>1, <2>2, <3>1, <3>2, <3>3 DEF apart
  <2>4. k * x - l * y \in Int
    BY <1>2 DEF Positive
  <2>5. c = k * x - l * y /\ apart % g = 0
    <3> DEFINE d == k * x - l * y
    <3>1. apart = g * d + 0 /\ d \in Int
      BY <1>2, <2>3, <2>4 DEF Positive
    <3> HIDE DEF d
    <3>2. (g * d + 0) \div g = d /\ (g * d + 0) % g = 0
      <4>1. 0 \in 0 .. g - 1
        BY <1>2 DEF Positive
      <4> QED BY <1>2, <3>1, <4>1, Division
    <3> QED BY <3>1, <3>2 DEF d, c
  <2>6. PICK z \in Int : x = n + l * z
    <3>1. k * x \in Int /\ l * y \in Int
      BY <1>2 DEF Positive
    <3>2. k * x = c + l * y
      BY <2>5, <3>1
    <3> QED BY <1>6, <3>2
  <2>7. v = first + period * z
    <3>1. t1 * (n + l * z) = t1 * n + t1 * (l * z)
      BY <1>2, <1>7 DEF Positive
    <3>2. t1 * (l * z) = (t1 * l) * z
      BY <1>2 DEF Positive
    <3>3. (t1 * l) * z \in Int
      BY <1>2 DEF Positive
    <3>4. t1 * x = t1 * (n + l * z)
      BY <2>6
    <3>5. v = s1 + t1 * n + (t1 * l) * z
      BY <1>7, <2>1, <3>1, <3>2, <3>3, <3>4
    <3> QED BY <3>5
  <2>8. ~(x <= -1)
    <3> SUFFICES ASSUME x <= -1 PROVE FALSE
      OBVIOUS
    <3>1. t1 * x <= t1 * (-1)
      BY DEF Positive
    <3>2. t1 * (-1) = -t1
      BY DEF Positive
    <3> QED BY <1>10, <2>1, <3>1, <3>2 DEF Positive
  <2>9. ~(z <= -1)
    <3> SUFFICES ASSUME z <= -1 PROVE FALSE
      OBVIOUS
    <3>1. l * z <= l * (-1)
      BY <1>2 DEF Positive
    <3>2. l * (-1) = -l /\ l * z \in Int
      BY <1>2 DEF Positive
    <3> QED BY <1>2, <1>7, <2>6, <2>8, <3>1, <3>2 DEF Positive
  <2>10. z \in Nat /\ low <= v /\ v <= high
    BY <1>10, <2>9
  <2> HIDE DEF first, period, low, high
  <2> DEFINE later == Later(first, period, low)
  <2>11. later <= v
    BY <1>9, <2>7, <2>10
  <2>12. later \in Int
    <3>1. PICK u \in Nat : later = first + period * u
      BY <1>9
    <3>2. period * u \in Int
      BY <1>7 DEF Positive
    <3> QED BY <1>7, <3>1, <3>2
  <2> HIDE DEF later
  <2>13. later <= high /\ low <= high
    BY <1>8, <2>10, <2>11, <2>12
  <2> QED BY <2>5, <2>13 DEF later
<1>11. ASSUME low <= high, apart % g = 0, Later(first, period, low) <= high
       PROVE  \E v \in Int : /\ s1 <= v /\ v <= e1 /\ Divides(t1, v - s1)
                             /\ s2 <= v /\ v <= e2 /\ Divides(t2, v - s2)
  <2>1. PICK z \in Nat : Later(first, period, low) = first + period * z
    BY <1>9
  <2>2. PICK u \in Int : k * n = c + l * u
    BY <1>6
  <2>3. apart = g * c
    <3>1. apart = g * c + (apart % g)
      BY <1>2, <1>5, DivMod DEF c
    <3>2. g * c \in Int
      BY <1>2, <1>5 DEF Positive
    <3> QED BY <1>11, <3>1, <3>2
  <2> DEFINE v == first + period * z
  <2>4. /\ (t1 * l) * z = t1 * (l * z) /\ (t1 * l) * z \in Int
        /\ (t1 * l) * z = t2 * (k * z)
    BY <1>2 DEF Positive
  <2>5. v \in Int
    BY <1>7, <2>4
  <2>6. v - s1 = t1 * (n + l * z) /\ n + l * z \in Int
    <3>1. t1 * (n + l * z) = t1 * n + t1 * (l * z)
      BY <1>2, <1>7 DEF Positive
    <3>2. n + l * z \in Int
      BY <1>2, <1>7 DEF Positive
    <3> QED BY <1>7, <2>4, <3>1, <3>2
  <2>7. v - s2 = t2 * (u + k * z) /\ u + k * z \in Int
    <3>1. t1 * n = g * (k * n)
      BY <1>2, <1>7 DEF Positive
    <3>2. g * (c + l * u) = g * c + t2 * u
      <4>1. g * (c + l * u) = g * c + g * (l * u)
        BY <1>2, <1>5 DEF Positive
      <4>2. g * (l * u) = (g * l) * u
        BY <1>2 DEF Positive
      <4> QED BY <1>2, <4>1, <4>2
    <3>3. t2 * (u + k * z) = t2 * u + t2 * (k * z)
      BY <1>2 DEF Positive
    <3>4. u + k * z \in Int
      BY <1>2 DEF Positive
    <3>5. s2 - s1 = g * c
      BY <2>3 DEF apart
    <3>6. g * c \in Int /\ t2 * u \in Int
      BY <1>2, <1>5 DEF Positive
    <3> QED BY <1>7, <2>2, <2>4, <3>1, <3>2, <3>3, <3>4, <3>5, <3>6
  <2>8. Divides(t1, v - s1) /\ Divides(t2, v - s2)
    BY <2>6, <2>7 DEF Divides
  <2>9. low <= v /\ v <= high
    BY <1>9, <1>11, <2>1
  <2> HIDE DEF v
  <2>10. s1 <= v /\ v <= e1 /\ s2 <= v /\ v <= e2
    BY <2>5, <2>9
  <2> QED BY <2>5, <2>8, <2>10
<1> QED BY <1>1, <1>10, <1>11

(* _bounded_progressions_intersect, which decides for two long ranges      *)
(* without enumerating them, is exact: it says that they meet if and only  *)
(* if they have an iteration in common.                                    *)
THEOREM ProgressionsIntersectIsExact ==
  ASSUME NEW start1 \in Int, NEW end1 \in Int, NEW step1 \in Nat \ {0},
         NEW start2 \in Int, NEW end2 \in Int, NEW step2 \in Nat \ {0}
  PROVE  Tensor!ProgressionsIntersect(start1, end1, step1, start2, end2, step2)
           <=> \E n \in (start1 .. end1) \cap (start2 .. end2) :
                 (n - start1) % step1 = 0 /\ (n - start2) % step2 = 0
<1>1. step1 \in Positive /\ step2 \in Positive
  BY DEF Positive
<1>2. \A n \in Int : /\ (n - start1) % step1 = 0 <=> Divides(step1, n - start1)
                     /\ (n - start2) % step2 = 0 <=> Divides(step2, n - start2)
  BY <1>1, DividesMod
<1>3. Tensor!ProgressionsIntersect(start1, end1, step1, start2, end2, step2)
        <=> \E v \in Int : /\ start1 <= v /\ v <= end1 /\ Divides(step1, v - start1)
                          /\ start2 <= v /\ v <= end2 /\ Divides(step2, v - start2)
  BY <1>1, CommonValue
<1> DEFINE Common(n) == /\ start1 <= n /\ n <= end1 /\ (n - start1) % step1 = 0
                        /\ start2 <= n /\ n <= end2 /\ (n - start2) % step2 = 0
<1>4. \A n \in Int : Common(n) <=> /\ start1 <= n /\ n <= end1 /\ Divides(step1, n - start1)
                                  /\ start2 <= n /\ n <= end2 /\ Divides(step2, n - start2)
  BY <1>2
<1>5. \A n : n \in (start1 .. end1) \cap (start2 .. end2)
             <=> n \in Int /\ start1 <= n /\ n <= end1 /\ start2 <= n /\ n <= end2
  OBVIOUS
<1>6. (\E n \in (start1 .. end1) \cap (start2 .. end2) :
         (n - start1) % step1 = 0 /\ (n - start2) % step2 = 0) <=> \E n \in Int : Common(n)
  BY <1>5, Zenon
<1> HIDE DEF Common
<1> QED
  BY <1>3, <1>4, <1>6, Zenon

-----------------------------------------------------------------------------
(* HasCandidateBetween finds every candidate between the bounds.           *)
LEMMA CandidateIsFound ==
  ASSUME NEW i \in Tensor!Incident, NEW t \in Tensor!Triggers(i), NEW low \in Int, NEW high \in Int,
         low <= t, high = 0 \/ t <= high
  PROVE  Tensor!HasCandidateBetween(i, low, high)
<1>1. /\ i.at \subseteq Nat /\ i.start \in Nat /\ i.end \in Nat /\ i.every \in Nat
  BY DEF Tensor!Incident
<1>2. CASE ~Tensor!Ranged(i)
  BY <1>1, <1>2 DEF Tensor!HasCandidateBetween, Tensor!Triggers
<1>3. CASE Tensor!Ranged(i)
  <2>1. t \in i.start .. i.end /\ (t - i.start) % i.every = 0
    BY <1>3 DEF Tensor!Triggers
  <2>2. i.every \in Positive
    BY <1>1, <1>3 DEF Tensor!Ranged, Positive
  <2> DEFINE late == low - i.start
             up == ((late + i.every - 1) \div i.every) * i.every
             first == IF late > 0 THEN i.start + up ELSE i.start
             k == (t - i.start) \div i.every
  <2>3. k \in Int /\ t - i.start = i.every * k
    <3>1. t - i.start \in Int
      BY <1>1, <2>1
    <3>2. k \in Int /\ t - i.start = i.every * k + ((t - i.start) % i.every)
      BY <2>2, <3>1, DivMod
    <3> HIDE DEF k
    <3> QED BY <2>1, <2>2, <3>1, <3>2 DEF Positive
  <2>4. up <= t - i.start
    <3> HIDE DEF k
    <3>1. late \in Int /\ late <= i.every * k
      BY <1>1, <2>1, <2>3
    <3> HIDE DEF late
    <3> QED BY <2>2, <2>3, <3>1, DivUp
  <2>5. up \in Int
    <3> DEFINE ceil == (late + i.every - 1) \div i.every
    <3>1. late + i.every - 1 \in Int /\ i.every \in Int
      BY <1>1
    <3>2. ceil \in Int
      BY <2>2, <3>1, DivMod
    <3> HIDE DEF ceil
    <3>3. ceil * i.every \in Int
      BY <3>1, <3>2
    <3> QED BY <3>3 DEF ceil
  <2> HIDE DEF up
  <2>6. first <= t
    BY <1>1, <2>1, <2>4, <2>5
  <2>7. Tensor!HasCandidateBetween(i, low, high) <=> first <= i.end /\ (high = 0 \/ first <= high)
    BY <1>3 DEF Tensor!HasCandidateBetween, up
  <2>8. first \in Int
    BY <1>1, <2>5
  <2> HIDE DEF first
  <2> QED BY <1>1, <2>1, <2>6, <2>7, <2>8
<1> QED BY <1>2, <1>3

-----------------------------------------------------------------------------
(* The window of incident i that begins at m is open at n.                 *)
Open(i, m, n) == m <= n /\ (i.iterations > 0 => n < m + i.iterations)

(* Two windows of which one is open when the other begins are found, from  *)
(* either of them.                                                         *)
LEMMA WindowsAreFound ==
  ASSUME NEW i \in Tensor!Incident, NEW j \in Tensor!Incident,
         NEW m \in Tensor!Triggers(i), NEW n \in Tensor!Triggers(j),
         1 <= m, Open(i, m, n)
  PROVE  Tensor!WindowHits(m, i, j) /\ Tensor!WindowHits(n, j, i)
<1>1. i.iterations \in Nat /\ j.iterations \in Nat
  BY DEF Tensor!Incident
<1>2. m \in Int /\ n \in Int
  BY DEF Tensor!Incident, Tensor!Triggers
<1>3. Tensor!WindowHits(m, i, j)
  <2> DEFINE before == m - j.iterations + 1
             low == IF j.iterations = 0 \/ before < 1 THEN 1 ELSE before
             high == IF i.iterations = 0 THEN 0 ELSE m + i.iterations - 1
  <2>1. low \in Int /\ high \in Int /\ low <= n /\ (high = 0 \/ n <= high)
    BY <1>1, <1>2 DEF Open
  <2>2. Tensor!WindowHits(m, i, j) <=> Tensor!HasCandidateBetween(j, low, high)
    BY DEF Tensor!WindowHits
  <2> HIDE DEF low, high
  <2> QED BY <2>1, <2>2, CandidateIsFound
<1>4. Tensor!WindowHits(n, j, i)
  <2> DEFINE before == n - i.iterations + 1
             low == IF i.iterations = 0 \/ before < 1 THEN 1 ELSE before
             high == IF j.iterations = 0 THEN 0 ELSE n + j.iterations - 1
  <2>1. low \in Int /\ high \in Int /\ low <= m /\ (high = 0 \/ m <= high)
    BY <1>1, <1>2 DEF Open
  <2>2. Tensor!WindowHits(n, j, i) <=> Tensor!HasCandidateBetween(i, low, high)
    BY DEF Tensor!WindowHits
  <2> HIDE DEF low, high
  <2> QED BY <2>1, <2>2, CandidateIsFound
<1> QED BY <1>3, <1>4

(* The module has these notions by a name of its own.                      *)
LEMMA SameNotions ==
  ASSUME NEW S
  PROVE  (Tensor!IsFiniteSet(S) <=> IsFiniteSet(S)) /\ Tensor!Cardinality(S) = Cardinality(S)
BY DEF Tensor!IsFiniteSet, IsFiniteSet, Tensor!Cardinality, Cardinality

(* The windows of one incident do not meet.                                *)
LEMMA OwnWindowsAreApart ==
  ASSUME NEW i \in Tensor!Incident, IsFiniteSet(i.at), Tensor!WellSpaced(i),
         NEW m \in Tensor!Triggers(i), NEW n \in Tensor!Triggers(i),
         m < n, Open(i, m, n)
  PROVE  FALSE
<1>1. /\ i.iterations \in Nat /\ i.at \subseteq Nat /\ i.start \in Nat /\ i.end \in Nat
      /\ i.every \in Nat
  BY DEF Tensor!Incident
<1>2. CASE Tensor!Ranged(i)
  <2>1. /\ m \in i.start .. i.end /\ (m - i.start) % i.every = 0
        /\ n \in i.start .. i.end /\ (n - i.start) % i.every = 0
    BY <1>2 DEF Tensor!Triggers
  <2>2. i.every \in Positive
    BY <1>1, <1>2 DEF Tensor!Ranged, Positive
  <2>3. \A x \in i.start .. i.end : (x - i.start) % i.every = 0 =>
          \E k \in Int : x - i.start = i.every * k
    <3> SUFFICES ASSUME NEW x \in i.start .. i.end, (x - i.start) % i.every = 0
                 PROVE  \E k \in Int : x - i.start = i.every * k
      OBVIOUS
    <3> DEFINE k == (x - i.start) \div i.every
    <3>1. x - i.start \in Int
      BY <1>1
    <3>2. k \in Int /\ x - i.start = i.every * k + ((x - i.start) % i.every)
      BY <2>2, <3>1, DivMod
    <3> HIDE DEF k
    <3>3. (x - i.start) % i.every = 0
      OBVIOUS
    <3>4. i.every \in Int
      BY <1>1
    <3>5. x - i.start = i.every * k
      BY <3>1, <3>2, <3>3, <3>4
    <3> QED BY <3>2, <3>5
  <2>4. PICK k \in Int : m - i.start = i.every * k
    BY <2>1, <2>3
  <2>5. PICK l \in Int : n - i.start = i.every * l
    BY <2>1, <2>3
  <2>6. k < l
    <3> SUFFICES ASSUME l <= k PROVE FALSE
      OBVIOUS
    <3>1. i.every * l <= i.every * k
      BY <2>2 DEF Positive
    <3> QED BY <1>1, <2>1, <2>4, <2>5, <3>1
  <2>7. n - m >= i.every
    <3>1. i.every * (k + 1) <= i.every * l
      BY <2>2, <2>6 DEF Positive
    <3>2. i.every * (k + 1) = i.every * k + i.every
      <4> i.every \in Int
        BY <2>2 DEF Positive
      <4> QED OBVIOUS
    <3>3. i.every * k \in Int /\ i.every * l \in Int
      BY <2>2 DEF Positive
    <3> QED BY <1>1, <2>1, <2>2, <2>4, <2>5, <3>1, <3>2, <3>3 DEF Positive
  <2>8. i.end - i.start >= i.every
    BY <1>1, <2>1, <2>7
  <2>9. Tensor!CandidateCount(i) # 1
    <3>1. i.end - i.start \in Int
      BY <1>1
    <3> DEFINE q == (i.end - i.start) \div i.every
               rest == (i.end - i.start) % i.every
    <3>2. q \in Int /\ rest \in 0 .. i.every - 1 /\ i.end - i.start = i.every * q + rest
      <4> HIDE DEF q, rest
      <4> DEFINE span == i.end - i.start
      <4>1. span \in Int
        BY <3>1
      <4> HIDE DEF span
      <4>2. /\ span \div i.every \in Int /\ span % i.every \in 0 .. i.every - 1
            /\ span = i.every * (span \div i.every) + (span % i.every)
        BY <2>2, <4>1, DivMod
      <4> QED BY <4>2 DEF span, q, rest
    <3> HIDE DEF q, rest
    <3>3. q # 0
      BY <2>2, <2>8, <3>2 DEF Positive
    <3> QED BY <1>2, <3>2, <3>3 DEF Tensor!CandidateCount, q
  <2> QED BY <1>1, <1>2, <2>1, <2>2, <2>7, <2>9 DEF Tensor!WellSpaced, Open
<1>3. CASE ~Tensor!Ranged(i)
  <2>1. m \in i.at /\ n \in i.at
    BY <1>3 DEF Tensor!Triggers
  <2>2. CASE i.iterations = 0
    <3>1. Cardinality(i.at) = 1
      BY <1>3, <2>2, SameNotions DEF Tensor!WellSpaced, Tensor!CandidateCount
    <3>2. PICK x : i.at = {x}
      BY <3>1, FS_Singleton
    <3>3. m = n
      BY <2>1, <3>2
    <3> QED BY <1>1, <2>1, <3>3
  <2>3. CASE i.iterations # 0
    BY <1>1, <1>3, <2>1, <2>3 DEF Tensor!WellSpaced, Open
  <2> QED BY <2>2, <2>3
<1> QED BY <1>2, <1>3

-----------------------------------------------------------------------------
(* A finite set of numbers has a bound: a smallest unbounded one would     *)
(* still have none without one of its members.                             *)
LEMMA HasBound ==
  ASSUME NEW S \in SUBSET Nat, IsFiniteSet(S)
  PROVE  \E top \in Nat : \A n \in S : n <= top
<1> DEFINE HasTop(T) == \E top \in Nat : \A n \in T : n <= top
           Sizes == {Cardinality(T) : T \in {U \in SUBSET S : ~HasTop(U)}}
<1> SUFFICES ASSUME ~HasTop(S) PROVE FALSE
  OBVIOUS
<1>1. \A T \in SUBSET S : IsFiniteSet(T) /\ Cardinality(T) \in Nat
  BY FS_Subset, FS_CardinalityType
<1>2. Sizes \in SUBSET Nat /\ Sizes # {}
  <2> HIDE DEF HasTop
  <2> QED BY <1>1
<1>3. PICK k \in Sizes : \A y \in Sizes : k <= y
  <2> HIDE DEF Sizes
  <2> QED BY <1>2, Least
<1>4. PICK T \in SUBSET S : ~HasTop(T) /\ k = Cardinality(T)
  <2> HIDE DEF HasTop
  <2> QED OBVIOUS
<1>5. PICK x \in T : x \in Nat
  <2>1. T # {}
    BY <1>4
  <2> QED BY <1>4, <2>1
<1>6. Cardinality(T \ {x}) = k - 1 /\ T \ {x} \in SUBSET S
  BY <1>1, <1>4, <1>5, FS_RemoveElement
<1>7. ~HasTop(T \ {x})
  <2> SUFFICES ASSUME NEW top \in Nat, \A n \in T \ {x} : n <= top PROVE FALSE
    OBVIOUS
  <2> DEFINE high == IF top < x THEN x ELSE top
  <2>1. high \in Nat /\ \A n \in T : n <= high
    BY <1>4, <1>5
  <2> QED BY <1>4, <2>1
<1>8. Cardinality(T \ {x}) \in Sizes
  <2> HIDE DEF HasTop
  <2> QED BY <1>6, <1>7
<1>9. k \in Nat
  BY <1>1, <1>4
<1> QED BY <1>3, <1>6, <1>8, <1>9

(* The ends of a finite set of triggers are what CHOOSE finds.             *)
LEMMA FirstAndLast ==
  ASSUME NEW i \in Tensor!Incident, IsFiniteSet(i.at), NEW m \in Tensor!Triggers(i)
  PROVE  /\ Tensor!FirstOf(Tensor!Triggers(i)) \in Nat /\ Tensor!FirstOf(Tensor!Triggers(i)) <= m
         /\ Tensor!LastOf(Tensor!Triggers(i)) \in Nat /\ m <= Tensor!LastOf(Tensor!Triggers(i))
<1> DEFINE T == Tensor!Triggers(i)
<1>1. T \subseteq Nat /\ \E top \in Nat : \A n \in T : n <= top
  <2>1. /\ i.at \subseteq Nat /\ i.start \in Nat /\ i.end \in Nat /\ i.every \in Nat
    BY DEF Tensor!Incident
  <2>2. CASE Tensor!Ranged(i)
    <3>1. \A n \in T : n \in i.start .. i.end
      BY <2>2 DEF Tensor!Triggers
    <3> HIDE DEF T
    <3>2. \A n \in T : n \in Nat /\ n <= i.end
      BY <2>1, <3>1
    <3> QED BY <2>1, <3>2
  <2>3. CASE ~Tensor!Ranged(i)
    <3>1. T = i.at
      BY <2>3 DEF Tensor!Triggers
    <3> HIDE DEF T
    <3> QED BY <2>1, <3>1, HasBound
  <2> QED BY <2>2, <2>3
<1>2. m \in T
  OBVIOUS
<1>3. \E n \in T : \A x \in T : n <= x
  <2> HIDE DEF T
  <2> QED BY <1>1, <1>2, Least
<1>4. \E n \in T : \A x \in T : n >= x
  <2> HIDE DEF T
  <2>1. PICK top \in Nat : \A n \in T : n <= top
    BY <1>1
  <2> DEFINE D == {top - n : n \in T}
  <2>2. D \in SUBSET Nat
    BY <1>1, <2>1
  <2>3. D # {}
    BY <1>2
  <2>4. PICK d \in D : \A x \in D : d <= x
    <3> HIDE DEF D
    <3> QED BY <2>2, <2>3, Least
  <2>5. PICK n \in T : d = top - n
    OBVIOUS
  <2>6. \A x \in T : n >= x
    <3> SUFFICES ASSUME NEW x \in T PROVE n >= x
      OBVIOUS
    <3>1. d <= top - x
      BY <2>4
    <3> QED BY <1>1, <2>1, <2>5, <3>1
  <2> QED BY <2>6
<1>5. Tensor!FirstOf(T) \in T /\ \A x \in T : Tensor!FirstOf(T) <= x
  <2> HIDE DEF T
  <2> QED BY <1>3 DEF Tensor!FirstOf
<1>6. Tensor!LastOf(T) \in T /\ \A x \in T : Tensor!LastOf(T) >= x
  <2> HIDE DEF T
  <2> QED BY <1>4 DEF Tensor!LastOf
<1>7. \A x \in T : x \in Nat
  BY <1>1
<1> HIDE DEF T
<1>8. Tensor!LastOf(T) \in Nat /\ m \in Nat /\ Tensor!LastOf(T) >= m
  BY <1>2, <1>6, <1>7
<1>9. Tensor!FirstOf(T) \in Nat /\ Tensor!FirstOf(T) <= m
  BY <1>2, <1>5, <1>7
<1>10. m <= Tensor!LastOf(T)
  BY <1>8
<1> QED BY <1>8, <1>9, <1>10 DEF T

(* Windows that meet, whichever begins first.                              *)
Meet(i, j, m, n) ==
  /\ i.iterations > 0 => n < m + i.iterations
  /\ j.iterations > 0 => m < n + j.iterations

(* Two windows that meet are found in long ranges, by the offset of their  *)
(* candidates.                                                             *)
LEMMA LongWindowsAreFound ==
  ASSUME NEW i \in Tensor!Incident, IsFiniteSet(i.at),
         NEW j \in Tensor!Incident, IsFiniteSet(j.at),
         NEW m \in Tensor!Triggers(i), NEW n \in Tensor!Triggers(j), Meet(i, j, m, n)
  PROVE  Tensor!LongRangesMayOverlap(i, j)
<1>1. /\ i.iterations \in Nat /\ j.iterations \in Nat
      /\ i.start \in Nat /\ i.end \in Nat /\ i.every \in Nat
      /\ j.start \in Nat /\ j.end \in Nat /\ j.every \in Nat
  BY DEF Tensor!Incident
<1>2. m \in Nat /\ n \in Nat
  BY DEF Tensor!Incident, Tensor!Triggers
<1> DEFINE ends(a, b) == /\ a.iterations > 0
                         /\ Tensor!LastOf(Tensor!Triggers(a)) + a.iterations - 1
                              < Tensor!FirstOf(Tensor!Triggers(b))
<1>3. ~ends(i, j)
  <2> SUFFICES ASSUME ends(i, j) PROVE FALSE
    OBVIOUS
  <2>1. n < m + i.iterations
    BY DEF Meet
  <2>2. /\ Tensor!FirstOf(Tensor!Triggers(j)) \in Nat /\ Tensor!FirstOf(Tensor!Triggers(j)) <= n
        /\ Tensor!LastOf(Tensor!Triggers(i)) \in Nat /\ m <= Tensor!LastOf(Tensor!Triggers(i))
    BY FirstAndLast
  <2> QED BY <1>1, <1>2, <2>1, <2>2
<1>4. ~ends(j, i)
  <2> SUFFICES ASSUME ends(j, i) PROVE FALSE
    OBVIOUS
  <2>1. m < n + j.iterations
    BY DEF Meet
  <2>2. /\ Tensor!FirstOf(Tensor!Triggers(i)) \in Nat /\ Tensor!FirstOf(Tensor!Triggers(i)) <= m
        /\ Tensor!LastOf(Tensor!Triggers(j)) \in Nat /\ n <= Tensor!LastOf(Tensor!Triggers(j))
    BY FirstAndLast
  <2> QED BY <1>1, <1>2, <2>1, <2>2
<1>5. ASSUME i.iterations > 0, j.iterations > 0, Tensor!Ranged(i), Tensor!Ranged(j)
      PROVE  \E offset \in 1 - j.iterations .. i.iterations - 1 :
               Tensor!ProgressionsIntersect(i.start, i.end, i.every,
                                            j.start - offset, j.end - offset, j.every)
  <2> DEFINE offset == n - m
  <2>1. offset \in 1 - j.iterations .. i.iterations - 1
    BY <1>1, <1>2, <1>5 DEF Meet
  <2>2. i.every \in Positive /\ j.every \in Positive
    BY <1>1, <1>5 DEF Tensor!Ranged, Positive
  <2>3. /\ m \in i.start .. i.end /\ (m - i.start) % i.every = 0
        /\ n \in j.start .. j.end /\ (n - j.start) % j.every = 0
    BY <1>5 DEF Tensor!Triggers
  <2>4. Divides(i.every, m - i.start) /\ Divides(j.every, n - j.start)
    BY <1>1, <2>2, <2>3, DividesMod
  <2>5. m - (j.start - offset) = n - j.start
    BY <1>1, <1>2
  <2>6. /\ i.start <= m /\ m <= i.end /\ j.start - offset <= m /\ m <= j.end - offset
        /\ Divides(j.every, m - (j.start - offset))
    BY <1>1, <1>2, <2>3, <2>4, <2>5
  <2>7. /\ i.start \in Int /\ i.end \in Int /\ m \in Int
        /\ j.start - offset \in Int /\ j.end - offset \in Int
    BY <1>1, <1>2
  <2> DEFINE s == j.start - offset
             e == j.end - offset
  <2>8. Tensor!ProgressionsIntersect(i.start, i.end, i.every, s, e, j.every)
    <3> HIDE DEF s, e
    <3>1. s \in Int /\ e \in Int /\ s <= m /\ m <= e /\ Divides(j.every, m - s)
      BY <2>6, <2>7 DEF s, e
    <3> QED BY <2>2, <2>4, <2>6, <2>7, <3>1, CommonValue
  <2> HIDE DEF offset
  <2> QED BY <2>1, <2>8
<1> QED BY <1>3, <1>4, <1>5 DEF Tensor!LongRangesMayOverlap

-----------------------------------------------------------------------------
(* The effect that is on began at a candidate of its incident, and its     *)
(* window is open.                                                         *)
SlotInv ==
  /\ schedule \in Schedules /\ Tensor!Accepted(schedule, mode)
  /\ iter \in Nat \ {0}
  /\ {"on", "by", "start"} \subseteq DOMAIN effect
  /\ effect.on => /\ effect.by \in 1 .. 2
                  /\ effect.start \in Tensor!Triggers(schedule[effect.by])
                  /\ 1 <= effect.start /\ Open(schedule[effect.by], effect.start, iter)
  /\ Tensor!TargetIsFree

(* In an accepted schedule an incident that is due finds no window open.   *)
LEMMA NobodyIsInTheWay ==
  ASSUME Tensor!StateFaultAssumption, NEW pair \in Schedules, NEW m1, Tensor!Accepted(pair, m1),
         NEW k \in 1 .. 2, NEW j \in 1 .. 2,
         NEW m \in Tensor!Triggers(pair[k]), NEW n \in Tensor!Triggers(pair[j]),
         1 <= m, Open(pair[k], m, n), k # j \/ m < n
  PROVE  FALSE
<1>1. /\ pair[1] \in Tensor!Incident /\ pair[2] \in Tensor!Incident
      /\ IsFiniteSet(pair[1].at) /\ IsFiniteSet(pair[2].at)
  BY SameNotions DEF Tensor!StateFaultAssumption
<1>2. Tensor!WellSpaced(pair[1]) /\ Tensor!WellSpaced(pair[2])
  BY DEF Tensor!Accepted
<1>3. CASE k = j
  <2>1. /\ pair[k] \in Tensor!Incident /\ IsFiniteSet(pair[k].at) /\ Tensor!WellSpaced(pair[k])
    BY <1>1, <1>2
  <2> QED BY <1>3, <2>1, OwnWindowsAreApart
<1>4. CASE k # j
  <2>1. /\ pair[k] \in Tensor!Incident /\ pair[j] \in Tensor!Incident
    BY <1>1
  <2>2. Tensor!WindowHits(m, pair[k], pair[j]) /\ Tensor!WindowHits(n, pair[j], pair[k])
    BY <2>1, WindowsAreFound
  <2>3. ~Tensor!WindowsMayOverlap(pair[1], pair[2])
    BY DEF Tensor!Accepted
  <2> DEFINE a == pair[1]
             b == pair[2]
  <2>4. /\ \E x \in Tensor!Triggers(a) : Tensor!WindowHits(x, a, b)
        /\ \E x \in Tensor!Triggers(b) : Tensor!WindowHits(x, b, a)
    BY <1>4, <2>2
  <2>5. Tensor!LongRangesMayOverlap(a, b)
    <3>1. pair[k].iterations \in Nat /\ pair[j].iterations \in Nat /\ m \in Nat /\ n \in Nat
      BY <2>1 DEF Tensor!Incident, Tensor!Triggers
    <3>2. Meet(pair[k], pair[j], m, n) /\ Meet(pair[j], pair[k], n, m)
      BY <3>1 DEF Meet, Open
    <3> QED BY <1>1, <1>4, <3>2, LongWindowsAreFound
  <2> QED BY <2>3, <2>4, <2>5 DEF Tensor!WindowsMayOverlap
<1> QED BY <1>3, <1>4

(* Activation at iteration n, after which t, e and h are as given.         *)
LEMMA Activates ==
  ASSUME Tensor!StateFaultAssumption, SlotInv,
         NEW n \in Nat \ {0}, NEW S \in SUBSET Tensor!Due(n), NEW t, NEW e, NEW h,
         {"on", "by", "start"} \subseteq DOMAIN e,
         e.on => /\ e.by \in 1 .. 2 /\ e.start \in Tensor!Triggers(schedule[e.by])
                 /\ 1 <= e.start /\ e.start < n /\ Open(schedule[e.by], e.start, n),
         Tensor!Activate(S, n, t, e, h), schedule' = schedule, mode' = mode
  PROVE  SlotInv'
<1>1. \A k \in S : k \in 1 .. 2 /\ n \in Tensor!Triggers(schedule[k])
  BY DEF Tensor!Due
<1>2. schedule \in Schedules /\ Tensor!Accepted(schedule, mode)
  BY DEF SlotInv
<1>3. \A k \in 1 .. 2 : schedule[k].iterations \in Nat
  BY <1>2 DEF Tensor!StateFaultAssumption, Tensor!Incident
<1>4. S # {} => ~e.on
  <2> SUFFICES ASSUME e.on, NEW k \in S PROVE FALSE
    OBVIOUS
  <2> QED BY <1>1, <1>2, NobodyIsInTheWay
<1>5. \A k, j \in S : k = j
  <2> SUFFICES ASSUME NEW k \in S, NEW j \in S, k # j PROVE FALSE
    OBVIOUS
  <2>1. Open(schedule[k], n, n)
    BY <1>1, <1>3 DEF Open
  <2> QED BY <1>1, <1>2, <2>1, NobodyIsInTheWay
<1>6. ~(Cardinality(S) > 1)
  <2>1. CASE S = {}
    BY <2>1, FS_EmptySet
  <2>2. CASE S # {}
    <3>1. PICK k \in S : TRUE
      BY <2>2
    <3>2. S = {k}
      BY <1>5, <3>1
    <3>3. Cardinality({k}) = 1
      BY FS_Singleton
    <3>4. Cardinality(S) = 1
      BY <3>2, <3>3
    <3> QED BY <3>4
  <2> QED BY <2>1, <2>2
<1>7. iter' = n
  BY DEF Tensor!Activate
<1>8. CASE effect' = e /\ stage' = "training"
  BY <1>2, <1>7, <1>8 DEF SlotInv, Tensor!TargetIsFree
<1>9. CASE /\ stage' = "training"
           /\ \E k \in S : effect' = [on |-> TRUE, by |-> k, start |-> n, original |-> t.value,
                    transformed |-> Tensor!Transformed(k, t, h), replaced |-> FALSE,
                    updates |-> t.updates]
  <2>1. PICK k \in S : /\ effect'.by = k /\ effect'.start = n
                        /\ {"on", "by", "start"} \subseteq DOMAIN effect'
    BY <1>9
  <2>2. Open(schedule[k], n, n)
    BY <1>1, <1>3 DEF Open
  <2> QED BY <1>1, <1>2, <1>7, <1>9, <2>1, <2>2 DEF SlotInv, Tensor!TargetIsFree
<1>10. CASE /\ S # {} /\ effect' = Tensor!NoEffect
            /\ stage' = IF e.on \/ Tensor!Cardinality(S) > 1 THEN "clash" ELSE "raised"
  <2>1. Tensor!Cardinality(S) = Cardinality(S)
    BY SameNotions
  <2>2. stage' = "raised"
    BY <1>4, <1>6, <1>10, <2>1
  <2> QED BY <1>2, <1>7, <1>10, <2>2 DEF SlotInv, Tensor!TargetIsFree, Tensor!NoEffect
<1> QED BY <1>8, <1>9, <1>10 DEF Tensor!Activate

(* Every step keeps the slot of the tensor as the schedule has it.         *)
LEMMA SlotStep ==
  ASSUME Tensor!StateFaultAssumption, SlotInv, [Tensor!Next]_(Tensor!vars)
  PROVE  SlotInv'
<1>1. schedule' = schedule /\ mode' = mode
  BY DEF Tensor!Next, Tensor!vars, Tensor!Enable, Tensor!Step, Tensor!Notify, Tensor!Close,
         Tensor!Save, Tensor!Load
<1>2. schedule \in Schedules /\ iter \in Nat \ {0}
  BY DEF SlotInv
<1>3. \A k \in 1 .. 2 : schedule[k].iterations \in Nat
  BY <1>2 DEF Tensor!StateFaultAssumption, Tensor!Incident
<1>4. ASSUME NEW S, Tensor!Enable(S) PROVE SlotInv'
  BY <1>1, <1>4, Activates DEF Tensor!Enable, Tensor!NoEffect
<1>5. ASSUME NEW S, Tensor!Step(S) PROVE SlotInv'
  <2> DEFINE t == IF Tensor!Expires THEN Tensor!Restored(Tensor!Trained(tensor), effect, FALSE, iter)
                  ELSE Tensor!Trained(tensor)
             e == IF Tensor!Expires THEN Tensor!NoEffect ELSE effect
             h == Tensor!Observed(history, iter + 1, t)
  <2>1. Tensor!Activate(S, iter + 1, t, e, h) /\ S \in SUBSET Tensor!Due(iter + 1)
    BY <1>5 DEF Tensor!Step
  <2>2. e.on => /\ e.by \in 1 .. 2 /\ e.start \in Tensor!Triggers(schedule[e.by])
                /\ 1 <= e.start /\ e.start < iter + 1 /\ Open(schedule[e.by], e.start, iter + 1)
    <3> SUFFICES ASSUME e.on
                 PROVE  /\ e.by \in 1 .. 2 /\ e.start \in Tensor!Triggers(schedule[e.by])
                        /\ 1 <= e.start /\ e.start < iter + 1
                        /\ Open(schedule[e.by], e.start, iter + 1)
      OBVIOUS
    <3>1. ~Tensor!Expires /\ e = effect
      BY DEF Tensor!NoEffect
    <3>2. effect.start \in Nat
      BY <1>2, <3>1 DEF SlotInv, Tensor!StateFaultAssumption, Tensor!Incident, Tensor!Triggers
    <3> QED BY <1>2, <1>3, <3>1, <3>2 DEF SlotInv, Open, Tensor!Expires
  <2>3. iter + 1 \in Nat \ {0} /\ {"on", "by", "start"} \subseteq DOMAIN e
    BY <1>2 DEF SlotInv, Tensor!NoEffect
  <2> HIDE DEF t, e, h
  <2> QED BY <1>1, <2>1, <2>2, <2>3, Activates
<1>6. CASE \/ \E boundary \in {"recovery", "replacement"} : Tensor!Notify(boundary)
           \/ Tensor!Close \/ Tensor!Save \/ Tensor!Load \/ UNCHANGED Tensor!vars
  <2>1. iter' = iter /\ (stage' = stage \/ stage' = "closed")
    BY <1>6 DEF Tensor!Notify, Tensor!Close, Tensor!Save, Tensor!Load, Tensor!vars
  <2>2. CASE effect' = Tensor!NoEffect
    BY <1>1, <2>1, <2>2 DEF SlotInv, Tensor!TargetIsFree, Tensor!NoEffect
  <2>3. CASE effect' \in {effect, [effect EXCEPT !.replaced = TRUE]}
    <3>1. /\ effect'.on => effect.on /\ effect'.by = effect.by /\ effect'.start = effect.start
          /\ {"on", "by", "start"} \subseteq DOMAIN effect'
      BY <2>3 DEF SlotInv
    <3> QED BY <1>1, <2>1, <3>1 DEF SlotInv, Tensor!TargetIsFree
  <2> QED BY <1>6, <2>2, <2>3
          DEF Tensor!Notify, Tensor!Close, Tensor!Save, Tensor!Load, Tensor!vars
<1> QED BY <1>1, <1>4, <1>5, <1>6 DEF Tensor!Next

(* A tensor carries one fault at a time: in a schedule that                *)
(* validate_schedule has accepted, no incident is ever due while the       *)
(* effect of another, or its own, is on, so that _active_keys never        *)
(* refuses an activation.  Whatever the ranges, also those that are too    *)
(* long to enumerate.                                                      *)
THEOREM TargetIsFreeAlways ==
  ASSUME Tensor!StateFaultAssumption
  PROVE  Tensor!Spec => []Tensor!TargetIsFree
<1>1. Tensor!Init => SlotInv
  BY DEF Tensor!Init, SlotInv, Tensor!NoEffect, Tensor!TargetIsFree
<1>2. SlotInv => Tensor!TargetIsFree
  BY DEF SlotInv
<1> QED BY <1>1, <1>2, SlotStep, PTL DEF Tensor!Spec
=============================================================================
