------------------------ MODULE CheckpointTrustProof -------------------------
(***************************************************************************)
(* What the checkpoints may be trusted with, for every catalog of replay   *)
(* shapes and every bound on steps, candidates and stops: LATEST names     *)
(* clean and validated state, the two tiers validate the same generation,  *)
(* and verified generations are clean.                                     *)
(*                                                                         *)
(* A handler decides in memory and then changes files one by one, so the   *)
(* inductive invariant is about the changes to come: of each part of the   *)
(* persisted state it says what will be true of it when the program in     *)
(* todo has been carried out, and that a job which is killed before then   *)
(* leaves nothing that a restart could mistake for validated state.        *)
(*                                                                         *)
(* 1. JobInv: the schedule is in step with the evidence for the candidate, *)
(*    and the changes to come are in order.                                *)
(* 2. ManifestInv: a commit that is under way, LATEST's candidate and the  *)
(*    pending one.  Corruption in the pending candidate is also in the     *)
(*    live state, and the shape that reveals it is still ahead.            *)
(* 3. RolesInv: what manifest and status will say.                         *)
(* 4. FilesInv: shards on disk, captures in memory and the GEMINI          *)
(*    candidate, which is an ancestor of the live state.                   *)
(*                                                                         *)
(* The second half is about the sidecars of a pair of ranks (TS), for one  *)
(* stop and a rotating catalog.  Its invariant SideInv has three stages:   *)
(* before the stop (FirstInv), while the ranks load (LoadInv), and in the  *)
(* run after that (RunInv).                                                *)
(***************************************************************************)
EXTENDS CheckpointTrust, SidecarTrust, WellFoundedInduction, TLAPS

(* The values of the persisted state: the status of a durable record, the  *)
(* certification mode, and the shape that reveals corruption, if any.      *)
Statuses == {"none", "writing", "candidate", "recovery_verified", "rejected"}
Modes == {"latest", "recovery_verified"}
Taints == Shapes \cup {Clean}

(* The file changes a handler can have before it.                          *)
Changes ==
  [do : {"record"}, id : Epochs, status : Statuses]
    \cup [do : {"pending", "latest", "candidate"}, id : Epochs]
    \cup [do : {"unlink", "shards", "promote", "reject", "clear", "raise"}]
    \cup [do : {"mode"}, mode : {"latest"}]
    \cup [do : {"load"}, mode : Modes \cup {"status"}]

(* A change of this kind is still to come.                                 *)
Has(q, what) == \E i \in 1 .. Len(q) : q[i].do = what

(* The type of every variable.                                             *)
JobTypes ==
  /\ catalog \in Catalogs
  /\ up \in BOOLEAN
  /\ step \in 0 .. MaxStep
  /\ pos \in Shapes
  /\ taint \in Taints
  /\ \A m \in mem : m.step \in Steps /\ m.taint \in Taints /\ m.pos \in Shapes
  /\ dur.id \in Epochs \cup {0} /\ dur.first \in Shapes /\ dur.checked \in Nat
  /\ dur = [id |-> dur.id, first |-> dur.first, checked |-> dur.checked]
  /\ epoch \in Nat
  /\ todo \in Seq(Changes)
  /\ files \in [Steps -> [taint : Taints, pos : Shapes] \cup {NoFile}]
  /\ status \in [candidate : Steps \cup {NoStep}, verified : Steps \cup {NoStep},
                 history : SUBSET Steps, mode : Modes]
  /\ records \in [Epochs -> Statuses]
  /\ artifact \in [Epochs -> [step : 0 .. MaxStep, taint : Taints]]
  /\ pendingFile \in Epochs \cup {0}
  /\ latestFile \in Epochs \cup {0}

(* A candidate is validated in the order of the schedule, from the shape   *)
(* at which it was saved on.                                               *)
Follows == dur # NoCandidate => dur.id \in Epochs /\ pos = dur.first + dur.checked

(* The order of the changes to come: the roles advance once, before a      *)
(* candidate is saved, and a load is not followed by a boundary.           *)
OncePromoted(q, i) ==
  \A k \in 1 .. Len(q) :
    /\ q[k].do = "promote" => k = i
    /\ q[k].do = "candidate" => k > i

Orderly ==
  \A i \in 1 .. Len(todo) :
    /\ todo[i].do \in {"shards", "promote", "candidate"} => step \in Steps
    /\ Has(todo, "load") => todo[i].do \in {"record", "unlink", "load", "clear"}
    /\ todo[i].do = "load" /\ catalog.durable =>
         i < Len(todo) /\ todo[Len(todo)].do = "clear"
    /\ todo[i].do = "promote" => OncePromoted(todo, i)

(* A job that is down, or has not loaded its state yet, has no memory.     *)
Away == ~up \/ Has(todo, "load")

JobInv ==
  /\ ~up => todo = <<>>
  /\ Away => mem = {} /\ dur = NoCandidate
  /\ catalog.dense \/ ~catalog.durable => dur = NoCandidate
  /\ catalog.dense => status.candidate = NoStep
  /\ Follows
  /\ Orderly

-----------------------------------------------------------------------------
(* The manifests.                                                          *)
Saves(q, id) == \E i \in 1 .. Len(q) : q[i].do = "candidate" /\ q[i].id = id

(* The changes to come, as far as they are about a candidate that is going *)
(* to be named by LATEST.                                                  *)
CommitAt(i) ==
  /\ todo[i].id < epoch /\ todo[i].id # dur.id
  /\ i = 1 => records[todo[1].id] = "recovery_verified"
  /\ i > 1 =>
       /\ todo[i - 1].do = "record" /\ todo[i - 1].id = todo[i].id
       /\ todo[i - 1].status = "recovery_verified"
  /\ IF Saves(todo, todo[i].id) THEN taint = Clean
     ELSE artifact[todo[i].id].step \in Steps /\ artifact[todo[i].id].taint = Clean
  /\ \A k \in 1 .. Len(todo) :
       /\ todo[k].do = "record" /\ todo[k].id = todo[i].id =>
            /\ todo[k].status # "rejected"
            /\ k > i => todo[k].status = "recovery_verified"
       /\ todo[k].do = "candidate" /\ todo[k].id = todo[i].id => k < i

Commits == \A i \in 1 .. Len(todo) : todo[i].do = "latest" => CommitAt(i)

(* What is still to be written leaves LATEST's candidate, and the pending  *)
(* one, as they are.                                                       *)
Spares ==
  \A i \in 1 .. Len(todo) :
    /\ todo[i].do = "candidate" => todo[i].id # latestFile
    /\ todo[i].do = "record" /\ todo[i].id = latestFile => todo[i].status = "recovery_verified"
    /\ todo[i].do = "record" /\ todo[i].id = dur.id => todo[i].status # "rejected"

(* Corruption that a candidate carries will be seen before its last shape. *)
Unseen(t) == t < dur.first \/ pos <= t

Pends ==
  dur # NoCandidate =>
    /\ dur.id < epoch /\ dur.id # latestFile
    /\ IF Saves(todo, dur.id) THEN dur.checked = 0
       ELSE /\ artifact[dur.id].step \in Steps
            /\ artifact[dur.id].taint # Clean =>
                 taint = artifact[dur.id].taint /\ Unseen(taint)

Validated ==
  latestFile # 0 =>
    /\ records[latestFile] = "recovery_verified"
    /\ artifact[latestFile].step \in Steps
    /\ artifact[latestFile].taint = Clean

ManifestInv ==
  /\ Commits
  /\ Spares
  /\ Pends
  /\ Validated
  /\ ~Away => latestFile < epoch /\ epoch >= 1

-----------------------------------------------------------------------------
(* The files and the status.                                               *)
Trusted == status.history \cup ({status.verified} \ {NoStep})

(* A boundary is written before the roles advance to it.                   *)
Boundaries ==
  \A i \in 1 .. Len(todo) :
    /\ todo[i].do = "promote" =>
         /\ i = 1 => files[step] = [taint |-> taint, pos |-> pos]
         /\ i > 1 => todo[i - 1].do = "shards"
         /\ ~Has(todo, "reject")
         /\ taint # Clean => pos <= taint /\ ~catalog.dense
    /\ todo[i].do = "shards" => i < Len(todo) /\ todo[i + 1].do = "promote"

TrustIsClean ==
  /\ \A s \in Trusted : files[s] # NoFile /\ files[s].taint = Clean /\ s <= status.verified
  /\ ~Away =>
       status.verified <= step /\ (status.verified = step => taint = Clean)

CapturesAreOwn ==
  \A m \in mem :
    /\ m.step <= step /\ (m.step = step => m.taint = taint)
    /\ m.step \in Trusted => m.taint = Clean

(* The candidate is a state this run has been in, and what it carries will *)
(* be seen before the cycle ends.                                          *)
FromCandidate(c) ==
  /\ files[c] # NoFile /\ status.verified <= c /\ c <= step
  /\ files[c].taint # Clean => taint = files[c].taint /\ pos <= taint
  /\ step = c => taint = files[c].taint
  /\ \A m \in mem : m.step = c => m.taint = files[c].taint

CandidateIsAncestor ==
  status.candidate # NoStep =>
    /\ ~Away /\ ~Has(todo, "clear") /\ ~Has(todo, "reject") =>
         FromCandidate(status.candidate)
    /\ Has(todo, "promote") =>
         FromCandidate(status.candidate) /\ files[status.candidate].taint = Clean

FilesInv == Boundaries /\ TrustIsClean /\ CapturesAreOwn /\ CandidateIsAncestor

-----------------------------------------------------------------------------
(* The two tiers.                                                          *)
Settles(i) == todo[i].do \in {"pending", "unlink"}

(* What the manifest will name when the changes have been made.            *)
PendingWillBe ==
  IF \E i \in 1 .. Len(todo) : Settles(i)
  THEN \A i \in 1 .. Len(todo) : Settles(i) =>
         \/ \E k \in i + 1 .. Len(todo) : Settles(k)
         \/ todo[i].do = "unlink" /\ dur = NoCandidate
         \/ todo[i].do = "pending" /\ todo[i].id = dur.id
  ELSE pendingFile = dur.id

RolesWillBe ==
  IF Has(todo, "promote") \/ Has(todo, "reject") \/ Has(todo, "clear")
  THEN /\ Has(todo, "reject") \/ Has(todo, "clear") => dur = NoCandidate /\ ~Has(todo, "promote")
       /\ Has(todo, "promote") => (dur # NoCandidate <=> ~catalog.dense)
       /\ dur # NoCandidate => Saves(todo, dur.id)
  ELSE /\ dur # NoCandidate <=> status.candidate # NoStep
       /\ dur # NoCandidate =>
            status.candidate = IF Saves(todo, dur.id) THEN step ELSE artifact[dur.id].step

RolesInv ==
  up /\ catalog.durable /\ ~Has(todo, "raise") =>
    /\ PendingWillBe
    /\ RolesWillBe

-----------------------------------------------------------------------------
(* Max of a bounded set of integers, which TLC computes by CHOOSE, is its  *)
(* largest element (_newest of the generations on disk,                    *)
(* next_validation_epoch).                                                 *)
LEMMA Largest ==
  ASSUME NEW n \in Nat, NEW S \in SUBSET (-1 .. n), S # {}
  PROVE  Max(S) \in S /\ \A y \in S : y <= Max(S)
<1> DEFINE T == {n - x : x \in S}
<1>1. T \subseteq Nat /\ T # {}
  <2>1. \A x \in S : n - x \in Nat
    <3> TAKE x \in S
    <3>1. x \in Int /\ x <= n
      OBVIOUS
    <3> QED BY <3>1
  <2>2. PICK x \in S : TRUE
    OBVIOUS
  <2>3. n - x \in T
    OBVIOUS
  <2> QED BY <2>1, <2>3
<1>2. PICK k \in T : \A y \in T : ~ (<<y, k>> \in OpToRel(<, Nat))
  <2> HIDE DEF T
  <2> QED BY <1>1, NatLessThanWellFounded, WFMin
<1>3. k \in Nat /\ \A y \in T : ~ (y < k)
  BY <1>1, <1>2 DEF OpToRel
<1>4. PICK x \in S : k = n - x
  OBVIOUS
<1>5. \A y \in S : y <= x
  <2> TAKE y \in S
  <2>1. n - y \in T
    OBVIOUS
  <2> QED BY <1>3, <1>4, <2>1
<1> QED
  BY <1>4, <1>5 DEF Max

(* The arithmetic of ReplayShapeScheduler.advance: positions wrap at the   *)
(* size of the catalog.                                                    *)
LEMMA Wraps ==
  ASSUME NEW n \in Nat \ {0}, NEW x \in 0 .. n - 1
  PROVE  /\ x % n = x
         /\ (x + n) % n = x
         /\ (x + 1) % n = IF x = n - 1 THEN 0 ELSE x + 1
         /\ \A y \in 0 .. n : (x + y) % n \in 0 .. n - 1
OBVIOUS

(* What is left of the changes after the first.                            *)
LEMMA Rest ==
  ASSUME NEW S, NEW q \in Seq(S), q # <<>>
  PROVE  /\ Tail(q) \in Seq(S)
         /\ Len(q) \in Nat \ {0} /\ Len(Tail(q)) = Len(q) - 1
         /\ Head(q) = q[1] /\ q[1] \in S
         /\ \A i \in 1 .. Len(q) - 1 : Tail(q)[i] = q[i + 1] /\ q[i + 1] \in S
OBVIOUS

(* A kind of change is still to come afterwards unless it was the one      *)
(* made.                                                                   *)
LEMMA RestHas ==
  ASSUME NEW S, NEW q \in Seq(S), q # <<>>, NEW what
  PROVE  /\ Has(Tail(q), what) => Has(q, what)
         /\ Has(q, what) => Head(q).do = what \/ Has(Tail(q), what)
<1>1. ASSUME Has(Tail(q), what) PROVE Has(q, what)
  <2>1. PICK i \in 1 .. Len(q) - 1 : q[i + 1].do = what
    BY <1>1, Rest DEF Has
  <2> QED BY <2>1, Rest DEF Has
<1>2. ASSUME Has(q, what), Head(q).do # what PROVE Has(Tail(q), what)
  <2>1. PICK i \in 1 .. Len(q) : q[i].do = what
    BY <1>2 DEF Has
  <2>2. i - 1 \in 1 .. Len(q) - 1 /\ Tail(q)[i - 1] = q[i]
    BY <1>2, <2>1, Rest
  <2> QED BY <2>1, <2>2, Rest DEF Has
<1> QED BY <1>1, <1>2

(* The fields that the kind of a change determines.                        *)
LEMMA Kinds ==
  ASSUME NEW op \in Changes
  PROVE  /\ op.do \in {"record", "pending", "latest", "candidate", "unlink", "shards",
                       "promote", "reject", "clear", "raise", "mode", "load"}
         /\ op.do \in {"record", "pending", "latest", "candidate"} => op.id \in Epochs
         /\ op.do = "record" => op.status \in Statuses
         /\ op.do = "mode" => op.mode = "latest"
         /\ op.do = "load" => op.mode \in Modes \cup {"status"}
BY DEF Changes

(* The constructors of the changes build changes, of the kind and with the *)
(* fields that they are given.                                             *)
LEMMA Made ==
  /\ \A id \in Epochs :
       /\ \A st \in Statuses :
            /\ Record(id, st) \in Changes
            /\ Record(id, st).do = "record" /\ Record(id, st).id = id /\ Record(id, st).status = st
       /\ Pending(id) \in Changes /\ Pending(id).do = "pending" /\ Pending(id).id = id
       /\ Latest(id) \in Changes /\ Latest(id).do = "latest" /\ Latest(id).id = id
       /\ SaveCandidate(id) \in Changes
       /\ SaveCandidate(id).do = "candidate" /\ SaveCandidate(id).id = id
  /\ Unlink \in Changes /\ Unlink.do = "unlink"
  /\ SaveShards \in Changes /\ SaveShards.do = "shards"
  /\ Promote \in Changes /\ Promote.do = "promote"
  /\ RejectStatus \in Changes /\ RejectStatus.do = "reject"
  /\ ClearStatus \in Changes /\ ClearStatus.do = "clear"
  /\ Raise \in Changes /\ Raise.do = "raise"
  /\ SetMode("latest") \in Changes /\ SetMode("latest").do = "mode"
  /\ \A m \in Modes \cup {"status"} :
       Load(m) \in Changes /\ Load(m).do = "load" /\ Load(m).mode = m
BY DEF Changes, Record, Pending, Latest, SaveCandidate, Unlink, SaveShards, Promote,
       RejectStatus, ClearStatus, Raise, SetMode, Load, Modes

(* The changes of one candidate.                                           *)
ChangesOf(id) ==
  /\ \A st \in {"writing", "candidate", "recovery_verified", "rejected"} :
       Record(id, st).do = "record" /\ Record(id, st).id = id
  /\ Record(id, "writing").status = "writing"
  /\ Record(id, "candidate").status = "candidate"
  /\ Record(id, "recovery_verified").status = "recovery_verified"
  /\ Record(id, "rejected").status = "rejected"
  /\ Pending(id).do = "pending" /\ Pending(id).id = id
  /\ Latest(id).do = "latest" /\ Latest(id).id = id
  /\ SaveCandidate(id).do = "candidate" /\ SaveCandidate(id).id = id
  /\ Unlink.do = "unlink" /\ SaveShards.do = "shards" /\ Promote.do = "promote"
  /\ RejectStatus.do = "reject" /\ ClearStatus.do = "clear" /\ Raise.do = "raise"

LEMMA MadeOf == \A id : ChangesOf(id)
BY DEF ChangesOf, Record, Pending, Latest, SaveCandidate, Unlink, SaveShards, Promote,
       RejectStatus, ClearStatus, Raise

(* One program after another; the provers take it apart by this lemma.     *)
Then(p, q) == p \o q

Joined(p, q) ==
  /\ Then(p, q) \in Seq(Changes)
  /\ Len(Then(p, q)) = Len(p) + Len(q)
  /\ \A i \in 1 .. Len(p) + Len(q) :
       Then(p, q)[i] = IF i <= Len(p) THEN p[i] ELSE q[i - Len(p)]

(* The elements of two programs in sequence.                               *)
LEMMA Join ==
  ASSUME NEW p \in Seq(Changes), NEW q \in Seq(Changes)
  PROVE  Joined(p, q)
BY DEF Then, Joined

-----------------------------------------------------------------------------
(* The programs of changes, one by one.                                    *)
LEMMA Shorts ==
  ASSUME NEW id \in Epochs
  PROVE  /\ \A st \in Statuses :
              /\ WritePending(id, st) \in Seq(Changes) /\ Len(WritePending(id, st)) = 2
              /\ WritePending(id, st)[1] = Record(id, st)
              /\ WritePending(id, st)[2] = Pending(id)
         /\ Commit(id) \in Seq(Changes) /\ Len(Commit(id)) = 3
         /\ Commit(id)[1] = Record(id, "recovery_verified")
         /\ Commit(id)[2] = Latest(id) /\ Commit(id)[3] = Unlink
         /\ RejectRecord(id) \in Seq(Changes) /\ Len(RejectRecord(id)) = 2
         /\ RejectRecord(id)[1] = Record(id, "rejected") /\ RejectRecord(id)[2] = Unlink
<1> USE Made DEF Statuses
<1>1. \A st \in Statuses :
         /\ WritePending(id, st) \in Seq(Changes) /\ Len(WritePending(id, st)) = 2
         /\ WritePending(id, st)[1] = Record(id, st)
         /\ WritePending(id, st)[2] = Pending(id)
  BY DEF WritePending
<1>2. /\ Commit(id) \in Seq(Changes) /\ Len(Commit(id)) = 3
      /\ Commit(id)[1] = Record(id, "recovery_verified")
      /\ Commit(id)[2] = Latest(id) /\ Commit(id)[3] = Unlink
  BY DEF Commit
<1>3. /\ RejectRecord(id) \in Seq(Changes) /\ Len(RejectRecord(id)) = 2
      /\ RejectRecord(id)[1] = Record(id, "rejected") /\ RejectRecord(id)[2] = Unlink
  BY DEF RejectRecord
<1> QED BY <1>1, <1>2, <1>3

(* _reject_candidate: a durable candidate's record is rejected and its     *)
(* manifest unlinked before the GEMINI status drops its own.               *)
LEMMA Rejecting ==
  ASSUME NEW d, d = NoCandidate \/ d.id \in Epochs
  PROVE  /\ Reject(d) \in Seq(Changes)
         /\ \/ d = NoCandidate /\ Len(Reject(d)) = 1 /\ Reject(d)[1] = RejectStatus
            \/ /\ d # NoCandidate /\ Len(Reject(d)) = 3
               /\ Reject(d)[1] = Record(d.id, "rejected") /\ Reject(d)[2] = Unlink
               /\ Reject(d)[3] = RejectStatus
<1>1. /\ <<RejectStatus>> \in Seq(Changes) /\ Len(<<RejectStatus>>) = 1
      /\ <<RejectStatus>>[1] = RejectStatus
  BY Made
<1>2. CASE d = NoCandidate
  BY <1>1, <1>2, Made DEF Reject, RejectDurable
<1>3. CASE d # NoCandidate
  <2>1. Reject(d) = Then(RejectRecord(d.id), <<RejectStatus>>)
    BY <1>3 DEF Reject, RejectDurable, Then
  <2>2. /\ RejectRecord(d.id) \in Seq(Changes) /\ Len(RejectRecord(d.id)) = 2
        /\ RejectRecord(d.id)[1] = Record(d.id, "rejected") /\ RejectRecord(d.id)[2] = Unlink
        /\ Joined(RejectRecord(d.id), <<RejectStatus>>)
    BY <1>1, <1>3, Shorts, Join
  <2> QED BY <1>1, <1>3, <2>1, <2>2 DEF Joined
<1> QED BY <1>2, <1>3

(* begin_candidate, when the framework's save succeeds on all ranks and    *)
(* when it fails on one.                                                   *)
LEMMA Beginning ==
  ASSUME NEW e \in Epochs
  PROVE  /\ BeginCandidate(e, TRUE) \in Seq(Changes) /\ Len(BeginCandidate(e, TRUE)) = 5
         /\ BeginCandidate(e, TRUE)[1] = Record(e, "writing")
         /\ BeginCandidate(e, TRUE)[2] = Pending(e)
         /\ BeginCandidate(e, TRUE)[3] = SaveCandidate(e)
         /\ BeginCandidate(e, TRUE)[4] = Record(e, "candidate")
         /\ BeginCandidate(e, TRUE)[5] = Pending(e)
         /\ BeginCandidate(e, FALSE) \in Seq(Changes) /\ Len(BeginCandidate(e, FALSE)) = 6
         /\ BeginCandidate(e, FALSE)[1] = Record(e, "writing")
         /\ BeginCandidate(e, FALSE)[2] = Pending(e)
         /\ BeginCandidate(e, FALSE)[3] = Record(e, "rejected")
         /\ BeginCandidate(e, FALSE)[4] = Unlink
         /\ BeginCandidate(e, FALSE)[5] = ClearStatus
         /\ BeginCandidate(e, FALSE)[6] = Raise
<1> DEFINE w == WritePending(e, "writing")
           c == WritePending(e, "candidate")
           r == RejectRecord(e)
           a == <<SaveCandidate(e)>>
           z == <<ClearStatus, Raise>>
<1>1. /\ w \in Seq(Changes) /\ Len(w) = 2 /\ w[1] = Record(e, "writing") /\ w[2] = Pending(e)
      /\ c \in Seq(Changes) /\ Len(c) = 2 /\ c[1] = Record(e, "candidate") /\ c[2] = Pending(e)
      /\ r \in Seq(Changes) /\ Len(r) = 2 /\ r[1] = Record(e, "rejected") /\ r[2] = Unlink
  BY Shorts DEF Statuses
<1>2. /\ a \in Seq(Changes) /\ Len(a) = 1 /\ a[1] = SaveCandidate(e)
      /\ z \in Seq(Changes) /\ Len(z) = 2 /\ z[1] = ClearStatus /\ z[2] = Raise
  BY Made
<1>3. BeginCandidate(e, TRUE) = Then(w, Then(a, c)) /\ BeginCandidate(e, FALSE) = Then(w, Then(r, z))
  BY DEF BeginCandidate, Then
<1> HIDE DEF w, c, r, a, z
<1>4. Joined(a, c) /\ Joined(r, z)
  BY <1>1, <1>2, Join
<1>5. /\ Then(a, c) \in Seq(Changes) /\ Len(Then(a, c)) = 3
      /\ Then(a, c)[1] = SaveCandidate(e) /\ Then(a, c)[2] = Record(e, "candidate")
      /\ Then(a, c)[3] = Pending(e)
  BY <1>1, <1>2, <1>4 DEF Joined
<1>6. /\ Then(r, z) \in Seq(Changes) /\ Len(Then(r, z)) = 4
      /\ Then(r, z)[1] = Record(e, "rejected") /\ Then(r, z)[2] = Unlink
      /\ Then(r, z)[3] = ClearStatus /\ Then(r, z)[4] = Raise
  BY <1>1, <1>2, <1>4 DEF Joined
<1>7. Joined(w, Then(a, c)) /\ Joined(w, Then(r, z))
  BY <1>1, <1>5, <1>6, Join
<1>8. /\ Then(w, Then(a, c)) \in Seq(Changes) /\ Len(Then(w, Then(a, c))) = 5
      /\ Then(w, Then(a, c))[1] = w[1] /\ Then(w, Then(a, c))[2] = w[2]
      /\ Then(w, Then(a, c))[3] = Then(a, c)[1] /\ Then(w, Then(a, c))[4] = Then(a, c)[2]
      /\ Then(w, Then(a, c))[5] = Then(a, c)[3]
  BY <1>1, <1>5, <1>7 DEF Joined
<1>9. /\ Then(w, Then(r, z)) \in Seq(Changes) /\ Len(Then(w, Then(r, z))) = 6
      /\ Then(w, Then(r, z))[1] = w[1] /\ Then(w, Then(r, z))[2] = w[2]
      /\ Then(w, Then(r, z))[3] = Then(r, z)[1] /\ Then(w, Then(r, z))[4] = Then(r, z)[2]
      /\ Then(w, Then(r, z))[5] = Then(r, z)[3] /\ Then(w, Then(r, z))[6] = Then(r, z)[4]
  BY <1>1, <1>6, <1>7 DEF Joined
<1> QED BY <1>1, <1>3, <1>5, <1>6, <1>8, <1>9

(* A boundary in q after n other changes: no replica, no durable           *)
(* checkpoints, a failed save, a candidate, a candidate that is certified. *)
Persists(q, n) == q[n + 1] = SaveShards /\ q[n + 2] = Promote

WithoutReplica(q, n) == Len(q) = n + 1 /\ q[n + 1] = Raise

InMemoryOnly(q, n) == Len(q) = n + 2 /\ Persists(q, n)

SaveFailed(q, n) ==
  /\ Len(q) = n + 8 /\ Persists(q, n)
  /\ q[n + 3] = Record(epoch, "writing") /\ q[n + 4] = Pending(epoch)
  /\ q[n + 5] = Record(epoch, "rejected") /\ q[n + 6] = Unlink
  /\ q[n + 7] = ClearStatus /\ q[n + 8] = Raise

Candidate(q, n) ==
  /\ Persists(q, n)
  /\ q[n + 3] = Record(epoch, "writing") /\ q[n + 4] = Pending(epoch)
  /\ q[n + 5] = SaveCandidate(epoch)
  /\ q[n + 6] = Record(epoch, "candidate") /\ q[n + 7] = Pending(epoch)

Certified(q, n) ==
  /\ Len(q) = n + 10 /\ Candidate(q, n)
  /\ q[n + 8] = Record(epoch, "recovery_verified") /\ q[n + 9] = Latest(epoch)
  /\ q[n + 10] = Unlink

BoundaryIn(q, n, replicated, saved) ==
  \/ ~replicated /\ WithoutReplica(q, n)
  \/ replicated /\ ~catalog.durable /\ InMemoryOnly(q, n)
  \/ replicated /\ catalog.durable /\ ~saved /\ SaveFailed(q, n)
  \/ /\ replicated /\ catalog.durable /\ saved /\ ~catalog.dense
     /\ Len(q) = n + 7 /\ Candidate(q, n)
  \/ replicated /\ catalog.durable /\ saved /\ catalog.dense /\ Certified(q, n)

(* _cycle_boundary takes one of five courses.                              *)
LEMMA AtBoundary ==
  ASSUME catalog.durable => epoch \in Epochs, catalog.durable \in BOOLEAN,
         catalog.dense \in BOOLEAN,
         NEW replicated \in BOOLEAN, NEW saved \in BOOLEAN
  PROVE  /\ Boundary(replicated, saved) \in Seq(Changes)
         /\ BoundaryIn(Boundary(replicated, saved), 0, replicated, saved)
<1> DEFINE b == Boundary(replicated, saved)
           s == <<SaveShards, Promote>>
<1>1. /\ s \in Seq(Changes) /\ Len(s) = 2 /\ s[1] = SaveShards /\ s[2] = Promote
      /\ <<Raise>> \in Seq(Changes) /\ Len(<<Raise>>) = 1 /\ <<Raise>>[1] = Raise
      /\ <<>> \in Seq(Changes) /\ Len(<<>>) = 0
  BY Made
<1>2. CASE ~replicated
  BY <1>1, <1>2 DEF BoundaryIn, WithoutReplica, Boundary
<1>3. CASE replicated /\ ~catalog.durable
  <2>1. b = Then(s, <<>>)
    BY <1>3 DEF Boundary, Then
  <2>2. Joined(s, <<>>)
    BY <1>1, Join
  <2> HIDE DEF b, s
  <2>3. b \in Seq(Changes) /\ InMemoryOnly(b, 0)
    BY <1>1, <2>1, <2>2 DEF Joined, InMemoryOnly, Persists
  <2> QED BY <1>3, <2>3 DEF BoundaryIn, b
<1>4. CASE replicated /\ catalog.durable /\ ~saved
  <2> DEFINE c == BeginCandidate(epoch, FALSE)
             cc == Then(c, <<>>)
  <2>1. b = Then(s, cc)
    BY <1>4 DEF Boundary, Then
  <2>2. /\ c \in Seq(Changes) /\ Len(c) = 6
        /\ c[1] = Record(epoch, "writing") /\ c[2] = Pending(epoch)
        /\ c[3] = Record(epoch, "rejected") /\ c[4] = Unlink
        /\ c[5] = ClearStatus /\ c[6] = Raise
    BY <1>4, Beginning
  <2>3. Joined(c, <<>>)
    BY <1>1, <2>2, Join
  <2> HIDE DEF b, s, c
  <2>4. /\ cc \in Seq(Changes) /\ Len(cc) = 6
        /\ cc[1] = c[1] /\ cc[2] = c[2] /\ cc[3] = c[3] /\ cc[4] = c[4]
        /\ cc[5] = c[5] /\ cc[6] = c[6]
    BY <1>1, <2>2, <2>3 DEF Joined
  <2> HIDE DEF cc
  <2>5. Joined(s, cc)
    BY <1>1, <2>4, Join
  <2>6. b \in Seq(Changes) /\ SaveFailed(b, 0)
    BY <1>1, <2>1, <2>2, <2>4, <2>5 DEF Joined, SaveFailed, Persists
  <2> QED BY <1>4, <2>6 DEF BoundaryIn, b
<1>5. CASE replicated /\ catalog.durable /\ saved
  <2> DEFINE c == BeginCandidate(epoch, TRUE)
             v == IF catalog.dense THEN Commit(epoch) ELSE <<>>
             cc == Then(c, v)
  <2>1. b = Then(s, cc)
    BY <1>5 DEF Boundary, Then
  <2>2. /\ c \in Seq(Changes) /\ Len(c) = 5
        /\ c[1] = Record(epoch, "writing") /\ c[2] = Pending(epoch)
        /\ c[3] = SaveCandidate(epoch)
        /\ c[4] = Record(epoch, "candidate") /\ c[5] = Pending(epoch)
    BY <1>5, Beginning
  <2>3. /\ v \in Seq(Changes)
        /\ ~catalog.dense => Len(v) = 0
        /\ catalog.dense => /\ Len(v) = 3 /\ v[1] = Record(epoch, "recovery_verified")
                            /\ v[2] = Latest(epoch) /\ v[3] = Unlink
    BY <1>1, <1>5, Shorts
  <2>4. Joined(c, v)
    BY <2>2, <2>3, Join
  <2> HIDE DEF b, s, c, v
  <2>5. /\ cc \in Seq(Changes) /\ Len(cc) = 5 + Len(v)
        /\ cc[1] = c[1] /\ cc[2] = c[2] /\ cc[3] = c[3] /\ cc[4] = c[4]
        /\ cc[5] = c[5]
        /\ Len(v) = 3 => cc[6] = v[1] /\ cc[7] = v[2] /\ cc[8] = v[3]
    BY <2>2, <2>3, <2>4 DEF Joined
  <2> HIDE DEF cc
  <2>6. Joined(s, cc)
    BY <1>1, <2>5, Join
  <2>7. b \in Seq(Changes) /\ Len(b) = 7 + Len(v) /\ Candidate(b, 0)
    BY <1>1, <2>1, <2>2, <2>3, <2>5, <2>6, SMTT(60) DEF Joined, Candidate, Persists
  <2>8. ASSUME catalog.dense PROVE Certified(b, 0)
    <3>1. /\ Len(v) = 3 /\ v[1] = Record(epoch, "recovery_verified")
          /\ v[2] = Latest(epoch) /\ v[3] = Unlink
      BY <2>3, <2>8
    <3>2. Len(cc) = 8 /\ cc[6] = v[1] /\ cc[7] = v[2] /\ cc[8] = v[3]
      BY <2>5, <3>1
    <3>3. b[8] = cc[6] /\ b[9] = cc[7] /\ b[10] = cc[8] /\ Len(b) = 10
      BY <1>1, <2>1, <2>6, <3>2 DEF Joined
    <3> QED BY <2>7, <3>1, <3>2, <3>3 DEF Certified
  <2>9. CASE catalog.dense
    BY <1>5, <2>7, <2>8, <2>9 DEF BoundaryIn, b
  <2>10. CASE ~catalog.dense
    <3>1. Len(b) = 0 + 7 /\ Candidate(b, 0)
      BY <2>3, <2>7, <2>10
    <3> QED BY <1>5, <2>7, <2>10, <3>1 DEF BoundaryIn, b
  <2> QED BY <2>9, <2>10
<1> QED BY <1>2, <1>3, <1>4, <1>5

(* The boundary may come after the three changes of a commit.              *)
LEMMA AfterCommit ==
  ASSUME NEW b \in Seq(Changes), NEW p \in Seq(Changes), Len(p) \in {0, 3},
         NEW replicated \in BOOLEAN, NEW saved \in BOOLEAN,
         BoundaryIn(b, 0, replicated, saved)
  PROVE  BoundaryIn(Then(p, b), Len(p), replicated, saved)
<1> DEFINE n == Len(p)
           q == Then(p, b)
<1>1. Joined(p, b) /\ n \in {0, 3}
  BY Join
<1>2. Len(q) = n + Len(b) /\ \A i \in 1 .. Len(b) : q[n + i] = b[i]
  <2>1. Len(q) = n + Len(b)
    BY <1>1 DEF Joined
  <2>2. ASSUME NEW i \in 1 .. Len(b) PROVE q[n + i] = b[i]
    <3>1. n + i \in 1 .. n + Len(b) /\ ~(n + i <= n) /\ n + i - n = i
      BY <1>1
    <3> QED BY <1>1, <3>1 DEF Joined
  <2> QED BY <2>1, <2>2
<1> HIDE DEF q, n
<1>3. CASE ~replicated /\ WithoutReplica(b, 0)
  BY <1>1, <1>2, <1>3 DEF BoundaryIn, WithoutReplica, q, n
<1>4. CASE replicated /\ ~catalog.durable /\ InMemoryOnly(b, 0)
  BY <1>1, <1>2, <1>4 DEF BoundaryIn, InMemoryOnly, Persists, q, n
<1>5. CASE replicated /\ catalog.durable /\ ~saved /\ SaveFailed(b, 0)
  BY <1>1, <1>2, <1>5 DEF BoundaryIn, SaveFailed, Persists, q, n
<1>6. CASE /\ replicated /\ catalog.durable /\ saved /\ ~catalog.dense
           /\ Len(b) = 0 + 7 /\ Candidate(b, 0)
  BY <1>1, <1>2, <1>6 DEF BoundaryIn, Candidate, Persists, q, n
<1>7. CASE replicated /\ catalog.durable /\ saved /\ catalog.dense /\ Certified(b, 0)
  BY <1>1, <1>2, <1>7, SMTT(60) DEF BoundaryIn, Certified, Candidate, Persists, q, n
<1> QED BY <1>3, <1>4, <1>5, <1>6, <1>7 DEF BoundaryIn

-----------------------------------------------------------------------------
(* What a replay leads to.                                                 *)
Verdict(result, t) == result = OneShape(t) \/ result = Inconclusive \/ result = Sweep(t)

(* Without SDC, a replay has checked either the shape at pos, which is     *)
(* then not the one that reveals the corruption, or the whole catalog, and *)
(* the state is clean (_check_current_shape, check_shape_cycle).           *)
LEMMA Verdicts ==
  ASSUME catalog \in Catalogs, pos \in Shapes, NEW t \in Taints, NEW result, Verdict(result, t)
  PROVE  /\ Size \in Nat \ {0} /\ pos \in 0 .. Size - 1
         /\ result.checked \in 0 .. Size
         /\ result.sdc \in BOOLEAN /\ result.cycle \in BOOLEAN
         /\ Advanced(result.checked) \in Shapes
         /\ ~result.sdc =>
              \/ /\ result.checked = 1 /\ t # pos /\ (result.cycle <=> pos = Size - 1)
                 /\ Advanced(1) = IF pos = Size - 1 THEN 0 ELSE pos + 1
              \/ /\ result.checked = Size /\ t = Clean /\ result.cycle
                 /\ Advanced(Size) = pos
<1>1. Size \in Nat \ {0} /\ pos \in 0 .. Size - 1 /\ Shapes = 0 .. Size - 1
  BY TrustAssumption DEF Size, Shapes
<1> HIDE DEF Size
<1>2. /\ Advanced(1) = IF pos = Size - 1 THEN 0 ELSE pos + 1
      /\ Advanced(Size) = pos
      /\ \A y \in 0 .. Size : Advanced(y) \in 0 .. Size - 1
  BY <1>1, Wraps DEF Advanced
<1>3. CASE result = OneShape(t)
  <2>1. result.checked = 1 /\ result.sdc = (t = pos) /\ result.cycle = (pos = Size - 1)
    BY <1>3 DEF OneShape
  <2>2. result.sdc \in BOOLEAN /\ result.cycle \in BOOLEAN
    BY <2>1
  <2>3. (~result.sdc => t # pos) /\ (result.cycle <=> pos = Size - 1)
    BY <2>1
  <2>4. 1 \in 0 .. Size /\ Advanced(1) \in Shapes
    BY <1>1, <1>2
  <2> QED BY <1>1, <1>2, <2>1, <2>2, <2>3, <2>4, Zenon
<1>4. CASE result = Inconclusive
  <2>1. result.checked = 0 /\ result.sdc = TRUE /\ result.cycle = FALSE
    BY <1>4 DEF Inconclusive
  <2>2. 0 \in 0 .. Size /\ Advanced(0) \in Shapes
    BY <1>1, <1>2
  <2>3. result.sdc \in BOOLEAN /\ result.cycle \in BOOLEAN
    BY <2>1
  <2> QED BY <1>1, <2>1, <2>2, <2>3, Zenon
<1>5. CASE result = Sweep(t)
  <2>1. CASE t = Clean
    <3>1. result.checked = Size /\ result.sdc = FALSE /\ result.cycle = TRUE
      BY <1>5, <2>1 DEF Sweep
    <3>2. Size \in 0 .. Size /\ Advanced(Size) \in Shapes
      BY <1>1, <1>2
    <3>3. result.sdc \in BOOLEAN /\ result.cycle \in BOOLEAN
      BY <3>1
    <3> QED BY <1>1, <1>2, <2>1, <3>1, <3>2, <3>3, Zenon
  <2>2. CASE t # Clean
    <3>1. t \in 0 .. Size - 1 /\ t - pos + Size \in Nat
      BY <1>1, <2>2 DEF Taints
    <3>2. \A x \in Nat : x % Size \in 0 .. Size - 1
      BY <1>1
    <3>3. Distance(t) \in 0 .. Size - 1
      BY <3>1, <3>2 DEF Distance
    <3>4. result.checked = Distance(t) + 1 /\ result.sdc = TRUE /\ result.cycle = FALSE
      BY <1>5, <2>2 DEF Sweep
    <3>5. Distance(t) + 1 \in 0 .. Size
      BY <1>1, <3>3
    <3>6. Advanced(Distance(t) + 1) \in Shapes
      BY <1>1, <1>2, <3>5
    <3>7. result.checked \in 0 .. Size /\ Advanced(result.checked) \in Shapes
      BY <3>4, <3>5, <3>6
    <3>8. result.sdc \in BOOLEAN /\ result.cycle \in BOOLEAN
      BY <3>4
    <3> QED BY <1>1, <3>4, <3>7, <3>8, Zenon
  <2> QED BY <2>1, <2>2
<1> QED BY <1>3, <1>4, <1>5 DEF Verdict

(* The candidate is rejected.                                              *)
Dropped ==
  /\ dur' = NoCandidate /\ epoch' = epoch
  /\ \/ dur = NoCandidate /\ Len(todo') = 1 /\ todo'[1] = RejectStatus
     \/ /\ dur # NoCandidate /\ Len(todo') = 3
        /\ todo'[1] = Record(dur.id, "rejected") /\ todo'[2] = Unlink
        /\ todo'[3] = RejectStatus
     \/ /\ dur # NoCandidate /\ Len(todo') = 5
        /\ todo'[1] = Record(dur.id, "candidate") /\ todo'[2] = Pending(dur.id)
        /\ todo'[3] = Record(dur.id, "rejected") /\ todo'[4] = Unlink
        /\ todo'[5] = RejectStatus

(* One more shape is clean, within a cycle.                                *)
NextShape(t) ==
  /\ pos' = pos + 1 /\ t # pos /\ epoch' = epoch
  /\ \/ dur = NoCandidate /\ dur' = NoCandidate /\ todo' = <<>>
     \/ /\ dur # NoCandidate
        /\ dur' = [id |-> dur.id, first |-> dur.first, checked |-> dur.checked + 1]
        /\ Len(todo') = 2
        /\ todo'[1] = Record(dur.id, "candidate") /\ todo'[2] = Pending(dur.id)

(* The cycle ends; a candidate with all its shapes is committed first.     *)
Committed(n, t) ==
  \/ n = 0 /\ dur = NoCandidate
  \/ /\ n = 3 /\ dur # NoCandidate
     /\ todo'[1] = Record(dur.id, "recovery_verified")
     /\ todo'[2] = Latest(dur.id) /\ todo'[3] = Unlink
     /\ t = Clean \/ dur.first = 0

CycleEnds(n, t, replicated, saved) ==
  /\ t = Clean \/ (pos = Size - 1 /\ t # pos /\ pos' = 0)
  /\ catalog.durable => epoch \in Epochs
  /\ Committed(n, t)
  /\ BoundaryIn(todo', n, replicated, saved)
  /\ IF replicated /\ saved /\ catalog.durable /\ ~catalog.dense
     THEN dur' = [id |-> epoch, first |-> pos', checked |-> 0]
     ELSE dur' = NoCandidate
  /\ epoch' = IF replicated /\ saved /\ catalog.durable THEN epoch + 1 ELSE epoch

Outcome(s, t) ==
  /\ todo' \in Seq(Changes)
  /\ pos' \in Shapes
  /\ \A m \in mem' : m \in mem \/ m = [step |-> s, taint |-> t, pos |-> pos']
  /\ \/ Dropped
     \/ NextShape(t)
     \/ \E n \in {0, 3} : \E replicated, saved \in BOOLEAN : CycleEnds(n, t, replicated, saved)

(* apply_result: whatever the replay has seen, the candidate is dropped,   *)
(* or it is one shape further, or the cycle ends at a boundary.            *)
LEMMA Outcomes ==
  ASSUME JobTypes, Follows, NEW s, NEW t \in Taints, NEW result,
         Verdict(result, t), Apply(result, s, t)
  PROVE  Outcome(s, t)
<1>1. /\ catalog \in Catalogs /\ pos \in Shapes
      /\ catalog.durable \in BOOLEAN /\ catalog.dense \in BOOLEAN
      /\ dur.first \in Nat /\ dur.checked \in Nat
      /\ dur = [id |-> dur.id, first |-> dur.first, checked |-> dur.checked]
  BY TrustAssumption DEF JobTypes, Shapes
<1>2. PICK replicated \in BOOLEAN, saved \in BOOLEAN :
        /\ todo' = ApplyResult(result, replicated, saved)
        /\ dur' = PendingAfter(result, replicated, saved)
        /\ epoch' = IF ReachesBoundary(result) /\ replicated /\ saved /\ catalog.durable
                    THEN epoch + 1 ELSE epoch
  BY DEF Apply
<1>3. /\ ReachesBoundary(result) /\ catalog.durable => epoch \in Epochs
      /\ mem' = Captured(result, s, t) /\ pos' = Advanced(result.checked)
  BY DEF Apply
<1>4. /\ Size \in Nat \ {0} /\ pos \in 0 .. Size - 1
      /\ result.checked \in 0 .. Size
      /\ result.sdc \in BOOLEAN /\ result.cycle \in BOOLEAN
      /\ pos' \in Shapes
      /\ ~result.sdc =>
           \/ /\ result.checked = 1 /\ t # pos /\ (result.cycle <=> pos = Size - 1)
              /\ pos' = IF pos = Size - 1 THEN 0 ELSE pos + 1
           \/ result.checked = Size /\ t = Clean /\ result.cycle /\ pos' = pos
  BY <1>1, <1>3, Verdicts
<1>5. \A m \in mem' : m \in mem \/ m = [step |-> s, taint |-> t, pos |-> pos']
  BY <1>3 DEF Captured
<1>6. /\ Reject(dur) \in Seq(Changes)
      /\ \/ dur = NoCandidate /\ Len(Reject(dur)) = 1 /\ Reject(dur)[1] = RejectStatus
         \/ /\ dur # NoCandidate /\ Len(Reject(dur)) = 3
            /\ Reject(dur)[1] = Record(dur.id, "rejected") /\ Reject(dur)[2] = Unlink
            /\ Reject(dur)[3] = RejectStatus
  BY Rejecting DEF Follows
<1>7. <<>> \in Seq(Changes) /\ Len(<<>>) = 0
  OBVIOUS
<1>8. CASE result.sdc
  <2>1. todo' = Reject(dur) /\ dur' = NoCandidate /\ epoch' = epoch
    BY <1>2, <1>8 DEF ApplyResult, PendingAfter, ReachesBoundary
  <2> QED BY <1>4, <1>5, <1>6, <2>1 DEF Outcome, Dropped
<1>9. CASE ~result.sdc /\ Event(result) = "rejected"
  <2>1. /\ todo' = Then(Reject(dur), <<>>) /\ dur' = NoCandidate /\ epoch' = epoch
        /\ dur # NoCandidate
    BY <1>2, <1>9 DEF ApplyResult, PendingAfter, ReachesBoundary, Observe, Unfinished, Then, Event
  <2>2. Joined(Reject(dur), <<>>)
    BY <1>6, <1>7, Join
  <2>3. /\ todo' \in Seq(Changes) /\ Len(todo') = 3
        /\ todo'[1] = Reject(dur)[1] /\ todo'[2] = Reject(dur)[2]
        /\ todo'[3] = Reject(dur)[3]
    BY <1>6, <1>7, <2>1, <2>2 DEF Joined
  <2> QED BY <1>4, <1>5, <1>6, <2>1, <2>3 DEF Outcome, Dropped
<1>10. CASE ~result.sdc /\ Event(result) = "progress"
  <2> DEFINE w == WritePending(dur.id, "candidate")
  <2>1. /\ dur # NoCandidate
        /\ w \in Seq(Changes) /\ Len(w) = 2
        /\ w[1] = Record(dur.id, "candidate") /\ w[2] = Pending(dur.id)
    BY <1>10, Shorts DEF Follows, Event, Statuses
  <2>2. CASE result.cycle
    <3>1. todo' = Then(w, Reject(dur)) /\ dur' = NoCandidate /\ epoch' = epoch
      BY <1>2, <1>10, <2>2
         DEF ApplyResult, PendingAfter, ReachesBoundary, Observe, Unfinished, Then
    <3>2. Joined(w, Reject(dur))
      BY <1>6, <2>1, Join
    <3> HIDE DEF w
    <3>3. /\ todo' \in Seq(Changes) /\ Len(todo') = 5
          /\ todo'[1] = w[1] /\ todo'[2] = w[2]
          /\ todo'[3] = Reject(dur)[1] /\ todo'[4] = Reject(dur)[2]
          /\ todo'[5] = Reject(dur)[3]
      BY <1>6, <2>1, <3>1, <3>2, SMTT(60) DEF Joined
    <3> QED BY <1>4, <1>5, <1>6, <2>1, <3>1, <3>3 DEF Outcome, Dropped
  <2>3. CASE ~result.cycle
    <3>1. /\ todo' = Then(w, <<>>) /\ epoch' = epoch
          /\ dur' = [dur EXCEPT !.checked = @ + result.checked]
      BY <1>2, <1>10, <2>3
         DEF ApplyResult, PendingAfter, ReachesBoundary, Observe, Unfinished, Then
    <3>2. dur' = [id |-> dur.id, first |-> dur.first, checked |-> dur.checked + 1]
      BY <1>1, <1>4, <1>10, <2>3, <3>1
    <3>3. Joined(w, <<>>)
      BY <1>7, <2>1, Join
    <3> HIDE DEF w
    <3>4. /\ todo' \in Seq(Changes) /\ Len(todo') = 2
          /\ todo'[1] = w[1] /\ todo'[2] = w[2]
      BY <1>7, <2>1, <3>1, <3>3 DEF Joined
    <3>5. pos' = pos + 1 /\ t # pos
      BY <1>4, <1>10, <2>3
    <3>6. NextShape(t)
      BY <2>1, <3>1, <3>2, <3>4, <3>5 DEF NextShape
    <3> QED BY <1>4, <1>5, <3>4, <3>6 DEF Outcome
  <2> QED BY <1>4, <2>2, <2>3
<1>11. CASE ~result.sdc /\ Event(result) \in {"none", "committed"} /\ ~result.cycle
  <2>1. Event(result) = "none" /\ dur = NoCandidate
    BY <1>1, <1>4, <1>11 DEF Event, Follows, Size
  <2>2. todo' = Then(<<>>, <<>>) /\ dur' = NoCandidate /\ epoch' = epoch
    BY <1>2, <1>11, <2>1
       DEF ApplyResult, PendingAfter, ReachesBoundary, Observe, Unfinished, Then
  <2>3. todo' = <<>>
    BY <2>2 DEF Then
  <2>4. pos' = pos + 1 /\ t # pos
    BY <1>4, <1>11
  <2>5. NextShape(t)
    BY <2>1, <2>2, <2>3, <2>4 DEF NextShape
  <2> QED BY <1>4, <1>5, <1>7, <2>3, <2>5 DEF Outcome
<1>12. CASE ~result.sdc /\ Event(result) \in {"none", "committed"} /\ result.cycle
  <2> DEFINE p == Observe(result)
             b == Boundary(replicated, saved)
  <2>1. ReachesBoundary(result) /\ (catalog.durable => epoch \in Epochs)
    BY <1>3, <1>12 DEF ReachesBoundary
  <2>2. todo' = Then(p, b)
    BY <1>2, <1>12, <2>1 DEF ApplyResult, Unfinished, Then
  <2>3. /\ IF replicated /\ saved /\ catalog.durable /\ ~catalog.dense
           THEN dur' = [id |-> epoch, first |-> pos', checked |-> 0]
           ELSE dur' = NoCandidate
        /\ epoch' = IF replicated /\ saved /\ catalog.durable THEN epoch + 1 ELSE epoch
    BY <1>2, <1>3, <2>1 DEF PendingAfter
  <2>4. /\ p \in Seq(Changes)
        /\ \/ dur = NoCandidate /\ Len(p) = 0
           \/ /\ dur # NoCandidate /\ Len(p) = 3 /\ dur.checked + result.checked = Size
              /\ p[1] = Record(dur.id, "recovery_verified")
              /\ p[2] = Latest(dur.id) /\ p[3] = Unlink
    <3>1. CASE Event(result) = "none"
      BY <3>1 DEF Event, Observe
    <3>2. CASE Event(result) = "committed"
      <4>1. p = Commit(dur.id)
        BY <3>2 DEF Observe
      <4> QED BY <3>2, <4>1, Shorts DEF Follows, Event
    <3> QED BY <1>12, <3>1, <3>2
  <2>5. b \in Seq(Changes) /\ BoundaryIn(b, 0, replicated, saved)
    BY <1>1, <2>1, AtBoundary
  <2> HIDE DEF p, b
  <2>6. Joined(p, b) /\ Len(p) \in {0, 3}
    BY <2>4, <2>5, Join
  <2>7. BoundaryIn(todo', Len(p), replicated, saved)
    BY <2>2, <2>4, <2>5, <2>6, AfterCommit
  <2>8. todo' \in Seq(Changes) /\ (Len(p) = 3 => todo'[1] = p[1] /\ todo'[2] = p[2] /\ todo'[3] = p[3])
    <3>1. Len(b) \in Nat
      BY <2>5
    <3> QED BY <2>2, <2>6, <3>1 DEF Joined
  <2>9. dur # NoCandidate => t = Clean \/ dur.first = 0
    <3> SUFFICES ASSUME dur # NoCandidate, t # Clean PROVE dur.first = 0
      OBVIOUS
    <3>1. result.checked = 1 /\ pos = Size - 1
      BY <1>4, <1>12
    <3>2. dur.checked + 1 = Size /\ pos = dur.first + dur.checked
      BY <2>4, <3>1 DEF Follows
    <3> QED BY <1>1, <1>4, <3>1, <3>2
  <2>10. Committed(Len(p), t)
    BY <2>4, <2>8, <2>9 DEF Committed
  <2>11. CycleEnds(Len(p), t, replicated, saved)
    BY <1>4, <1>12, <2>1, <2>3, <2>7, <2>10 DEF CycleEnds
  <2> QED BY <1>4, <1>5, <2>6, <2>8, <2>11 DEF Outcome
<1>13. Event(result) \in {"none", "rejected", "progress", "committed"}
  BY DEF Event
<1> QED BY <1>4, <1>8, <1>9, <1>10, <1>11, <1>12, <1>13

-----------------------------------------------------------------------------
(* The actions, as the invariants see them.                                *)
Replays(s, t) ==
  /\ up /\ todo = <<>>
  /\ Outcome(s, t)
  /\ step' = s /\ s \in {step, step + 1}
  /\ taint' = t /\ (taint # Clean \/ s = step => t = taint)
  /\ UNCHANGED <<catalog, up, files, status, records, artifact, pendingFile, latestFile>>

(* post_step with a replay, and save_now.                                  *)
LEMMA Replaying ==
  ASSUME JobTypes, Follows, PostStep \/ SaveNow
  PROVE  \E s \in Steps : \E t \in Taints : Replays(s, t)
<1>1. CASE PostStep
  <2>1. PICK t \in Trained : t = taint'
    BY <1>1 DEF PostStep
  <2>2. PICK s \in Steps : s = step' /\ s = step + 1
    BY <1>1, TrustAssumption DEF PostStep, JobTypes, Steps
  <2>3. t \in Taints /\ (taint # Clean => t = taint)
    BY <2>1 DEF Trained, Taints, JobTypes
  <2>4. PICK result : Verdict(result, t) /\ Apply(result, s, t)
    BY <1>1, <2>1, <2>2 DEF PostStep, Verdict
  <2>5. Outcome(s, t)
    BY <2>3, <2>4, Outcomes
  <2>6. s # step
    BY <2>2
  <2>7. Replays(s, t)
    BY <1>1, <2>1, <2>2, <2>3, <2>5, <2>6 DEF Replays, PostStep, Idle, gemini, durable
  <2> QED BY <2>2, <2>3, <2>7
<1>2. CASE SaveNow
  <2>1. step \in Steps /\ taint \in Taints /\ Apply(Sweep(taint), step, taint)
    BY <1>2 DEF SaveNow, JobTypes
  <2>2. PICK s \in Steps, t \in Taints : s = step /\ t = taint
    BY <2>1
  <2>3. Verdict(Sweep(t), t) /\ Apply(Sweep(t), s, t)
    BY <2>1, <2>2 DEF Verdict
  <2>4. Outcome(s, t)
    BY <2>3, Outcomes
  <2>5. Replays(s, t)
    BY <1>2, <2>2, <2>4 DEF Replays, SaveNow, Idle, gemini, durable
  <2> QED BY <2>5
<1> QED BY <1>1, <1>2

(* A recovery of the verified state, and one of the latest.                *)
Drops ==
  /\ up /\ todo = <<>> /\ todo' \in Seq(Changes) /\ Dropped
  /\ UNCHANGED <<catalog, up, step, pos, taint, mem, files, status, records, artifact,
                 pendingFile, latestFile>>

KeepsLatest ==
  /\ up /\ todo = <<>> /\ todo' \in Seq(Changes) /\ Len(todo') = 1
  /\ todo'[1] = SetMode("latest")
  /\ UNCHANGED <<catalog, up, step, pos, taint, mem, dur, epoch, files, status, records,
                 artifact, pendingFile, latestFile>>

(* prepare_recovery.                                                       *)
LEMMA Recovering ==
  ASSUME JobTypes, Follows, NEW failure, PrepareRecovery(failure)
  PROVE  Drops \/ KeepsLatest
<1>1. CASE ModeFor(failure) = "recovery_verified"
  <2>1. todo' = Reject(dur) /\ dur' = NoCandidate
    BY <1>1 DEF PrepareRecovery
  <2>2. todo' \in Seq(Changes) /\ Dropped
    BY <2>1, Rejecting DEF Follows, Dropped, PrepareRecovery
  <2> QED BY <2>2 DEF Drops, PrepareRecovery, Idle, gemini, durable
<1>2. CASE ModeFor(failure) # "recovery_verified"
  <2>1. todo' = <<SetMode("latest")>> /\ dur' = dur
    BY <1>2 DEF PrepareRecovery
  <2>2. SetMode("latest") \in Changes
    BY Made DEF Modes
  <2>3. todo' \in Seq(Changes) /\ Len(todo') = 1 /\ todo'[1] = SetMode("latest")
    BY <2>1, <2>2
  <2> QED BY <2>1, <2>3 DEF KeepsLatest, PrepareRecovery, Idle, gemini, durable
<1> QED BY <1>1, <1>2

(* A new process first settles what the old one left pending.              *)
Loads(q, n, mode) ==
  /\ Len(q) = n + (IF catalog.durable THEN 2 ELSE 1)
  /\ q[n + 1] = Load(mode)
  /\ catalog.durable => q[n + 2] = ClearStatus

Starts(mode) ==
  /\ ~up /\ up' = TRUE /\ todo' \in Seq(Changes)
  /\ \/ (catalog.durable => pendingFile = 0) /\ Loads(todo', 0, mode)
     \/ catalog.durable /\ pendingFile # 0 /\ todo'[1] = Unlink /\ Loads(todo', 1, mode)
     \/ /\ catalog.durable /\ pendingFile # 0
        /\ ~(pendingFile = latestFile /\ records[latestFile] = "recovery_verified")
        /\ todo'[1] = Record(pendingFile, "rejected") /\ todo'[2] = Unlink
        /\ Loads(todo', 2, mode)
  /\ UNCHANGED <<catalog, step, pos, taint, mem, dur, epoch, files, status, records, artifact,
                 pendingFile, latestFile>>

(* The restart: DurableCheckpointCoordinator.__init__ settles the pending  *)
(* manifest before anything is loaded.                                     *)
LEMMA Starting ==
  ASSUME JobTypes, NEW mode \in Modes \cup {"status"}, Restart(mode)
  PROVE  Starts(mode)
<1> DEFINE stale == IF catalog.durable THEN Stale ELSE <<>>
           last == IF catalog.durable THEN <<ClearStatus>> ELSE <<>>
           load == <<Load(mode)>>
           rest == Then(load, last)
<1>1. todo' = (stale \o load) \o last
  BY DEF Restart
<1>2. /\ load \in Seq(Changes) /\ Len(load) = 1 /\ load[1] = Load(mode)
      /\ last \in Seq(Changes) /\ Len(last) = IF catalog.durable THEN 1 ELSE 0
      /\ catalog.durable => last[1] = ClearStatus
  BY Made
<1>3. /\ stale \in Seq(Changes)
      /\ \/ (catalog.durable => pendingFile = 0) /\ Len(stale) = 0
         \/ catalog.durable /\ pendingFile # 0 /\ Len(stale) = 1 /\ stale[1] = Unlink
         \/ /\ catalog.durable /\ pendingFile # 0
            /\ ~(pendingFile = latestFile /\ records[latestFile] = "recovery_verified")
            /\ Len(stale) = 2
            /\ stale[1] = Record(pendingFile, "rejected") /\ stale[2] = Unlink
  <2>1. CASE ~catalog.durable \/ pendingFile = 0
    <3>1. stale = <<>>
      BY <2>1 DEF Stale
    <3> HIDE DEF stale
    <3>2. stale \in Seq(Changes) /\ Len(stale) = 0
      BY <3>1
    <3> QED BY <2>1, <3>2
  <2>2. CASE /\ catalog.durable /\ pendingFile # 0
             /\ pendingFile = latestFile /\ records[latestFile] = "recovery_verified"
    <3>1. stale = <<Unlink>>
      BY <2>2 DEF Stale
    <3> HIDE DEF stale
    <3>2. stale \in Seq(Changes) /\ Len(stale) = 1 /\ stale[1] = Unlink
      BY <3>1, Made
    <3> QED BY <2>2, <3>2
  <2>3. CASE /\ catalog.durable /\ pendingFile # 0
             /\ ~(pendingFile = latestFile /\ records[latestFile] = "recovery_verified")
    <3>1. stale = RejectRecord(pendingFile) /\ pendingFile \in Epochs
      BY <2>3 DEF Stale, JobTypes
    <3> QED BY <2>3, <3>1, Shorts
  <2> QED BY <2>1, <2>2, <2>3
<1> HIDE DEF stale, last, load
<1>4. Joined(stale, load)
  BY <1>2, <1>3, Join
<1>5. /\ Then(stale, load) \in Seq(Changes) /\ Len(Then(stale, load)) = Len(stale) + 1
      /\ Then(stale, load)[Len(stale) + 1] = Load(mode)
      /\ \A i \in 1 .. Len(stale) : Then(stale, load)[i] = stale[i]
  BY <1>2, <1>3, <1>4 DEF Joined
<1>6. Joined(Then(stale, load), last)
  BY <1>2, <1>5, Join
<1>7. todo' = Then(Then(stale, load), last)
  BY <1>1 DEF Then
<1>8. /\ todo' \in Seq(Changes) /\ Loads(todo', Len(stale), mode)
      /\ \A i \in 1 .. Len(stale) : todo'[i] = stale[i]
  BY <1>2, <1>3, <1>5, <1>6, <1>7 DEF Joined, Loads
<1>9. CASE (catalog.durable => pendingFile = 0) /\ Len(stale) = 0
  BY <1>8, <1>9 DEF Starts, Restart, gemini, durable
<1>10. CASE catalog.durable /\ pendingFile # 0 /\ Len(stale) = 1 /\ stale[1] = Unlink
  BY <1>8, <1>10 DEF Starts, Restart, gemini, durable
<1>11. CASE /\ catalog.durable /\ pendingFile # 0
            /\ ~(pendingFile = latestFile /\ records[latestFile] = "recovery_verified")
            /\ Len(stale) = 2
            /\ stale[1] = Record(pendingFile, "rejected") /\ stale[2] = Unlink
  BY <1>8, <1>11 DEF Starts, Restart, gemini, durable
<1> QED BY <1>3, <1>9, <1>10, <1>11

(* The first of the changes is made.                                       *)
Makes(what) ==
  /\ up /\ Len(todo) \in Nat \ {0}
  /\ todo[1] \in Changes /\ todo[1].do = what
  /\ todo' \in Seq(Changes) /\ Len(todo') = Len(todo) - 1
  /\ \A i \in 1 .. Len(todo') : i + 1 \in 1 .. Len(todo) /\ todo'[i] = todo[i + 1]
  /\ \A w :
       /\ Has(todo', w) => Has(todo, w)
       /\ Has(todo, w) => w = what \/ Has(todo', w)
  /\ \A id :
       /\ Saves(todo', id) => Saves(todo, id)
       /\ Saves(todo, id) => Saves(todo', id) \/ (what = "candidate" /\ todo[1].id = id)

(* A handler's changes are made in the order in which it decided on them.  *)
LEMMA Making ==
  ASSUME JobTypes, NEW what, Does(what)
  PROVE  Makes(what) /\ Head1 = todo[1]
<1>1. /\ up /\ todo # <<>> /\ todo' = Tail(todo) /\ Head(todo).do = what
      /\ todo \in Seq(Changes) /\ Head1 = Head(todo)
  BY DEF Does, Head1, JobTypes
<1>2. /\ Len(todo) \in Nat \ {0} /\ todo[1] \in Changes /\ Head(todo) = todo[1]
      /\ todo' \in Seq(Changes) /\ Len(todo') = Len(todo) - 1
      /\ \A i \in 1 .. Len(todo) - 1 : todo'[i] = todo[i + 1]
  BY <1>1, Rest
<1>3. \A i \in 1 .. Len(todo') : i + 1 \in 1 .. Len(todo) /\ todo'[i] = todo[i + 1]
  BY <1>2
<1>4. ASSUME NEW w
      PROVE  /\ Has(todo', w) => Has(todo, w)
             /\ Has(todo, w) => w = what \/ Has(todo', w)
  BY <1>1, RestHas
<1>5. ASSUME NEW id, Saves(todo', id)
      PROVE  Saves(todo, id)
  <2>1. PICK i \in 1 .. Len(todo') : todo'[i].do = "candidate" /\ todo'[i].id = id
    BY <1>5 DEF Saves
  <2> QED BY <1>3, <2>1 DEF Saves
<1>6. ASSUME NEW id, Saves(todo, id)
      PROVE  Saves(todo', id) \/ (what = "candidate" /\ todo[1].id = id)
  <2>1. PICK i \in 1 .. Len(todo) : todo[i].do = "candidate" /\ todo[i].id = id
    BY <1>6 DEF Saves
  <2>2. CASE i = 1
    BY <1>1, <1>2, <2>1, <2>2
  <2>3. CASE i # 1
    <3>1. i - 1 \in 1 .. Len(todo') /\ todo'[i - 1] = todo[i]
      BY <1>2, <2>1, <2>3
    <3> QED BY <2>1, <3>1 DEF Saves
  <2> QED BY <2>2, <2>3
<1> QED BY <1>1, <1>2, <1>3, <1>4, <1>5, <1>6 DEF Makes

(* The order of the changes to come is kept as they are made.              *)
LEMMA OrderlyRest ==
  ASSUME JobTypes, Orderly, NEW what, Makes(what), catalog' = catalog,
         step' = step \/ what = "load"
  PROVE  Orderly'
<1>1. ASSUME NEW i \in 1 .. Len(todo')
      PROVE  /\ todo'[i].do \in {"shards", "promote", "candidate"} => step' \in Steps
             /\ Has(todo', "load") => todo'[i].do \in {"record", "unlink", "load", "clear"}
             /\ todo'[i].do = "load" /\ catalog'.durable =>
                  i < Len(todo') /\ todo'[Len(todo')].do = "clear"
             /\ todo'[i].do = "promote" => OncePromoted(todo', i)
  <2>1. /\ i + 1 \in 1 .. Len(todo) /\ todo'[i] = todo[i + 1]
        /\ Len(todo') = Len(todo) - 1 /\ Len(todo) \in Nat
        /\ Has(todo', "load") => Has(todo, "load")
        /\ what = "load" => Has(todo, "load")
    BY <1>1 DEF Makes, Has
  <2>2. /\ todo[i + 1].do \in {"shards", "promote", "candidate"} => step \in Steps
        /\ Has(todo, "load") => todo[i + 1].do \in {"record", "unlink", "load", "clear"}
        /\ todo[i + 1].do = "load" /\ catalog.durable =>
             i + 1 < Len(todo) /\ todo[Len(todo)].do = "clear"
    BY <2>1 DEF Orderly
  <2>3. todo'[i].do \in {"shards", "promote", "candidate"} => step' \in Steps
    BY <2>1, <2>2
  <2>4. todo'[i].do = "load" /\ catalog'.durable =>
          i < Len(todo') /\ todo'[Len(todo')].do = "clear"
    <3> SUFFICES ASSUME todo'[i].do = "load" /\ catalog'.durable
                 PROVE  i < Len(todo') /\ todo'[Len(todo')].do = "clear"
      OBVIOUS
    <3>1. i + 1 < Len(todo) /\ todo[Len(todo)].do = "clear"
      BY <2>1, <2>2
    <3>2. i < Len(todo') /\ Len(todo') \in 1 .. Len(todo') /\ Len(todo') + 1 = Len(todo)
      BY <1>1, <2>1, <3>1
    <3>3. todo'[Len(todo')] = todo[Len(todo)]
      BY <3>2 DEF Makes
    <3> QED BY <3>1, <3>2, <3>3
  <2>5. ASSUME todo'[i].do = "promote" PROVE OncePromoted(todo', i)
    <3>1. OncePromoted(todo, i + 1)
      BY <2>1, <2>5 DEF Orderly
    <3>2. ASSUME NEW k \in 1 .. Len(todo')
          PROVE  /\ todo'[k].do = "promote" => k = i
                 /\ todo'[k].do = "candidate" => k > i
      <4>1. k + 1 \in 1 .. Len(todo) /\ todo'[k] = todo[k + 1]
        BY DEF Makes
      <4>2. i \in Int /\ k \in Int
        BY <2>1
      <4>3. /\ todo[k + 1].do = "promote" => k + 1 = i + 1
            /\ todo[k + 1].do = "candidate" => k + 1 > i + 1
        BY <3>1, <4>1 DEF OncePromoted
      <4> QED BY <4>1, <4>2, <4>3
    <3> QED BY <3>2 DEF OncePromoted
  <2> QED BY <2>1, <2>2, <2>3, <2>4, <2>5
<1> QED BY <1>1 DEF Orderly

-----------------------------------------------------------------------------
(* The changes of a boundary, one by one.                                  *)
BoundaryChange(q, n, saved, i) ==
  /\ q[i].do \in {"raise", "shards", "promote", "record", "pending", "candidate", "latest",
                  "unlink", "clear"}
  /\ q[i].do = "shards" => i = n + 1 /\ i < Len(q) /\ q[i + 1].do = "promote"
  /\ q[i].do = "promote" => i = n + 2 /\ q[i - 1].do = "shards"
  /\ q[i].do = "candidate" => i = n + 5 /\ q[i].id = epoch
  /\ q[i].do = "latest" =>
       /\ i = n + 9 /\ q[i].id = epoch /\ catalog.dense
       /\ q[i - 1].do = "record" /\ q[i - 1].id = epoch
       /\ q[i - 1].status = "recovery_verified"
       /\ n + 5 \in 1 .. Len(q) /\ q[n + 5].do = "candidate" /\ q[n + 5].id = epoch
  /\ q[i].do \in {"record", "pending"} => i < n + 9 /\ q[i].id = epoch
  /\ q[i].do = "record" /\ q[i].status = "rejected" => ~saved
  /\ q[i].do = "record" => catalog.durable
  /\ q[i].do = "candidate" => catalog.durable

(* Every change of a boundary is one of these.                             *)
LEMMA BoundaryChanges ==
  ASSUME catalog.durable => epoch \in Epochs, NEW q, NEW n \in {0, 3},
         NEW replicated \in BOOLEAN, NEW saved \in BOOLEAN,
         BoundaryIn(q, n, replicated, saved), NEW i \in n + 1 .. Len(q)
  PROVE  BoundaryChange(q, n, saved, i)
<1>1. n \in Nat
  OBVIOUS
<1>2. ChangesOf(epoch)
  BY MadeOf
<1>3. CASE ~replicated /\ WithoutReplica(q, n)
  BY <1>1, <1>3, Made DEF WithoutReplica, BoundaryChange
<1>4. CASE replicated /\ ~catalog.durable /\ InMemoryOnly(q, n)
  BY <1>1, <1>4, Made DEF InMemoryOnly, Persists, BoundaryChange
<1>5. CASE replicated /\ catalog.durable /\ ~saved /\ SaveFailed(q, n)
  BY <1>1, <1>5, <1>2, SMTT(30) DEF SaveFailed, Persists, BoundaryChange, ChangesOf
<1>6. CASE /\ replicated /\ catalog.durable /\ saved /\ ~catalog.dense
           /\ Len(q) = n + 7 /\ Candidate(q, n)
  BY <1>1, <1>6, <1>2, SMTT(30) DEF Candidate, Persists, BoundaryChange, ChangesOf
<1>7. CASE replicated /\ catalog.durable /\ saved /\ catalog.dense /\ Certified(q, n)
  <2>1. /\ Len(q) = n + 10 /\ Candidate(q, n)
        /\ q[n + 8] = Record(epoch, "recovery_verified") /\ q[n + 9] = Latest(epoch)
        /\ q[n + 10] = Unlink
    BY <1>7 DEF Certified
  <2>2. CASE i \in n + 1 .. n + 5
    BY <1>1, <1>2, <1>7, <2>1, <2>2, SMTT(30) DEF Candidate, Persists, BoundaryChange, ChangesOf
  <2>3. CASE i \in n + 6 .. n + 10
    BY <1>1, <1>2, <1>7, <2>1, <2>3, SMTT(30) DEF Candidate, Persists, BoundaryChange, ChangesOf
  <2> QED BY <1>1, <2>1, <2>2, <2>3
<1> QED BY <1>3, <1>4, <1>5, <1>6, <1>7 DEF BoundaryIn

-----------------------------------------------------------------------------
(* Types, and what the job keeps in memory.                                *)
JobOK == JobTypes /\ JobInv

(* Between two handlers no change is to come.                              *)
LEMMA NoChanges ==
  ASSUME NEW q, Len(q) = 0
  PROVE  (\A what : ~Has(q, what)) /\ (\A id : ~Saves(q, id))
BY DEF Has, Saves

(* A candidate that is dropped is written about, and nothing else is.      *)
LEMMA DroppedChanges ==
  ASSUME Dropped
  PROVE  \A i \in 1 .. Len(todo') :
           /\ todo'[i].do \in {"record", "pending", "unlink", "reject"}
           /\ todo'[i].do = "record" => dur # NoCandidate /\ todo'[i].id = dur.id
<1>1. ChangesOf(dur.id)
  BY MadeOf
<1>2. CASE dur = NoCandidate /\ Len(todo') = 1 /\ todo'[1] = RejectStatus
  BY <1>1, <1>2 DEF ChangesOf
<1>3. CASE /\ dur # NoCandidate /\ Len(todo') = 3
           /\ todo'[1] = Record(dur.id, "rejected") /\ todo'[2] = Unlink
           /\ todo'[3] = RejectStatus
  <2>1. /\ todo'[1].do = "record" /\ todo'[1].id = dur.id /\ todo'[2].do = "unlink"
        /\ todo'[3].do = "reject"
    BY <1>1, <1>3 DEF ChangesOf
  <2>2. \A i \in 1 .. Len(todo') : i = 1 \/ i = 2 \/ i = 3
    BY <1>3
  <2> QED BY <1>3, <2>1, <2>2
<1>4. CASE /\ dur # NoCandidate /\ Len(todo') = 5
           /\ todo'[1] = Record(dur.id, "candidate") /\ todo'[2] = Pending(dur.id)
           /\ todo'[3] = Record(dur.id, "rejected") /\ todo'[4] = Unlink
           /\ todo'[5] = RejectStatus
  <2>1. /\ todo'[1].do = "record" /\ todo'[1].id = dur.id /\ todo'[2].do = "pending"
        /\ todo'[3].do = "record" /\ todo'[3].id = dur.id /\ todo'[4].do = "unlink"
        /\ todo'[5].do = "reject"
    BY <1>1, <1>4 DEF ChangesOf
  <2>2. \A i \in 1 .. Len(todo') : i = 1 \/ i = 2 \/ i = 3 \/ i = 4 \/ i = 5
    BY <1>4
  <2> QED BY <1>4, <2>1, <2>2
<1> QED BY <1>2, <1>3, <1>4 DEF Dropped

(* A replay: the schedule stays in step with the candidate's evidence, and *)
(* the program it leaves is in order.                                      *)
LEMMA JobReplays ==
  ASSUME JobOK, NEW s \in Steps, NEW t \in Taints, Replays(s, t)
  PROVE  JobOK'
<1>1. /\ JobTypes /\ up /\ todo = <<>> /\ todo' \in Seq(Changes) /\ up' = up
      /\ catalog' = catalog /\ step' = s /\ taint' = t /\ pos' \in Shapes
      /\ UNCHANGED <<files, status, records, artifact, pendingFile, latestFile>>
  BY DEF JobOK, Replays, Outcome
<1>2. \A m \in mem' : m.step \in Steps /\ m.taint \in Taints /\ m.pos \in Shapes
  <2>1. ASSUME NEW m \in mem'
        PROVE  m.step \in Steps /\ m.taint \in Taints /\ m.pos \in Shapes
    <3>1. m \in mem \/ m = [step |-> s, taint |-> t, pos |-> pos']
      BY DEF Replays, Outcome
    <3> QED BY <1>1, <3>1 DEF JobTypes
  <2> QED BY <2>1
<1>3. /\ Shapes' = Shapes /\ Taints' = Taints
      /\ 0 \in Shapes /\ dur.first \in Shapes /\ dur.checked \in Nat /\ epoch \in Nat
      /\ pos \in Nat /\ pos' \in Nat /\ s \in 0 .. MaxStep /\ Shapes \subseteq Nat
      /\ dur.id \in Epochs \cup {0} /\ dur.first \in Nat
  BY <1>1, TrustAssumption, SMTT(60) DEF Shapes, Taints, Size, JobTypes, Steps
<1>4. Len(todo') \in Nat /\ ~Away
  BY <1>1, NoChanges DEF Away
<1>5. CASE Dropped
  <2>1. dur' = NoCandidate /\ epoch' = epoch
    BY <1>5 DEF Dropped
  <2>2. \A i \in 1 .. Len(todo') : todo'[i].do \in {"record", "pending", "unlink", "reject"}
    BY <1>5, DroppedChanges
  <2>3. Orderly' /\ ~Away'
    BY <1>1, <2>2 DEF Orderly, Away, Has
  <2>4. Follows'
    BY <2>1 DEF Follows
  <2>5. JobInv'
    BY <1>1, <2>1, <2>3, <2>4 DEF JobOK, JobInv
  <2>6. JobTypes'
    BY <1>1, <1>2, <1>3, <2>1 DEF JobTypes, NoCandidate
  <2> QED BY <2>5, <2>6 DEF JobOK
<1>6. CASE NextShape(t)
  <2>1. /\ epoch' = epoch /\ pos' = pos + 1
        /\ \/ dur = NoCandidate /\ dur' = NoCandidate /\ todo' = <<>>
           \/ /\ dur # NoCandidate
              /\ dur' = [id |-> dur.id, first |-> dur.first, checked |-> dur.checked + 1]
              /\ Len(todo') = 2
              /\ todo'[1] = Record(dur.id, "candidate") /\ todo'[2] = Pending(dur.id)
    BY <1>6 DEF NextShape
  <2>2. \A i \in 1 .. Len(todo') : todo'[i].do \in {"record", "pending"}
    <3>1. ChangesOf(dur.id)
      BY MadeOf
    <3> QED BY <2>1, <3>1 DEF ChangesOf
  <2>3. Orderly' /\ ~Away'
    BY <1>1, <2>2 DEF Orderly, Away, Has
  <2>4. Follows'
    BY <1>3, <2>1 DEF Follows, JobOK, JobInv
  <2>5. JobInv'
    BY <1>1, <2>1, <2>3, <2>4 DEF JobOK, JobInv
  <2>6. /\ dur'.id \in Epochs \cup {0} /\ dur'.first \in Shapes /\ dur'.checked \in Nat
        /\ dur' = [id |-> dur'.id, first |-> dur'.first, checked |-> dur'.checked]
        /\ epoch' \in Nat
    BY <1>3, <2>1 DEF NoCandidate
  <2>7. JobTypes'
    BY <1>1, <1>2, <1>3, <2>6 DEF JobTypes
  <2> QED BY <2>5, <2>7 DEF JobOK
<1>7. ASSUME NEW n \in {0, 3}, NEW replicated \in BOOLEAN, NEW saved \in BOOLEAN,
             CycleEnds(n, t, replicated, saved)
      PROVE  JobOK'
  <2>1. /\ catalog.durable => epoch \in Epochs
        /\ BoundaryIn(todo', n, replicated, saved)
        /\ IF replicated /\ saved /\ catalog.durable /\ ~catalog.dense
           THEN dur' = [id |-> epoch, first |-> pos', checked |-> 0]
           ELSE dur' = NoCandidate
        /\ epoch' = IF replicated /\ saved /\ catalog.durable THEN epoch + 1 ELSE epoch
    BY <1>7 DEF CycleEnds
  <2>2. ASSUME NEW i \in 1 .. Len(todo')
        PROVE  /\ todo'[i].do \in {"raise", "shards", "promote", "record", "pending",
                                   "candidate", "latest", "unlink", "clear"}
               /\ todo'[i].do = "promote" => i = n + 2
               /\ todo'[i].do = "candidate" => i = n + 5
    <3>1. CASE i > n
      <4>1. i \in n + 1 .. Len(todo')
        BY <3>1
      <4>2. BoundaryChange(todo', n, saved, i)
        BY <2>1, <4>1, BoundaryChanges
      <4> QED BY <4>2 DEF BoundaryChange
    <3>2. CASE ~(i > n)
      <4>1. i \in {1, 2, 3} /\ n = 3
        BY <3>2
      <4>2. /\ todo'[1] = Record(dur.id, "recovery_verified")
            /\ todo'[2] = Latest(dur.id) /\ todo'[3] = Unlink /\ dur # NoCandidate
        BY <1>7, <4>1 DEF CycleEnds, Committed
      <4>3. todo'[i].do \in {"record", "latest", "unlink"}
        BY <4>1, <4>2, Made DEF JobOK, JobInv, Follows, Statuses
      <4> QED BY <4>3
    <3> QED BY <3>1, <3>2
  <2>3. Orderly' /\ ~Away'
    BY <1>1, <2>2 DEF Orderly, Away, Has, OncePromoted
  <2>4. Follows'
    BY <1>1, <1>3, <2>1 DEF Follows
  <2>5. JobInv'
    BY <1>1, <2>1, <2>3, <2>4 DEF JobOK, JobInv
  <2>6. epoch' \in Nat /\ dur'.id \in Epochs \cup {0} /\ dur'.first \in Shapes
        /\ dur'.checked \in Nat
        /\ dur' = [id |-> dur'.id, first |-> dur'.first, checked |-> dur'.checked]
    BY <1>1, <1>3, <2>1 DEF NoCandidate
  <2>7. JobTypes'
    BY <1>1, <1>2, <1>3, <2>6 DEF JobTypes
  <2> QED BY <2>5, <2>7 DEF JobOK
<1> QED
  BY <1>5, <1>6, <1>7 DEF Replays, Outcome

(* The other steps between handlers.                                       *)
LEMMA JobIdles ==
  ASSUME JobOK, PostStepWithoutResult \/ Drops \/ KeepsLatest
  PROVE  JobOK'
<1>1. /\ JobTypes /\ JobInv /\ up /\ todo = <<>> /\ up' = up /\ catalog' = catalog
      /\ UNCHANGED <<pos, mem, files, status, records, artifact, pendingFile, latestFile>>
      /\ todo' \in Seq(Changes)
  <2>1. todo \in Seq(Changes)
    BY DEF JobOK, JobTypes
  <2> QED BY <2>1 DEF JobOK, PostStepWithoutResult, Drops, KeepsLatest, Idle, gemini, durable
<1>2. Shapes' = Shapes /\ Taints' = Taints /\ 0 \in Shapes /\ Steps \subseteq 0 .. MaxStep
  BY <1>1, TrustAssumption DEF Shapes, Taints, Size, JobTypes, Steps
<1>3. CASE PostStepWithoutResult
  <2>1. /\ taint' \in Taints /\ step' \in 0 .. MaxStep /\ UNCHANGED <<dur, epoch, todo>>
    BY <1>1, <1>3, TrustAssumption DEF PostStepWithoutResult, Trained, Taints, JobTypes
  <2>2. JobTypes'
    BY <1>1, <1>2, <2>1 DEF JobTypes
  <2>3. JobInv'
    BY <1>1, <2>1 DEF JobInv, Away, Has, Follows, Orderly
  <2> QED BY <2>2, <2>3 DEF JobOK
<1>4. CASE Drops
  <2>1. dur' = NoCandidate /\ epoch' = epoch /\ UNCHANGED <<step, taint>>
    BY <1>4 DEF Drops, Dropped
  <2>2. \A i \in 1 .. Len(todo') : todo'[i].do \in {"record", "pending", "unlink", "reject"}
    BY <1>4, DroppedChanges DEF Drops
  <2>3. Orderly' /\ ~Away'
    BY <1>1, <2>2 DEF Orderly, Away, Has
  <2>4. JobTypes'
    BY <1>1, <1>2, <2>1 DEF JobTypes, NoCandidate
  <2>5. JobInv'
    BY <1>1, <2>1, <2>3 DEF JobInv, Follows
  <2> QED BY <2>4, <2>5 DEF JobOK
<1>5. CASE KeepsLatest
  <2>1. UNCHANGED <<dur, epoch, step, taint>>
    BY <1>5 DEF KeepsLatest
  <2>2. \A i \in 1 .. Len(todo') : todo'[i].do = "mode"
    BY <1>5, Made DEF KeepsLatest, Modes
  <2>3. Orderly' /\ ~Away'
    BY <1>1, <2>2 DEF Orderly, Away, Has
  <2>4. JobTypes'
    BY <1>1, <1>2, <2>1 DEF JobTypes
  <2>5. JobInv'
    BY <1>1, <2>1, <2>3 DEF JobInv, Follows
  <2> QED BY <2>4, <2>5 DEF JobOK
<1> QED BY <1>3, <1>4, <1>5

(* A change of the manifests, of the shards or of the status.              *)
LEMMA JobMakes ==
  ASSUME JobOK, NEW what, Makes(what), what # "load", LiveUnchanged, catalog' = catalog,
         catalog.dense => status'.candidate = NoStep,
         files' \in [Steps -> [taint : Taints, pos : Shapes] \cup {NoFile}],
         status' \in [candidate : Steps \cup {NoStep}, verified : Steps \cup {NoStep},
                      history : SUBSET Steps, mode : Modes],
         records' \in [Epochs -> Statuses],
         artifact' \in [Epochs -> [step : 0 .. MaxStep, taint : Taints]],
         pendingFile' \in Epochs \cup {0}, latestFile' \in Epochs \cup {0}
  PROVE  JobOK'
<1>1. /\ JobTypes /\ JobInv /\ UNCHANGED <<up, step, pos, taint, mem, dur, epoch>>
      /\ up /\ todo' \in Seq(Changes) /\ Shapes' = Shapes /\ Taints' = Taints
  BY DEF JobOK, LiveUnchanged, Makes, Shapes, Taints, Size
<1>2. Orderly'
  BY <1>1, OrderlyRest DEF JobInv
<1>3. Away' => Away
  BY <1>1 DEF Away, Makes
<1>4. JobTypes'
  BY <1>1 DEF JobTypes
<1>5. JobInv'
  BY <1>1, <1>2, <1>3 DEF JobInv, Follows
<1> QED BY <1>4, <1>5 DEF JobOK

(* The changes, one by one.                                                *)
Elsewhere == UNCHANGED <<catalog, files, status>> /\ LiveUnchanged

WritesRecord ==
  /\ Makes("record") /\ Elsewhere /\ todo[1].id \in Epochs /\ todo[1].status \in Statuses
  /\ records' = [records EXCEPT ![todo[1].id] = todo[1].status]
  /\ artifact' = IF todo[1].status = "rejected"
                 THEN [artifact EXCEPT ![todo[1].id] = NoArtifact] ELSE artifact
  /\ UNCHANGED <<pendingFile, latestFile>>

WritesPending ==
  /\ Makes("pending") /\ Elsewhere /\ todo[1].id \in Epochs
  /\ pendingFile' = todo[1].id
  /\ UNCHANGED <<records, artifact, latestFile>>

WritesLatest ==
  /\ Makes("latest") /\ Elsewhere /\ todo[1].id \in Epochs
  /\ latestFile' = todo[1].id
  /\ UNCHANGED <<records, artifact, pendingFile>>

Unlinks ==
  /\ Makes("unlink") /\ Elsewhere
  /\ pendingFile' = 0
  /\ UNCHANGED <<records, artifact, latestFile>>

WritesArtifact ==
  /\ Makes("candidate") /\ Elsewhere /\ todo[1].id \in Epochs
  /\ artifact' = [artifact EXCEPT ![todo[1].id] = [step |-> step, taint |-> taint]]
  /\ UNCHANGED <<records, pendingFile, latestFile>>

(* _DurableManifestStore writes one of these files at a time.              *)
LEMMA ManifestChanges ==
  ASSUME JobTypes, WriteManifest
  PROVE  WritesRecord \/ WritesPending \/ WritesLatest \/ Unlinks \/ WritesArtifact
<1>1. Elsewhere
  BY DEF WriteManifest, Elsewhere, gemini
<1>2. ASSUME NEW what, Does(what), what \in {"record", "pending", "latest", "candidate"}
      PROVE  /\ Makes(what) /\ Head1 = todo[1] /\ todo[1].id \in Epochs
             /\ what = "record" => todo[1].status \in Statuses
  <2>1. Makes(what) /\ Head1 = todo[1]
    BY <1>2, Making
  <2>2. todo[1] \in Changes /\ todo[1].do = what
    BY <2>1 DEF Makes
  <2> QED BY <1>2, <2>1, <2>2, Kinds
<1>3. Does("unlink") => Makes("unlink")
  BY Making
<1>4. CASE /\ Does("record")
           /\ records' = [records EXCEPT ![Head1.id] = Head1.status]
           /\ artifact' = IF Head1.status = "rejected"
                          THEN [artifact EXCEPT ![Head1.id] = NoArtifact] ELSE artifact
           /\ UNCHANGED <<pendingFile, latestFile>>
  BY <1>1, <1>2, <1>4 DEF WritesRecord
<1>5. CASE /\ Does("pending")
           /\ pendingFile' = Head1.id
           /\ UNCHANGED <<records, artifact, latestFile>>
  BY <1>1, <1>2, <1>5 DEF WritesPending
<1>6. CASE /\ Does("latest")
           /\ latestFile' = Head1.id
           /\ UNCHANGED <<records, artifact, pendingFile>>
  BY <1>1, <1>2, <1>6 DEF WritesLatest
<1>7. CASE /\ Does("unlink")
           /\ pendingFile' = 0
           /\ UNCHANGED <<records, artifact, latestFile>>
  BY <1>1, <1>3, <1>7 DEF Unlinks
<1>8. CASE /\ Does("candidate")
           /\ artifact' = [artifact EXCEPT ![Head1.id] = [step |-> step, taint |-> taint]]
           /\ UNCHANGED <<records, pendingFile, latestFile>>
  BY <1>1, <1>2, <1>8 DEF WritesArtifact
<1> QED BY <1>4, <1>5, <1>6, <1>7, <1>8 DEF WriteManifest

(* Writing the manifests leaves the job's memory alone.                    *)
LEMMA JobManifests ==
  ASSUME JobOK, WriteManifest
  PROVE  JobOK'
<1>1. JobTypes /\ JobInv
  BY DEF JobOK
<1>2. files' = files /\ status' = status /\ catalog' = catalog /\ LiveUnchanged
  BY DEF WriteManifest, gemini
<1>3. /\ catalog.dense => status'.candidate = NoStep
      /\ files' \in [Steps -> [taint : Taints, pos : Shapes] \cup {NoFile}]
      /\ status' \in [candidate : Steps \cup {NoStep}, verified : Steps \cup {NoStep},
                      history : SUBSET Steps, mode : Modes]
  BY <1>1, <1>2 DEF JobTypes, JobInv
<1>4. /\ records \in [Epochs -> Statuses]
      /\ artifact \in [Epochs -> [step : 0 .. MaxStep, taint : Taints]]
      /\ pendingFile \in Epochs \cup {0} /\ latestFile \in Epochs \cup {0}
      /\ step \in 0 .. MaxStep /\ taint \in Taints
      /\ NoArtifact \in [step : 0 .. MaxStep, taint : Taints]
  BY <1>1, TrustAssumption DEF JobTypes, NoArtifact, Taints
<1>5. CASE WritesRecord
  <2>1. records' \in [Epochs -> Statuses]
    BY <1>4, <1>5 DEF WritesRecord
  <2>2. artifact' \in [Epochs -> [step : 0 .. MaxStep, taint : Taints]]
    BY <1>4, <1>5 DEF WritesRecord
  <2> QED BY <1>2, <1>3, <1>4, <1>5, <2>1, <2>2, JobMakes DEF WritesRecord
<1>6. CASE WritesPending
  BY <1>2, <1>3, <1>4, <1>6, JobMakes DEF WritesPending
<1>7. CASE WritesLatest
  BY <1>2, <1>3, <1>4, <1>7, JobMakes DEF WritesLatest
<1>8. CASE Unlinks
  BY <1>2, <1>3, <1>4, <1>8, JobMakes DEF Unlinks
<1>9. CASE WritesArtifact
  <2>1. artifact' \in [Epochs -> [step : 0 .. MaxStep, taint : Taints]]
    BY <1>4, <1>9 DEF WritesArtifact
  <2> QED BY <1>2, <1>3, <1>4, <1>9, <2>1, JobMakes DEF WritesArtifact
<1> QED BY <1>1, <1>5, <1>6, <1>7, <1>8, <1>9, ManifestChanges

WritesShards ==
  /\ Makes("shards") /\ step \in Steps
  /\ files' = [files EXCEPT ![step] = [taint |-> taint, pos |-> pos]]
  /\ LiveUnchanged
  /\ UNCHANGED <<catalog, status, records, artifact, pendingFile, latestFile>>

(* The roles advance, the candidate is dropped, or the status keeps both.  *)
StatusType ==
  [candidate : Steps \cup {NoStep}, verified : Steps \cup {NoStep},
   history : SUBSET Steps, mode : Modes]

Advances ==
  /\ Makes("promote") /\ step \in Steps
  /\ status'.candidate = IF catalog.dense THEN NoStep ELSE step
  /\ status'.verified = IF catalog.dense THEN step
                        ELSE IF status.candidate # NoStep THEN status.candidate
                        ELSE status.verified
  /\ status'.history = IF status'.verified = NoStep THEN status.history
                       ELSE status.history \cup {status'.verified}

Forgets ==
  /\ Makes("reject") \/ Makes("clear")
  /\ status'.candidate = NoStep
  /\ status'.verified = status.verified /\ status'.history = status.history

Remains ==
  /\ Makes("mode")
  /\ status'.candidate = status.candidate
  /\ status'.verified = status.verified /\ status'.history = status.history

WritesStatus ==
  /\ status' \in StatusType
  /\ Advances \/ Forgets \/ Remains
  /\ LiveUnchanged
  /\ UNCHANGED <<catalog, files, records, artifact, pendingFile, latestFile>>

(* _persist_boundary writes the shards of the step it is at.               *)
LEMMA ShardChanges ==
  ASSUME JobTypes, JobInv, WriteShards
  PROVE  WritesShards
<1>1. Makes("shards")
  BY Making DEF WriteShards
<1>2. step \in Steps
  BY <1>1 DEF Makes, JobInv, Orderly
<1> QED BY <1>1, <1>2 DEF WriteShards, WritesShards, durable

(* What with_verified, set_recovery_mode and the clearing of a candidate   *)
(* leave of the status.                                                    *)
LEMMA StatusFields ==
  ASSUME status \in StatusType
  PROVE  /\ \A v \in Steps \cup {NoStep} :
              /\ WithVerified(status, v) \in StatusType
              /\ WithVerified(status, v).candidate = status.candidate
              /\ WithVerified(status, v).verified = v
              /\ WithVerified(status, v).history =
                   IF v = NoStep THEN status.history ELSE status.history \cup {v}
         /\ \A m \in Modes :
              /\ WithMode(m) \in StatusType
              /\ WithMode(m).candidate = IF m = "recovery_verified" THEN NoStep ELSE status.candidate
              /\ WithMode(m).verified = status.verified
              /\ WithMode(m).history = status.history
         /\ Cleared \in StatusType /\ Cleared.candidate = NoStep
         /\ Cleared.verified = status.verified /\ Cleared.history = status.history
<1>1. ASSUME NEW v \in Steps \cup {NoStep}
      PROVE  /\ WithVerified(status, v) \in StatusType
             /\ WithVerified(status, v).candidate = status.candidate
             /\ WithVerified(status, v).verified = v
             /\ WithVerified(status, v).history =
                  IF v = NoStep THEN status.history ELSE status.history \cup {v}
  <2> DEFINE h == IF v = NoStep THEN status.history ELSE status.history \cup {v}
  <2>1. h \in SUBSET Steps
    BY DEF StatusType
  <2>2. WithVerified(status, v) = [status EXCEPT !.verified = v, !.history = h]
    BY DEF WithVerified, StatusType
  <2> HIDE DEF h
  <2>3. /\ WithVerified(status, v) \in StatusType
        /\ WithVerified(status, v).candidate = status.candidate
        /\ WithVerified(status, v).verified = v
        /\ WithVerified(status, v).history = h
    BY <2>1, <2>2 DEF StatusType
  <2> QED BY <2>3 DEF h
<1>2. ASSUME NEW m \in Modes
      PROVE  /\ WithMode(m) \in StatusType
             /\ WithMode(m).candidate = IF m = "recovery_verified" THEN NoStep ELSE status.candidate
             /\ WithMode(m).verified = status.verified
             /\ WithMode(m).history = status.history
  BY DEF WithMode, StatusType, Modes
<1>3. /\ Cleared \in StatusType /\ Cleared.candidate = NoStep
      /\ Cleared.verified = status.verified /\ Cleared.history = status.history
  BY DEF Cleared, StatusType
<1> QED BY <1>1, <1>2, <1>3

(* The four ways in which a handler writes the status.                     *)
LEMMA StatusChanges ==
  ASSUME JobTypes, JobInv, WriteStatus
  PROVE  WritesStatus
<1>1. /\ status \in StatusType /\ LiveUnchanged
      /\ UNCHANGED <<catalog, files, records, artifact, pendingFile, latestFile>>
  BY DEF WriteStatus, durable, JobTypes, StatusType
<1>2. CASE Does("promote") /\ status' = Promoted
  <2> DEFINE v == IF catalog.dense THEN step
                  ELSE IF status.candidate # NoStep THEN status.candidate ELSE status.verified
             w == WithVerified(status, v)
             c == IF catalog.dense THEN NoStep ELSE step
  <2>1. Makes("promote")
    BY <1>2, Making
  <2>2. step \in Steps
    BY <2>1 DEF Makes, JobInv, Orderly
  <2>3. v \in Steps \cup {NoStep} /\ c \in Steps \cup {NoStep}
    BY <1>1, <2>2 DEF StatusType
  <2>4. status' = [w EXCEPT !.candidate = c, !.mode = "latest"]
    BY <1>2 DEF Promoted
  <2> HIDE DEF v, c
  <2>5. /\ w \in StatusType /\ w.verified = v
        /\ w.history = IF v = NoStep THEN status.history ELSE status.history \cup {v}
    BY <1>1, <2>3, StatusFields
  <2> HIDE DEF w
  <2>6. /\ status' \in StatusType /\ status'.candidate = c
        /\ status'.verified = w.verified /\ status'.history = w.history
    BY <2>3, <2>4, <2>5 DEF StatusType, Modes
  <2>7. Advances
    BY <2>1, <2>2, <2>5, <2>6 DEF Advances, v, c
  <2> QED BY <1>1, <2>6, <2>7 DEF WritesStatus
<1>3. CASE Does("reject") /\ status' = WithMode("recovery_verified")
  <2>1. Makes("reject")
    BY <1>3, Making
  <2> QED BY <1>1, <1>3, <2>1, StatusFields DEF WritesStatus, Forgets, Modes
<1>4. CASE Does("clear") /\ status' = Cleared
  <2>1. Makes("clear")
    BY <1>4, Making
  <2> QED BY <1>1, <1>4, <2>1, StatusFields DEF WritesStatus, Forgets
<1>5. CASE Does("mode") /\ status' = WithMode(Head1.mode)
  <2>1. Makes("mode") /\ Head1 = todo[1]
    BY <1>5, Making
  <2>2. Head1.mode = "latest"
    BY <2>1, Kinds DEF Makes
  <2> QED BY <1>1, <1>5, <2>1, <2>2, StatusFields DEF WritesStatus, Remains, Modes
<1> QED BY <1>2, <1>3, <1>4, <1>5 DEF WriteStatus

(* The load finds the verified generation, or a newer one, if there is one *)
(* on disk; epochs that have a record are not used again.                  *)
LoadsState ==
  /\ Makes("load") /\ status' \in StatusType
  /\ status'.candidate \in {status.candidate, NoStep}
  /\ status'.verified = status.verified /\ status'.history = status.history
  /\ \/ /\ step' \in OnDisk /\ taint' = files[step'].taint /\ pos' = files[step'].pos
        /\ status.verified \in OnDisk => status.verified <= step'
     \/ /\ step' \in 0 .. MaxStep /\ taint' \in Taints /\ pos' = 0
        /\ status.verified \notin OnDisk
  /\ epoch' \in Nat \ {0}
  /\ \A i \in Epochs : records[i] # "none" => i < epoch'
  /\ UNCHANGED <<catalog, up, mem, dur, files, records, artifact, pendingFile, latestFile>>

(* load() of a GEMINI checkpoint finds a generation no older than the      *)
(* verified one, if that one is on disk.                                   *)
LEMMA FoundNewest ==
  ASSUME JobTypes, NEW mode \in Modes
  PROVE  /\ Found(mode) \in OnDisk \cup {NoStep}
         /\ status.verified \in OnDisk => status.verified <= Found(mode)
<1> DEFINE F == {NoStep} \cup (IF mode = "latest" THEN OnDisk ELSE OnDisk \cap {status.verified})
<1>1. MaxStep \in Nat /\ OnDisk \subseteq Steps
  BY TrustAssumption DEF OnDisk
<1>2. F \in SUBSET (-1 .. MaxStep) /\ F # {}
  <2>1. /\ OnDisk \subseteq -1 .. MaxStep /\ NoStep \in -1 .. MaxStep
        /\ OnDisk \cap {status.verified} \subseteq OnDisk
    BY <1>1 DEF Steps, NoStep
  <2>2. NoStep \in F /\ F \subseteq {NoStep} \cup OnDisk
    OBVIOUS
  <2> HIDE DEF F
  <2> QED BY <2>1, <2>2
<1>3. Max(F) \in F /\ \A y \in F : y <= Max(F)
  <2> HIDE DEF F
  <2> QED BY <1>1, <1>2, Largest
<1>4. Found(mode) = Max(F)
  BY DEF Found, Modes
<1>5. Max(F) \in OnDisk \cup {NoStep} /\ (status.verified \in OnDisk => status.verified \in F)
  BY <1>3
<1> HIDE DEF F
<1> QED BY <1>3, <1>4, <1>5

(* What a load puts into memory.                                           *)
LEMMA LoadChanges ==
  ASSUME JobTypes, LoadState
  PROVE  LoadsState
<1>1. Makes("load") /\ Head1 = todo[1]
  BY Making DEF LoadState
<1>2. Head1.mode \in Modes \cup {"status"} /\ status \in StatusType
  BY <1>1, Kinds DEF Makes, JobTypes, StatusType
<1> DEFINE mode == IF Head1.mode = "status" THEN status.mode ELSE Head1.mode
           s == Found(mode)
<1>3. mode \in Modes
  BY <1>2 DEF StatusType, Modes
<1>4. /\ status' = WithMode(mode)
      /\ \/ /\ s # NoStep
            /\ step' = s /\ taint' = files[s].taint /\ pos' = files[s].pos
         \/ /\ s = NoStep /\ latestFile # 0
            /\ step' = artifact[latestFile].step
            /\ taint' = artifact[latestFile].taint /\ pos' = 0
         \/ /\ s = NoStep /\ latestFile = 0
            /\ step' = 0 /\ taint' = Clean /\ pos' = 0
      /\ epoch' = NextEpoch
      /\ UNCHANGED <<catalog, up, mem, dur, files, records, artifact, pendingFile, latestFile>>
  BY DEF LoadState, durable
<1> HIDE DEF mode
<1>5. /\ status' \in StatusType /\ status'.candidate \in {status.candidate, NoStep}
      /\ status'.verified = status.verified /\ status'.history = status.history
  BY <1>2, <1>3, <1>4, StatusFields
<1>6. /\ s \in OnDisk \cup {NoStep}
      /\ status.verified \in OnDisk => status.verified <= s
  BY <1>3, FoundNewest
<1>7. MaxStep \in Nat /\ OnDisk \subseteq Steps /\ MaxEpoch \in Nat
  BY TrustAssumption DEF OnDisk
<1> HIDE DEF s
<1>8. \/ /\ step' \in OnDisk /\ taint' = files[step'].taint /\ pos' = files[step'].pos
         /\ status.verified \in OnDisk => status.verified <= step'
      \/ /\ step' \in 0 .. MaxStep /\ taint' \in Taints /\ pos' = 0
         /\ status.verified \notin OnDisk
  <2>1. CASE s # NoStep
    BY <1>4, <1>6, <2>1
  <2>2. CASE s = NoStep
    <3>1. status.verified \notin OnDisk
      <4>1. \A x \in OnDisk : ~(x <= NoStep)
        BY <1>7 DEF Steps, NoStep
      <4> QED BY <1>6, <2>2, <4>1
    <3>2. CASE latestFile # 0
      <4>1. artifact[latestFile] \in [step : 0 .. MaxStep, taint : Taints]
        BY <3>2 DEF JobTypes
      <4> QED BY <1>4, <2>2, <3>1, <3>2, <4>1
    <3>3. CASE latestFile = 0
      BY <1>4, <1>7, <2>2, <3>1, <3>3 DEF Taints
    <3> QED BY <3>2, <3>3
  <2> QED BY <2>1, <2>2
<1>9. /\ epoch' \in Nat \ {0}
      /\ \A i \in Epochs : records[i] # "none" => i < epoch'
  <2> DEFINE E == {0} \cup {i \in Epochs : records[i] # "none"}
  <2>1. E \in SUBSET (-1 .. MaxEpoch) /\ E # {} /\ E \subseteq Nat
    BY <1>7 DEF Epochs
  <2>2. epoch' = Max(E) + 1
    BY <1>4 DEF NextEpoch
  <2>3. \A i \in Epochs : records[i] # "none" => i \in E
    OBVIOUS
  <2> HIDE DEF E
  <2>4. Max(E) \in E /\ \A y \in E : y <= Max(E)
    BY <1>7, <2>1, Largest
  <2>5. Max(E) \in Nat
    BY <2>1, <2>4
  <2>6. ASSUME NEW i \in Epochs, records[i] # "none" PROVE i < epoch'
    <3>1. i \in E
      BY <2>3, <2>6
    <3>2. i \in Nat /\ i <= Max(E)
      BY <2>1, <2>4, <3>1
    <3> QED BY <2>2, <2>5, <3>2
  <2> QED BY <2>2, <2>5, <2>6
<1> QED BY <1>1, <1>4, <1>5, <1>8, <1>9 DEF LoadsState

(* The shards, the status and the load.                                    *)
LEMMA JobOther ==
  ASSUME JobOK
  PROVE  /\ WriteShards => JobOK'
         /\ WriteStatus => JobOK'
         /\ LoadState => JobOK'
<1>1. JobTypes /\ JobInv
  BY DEF JobOK
<1>2. /\ files \in [Steps -> [taint : Taints, pos : Shapes] \cup {NoFile}]
      /\ status \in [candidate : Steps \cup {NoStep}, verified : Steps \cup {NoStep},
                     history : SUBSET Steps, mode : Modes]
      /\ records \in [Epochs -> Statuses]
      /\ artifact \in [Epochs -> [step : 0 .. MaxStep, taint : Taints]]
      /\ pendingFile \in Epochs \cup {0} /\ latestFile \in Epochs \cup {0}
      /\ taint \in Taints /\ pos \in Shapes
  BY <1>1 DEF JobTypes
<1>3. ASSUME WriteShards PROVE JobOK'
  <2>1. WritesShards
    BY <1>1, <1>3, ShardChanges
  <2>2. files' \in [Steps -> [taint : Taints, pos : Shapes] \cup {NoFile}]
    BY <1>2, <2>1 DEF WritesShards
  <2> QED BY <1>1, <1>2, <2>1, <2>2, JobMakes DEF WritesShards, JobInv
<1>4. ASSUME WriteStatus PROVE JobOK'
  <2>1. WritesStatus
    BY <1>1, <1>4, StatusChanges
  <2>2. catalog.dense => status'.candidate = NoStep
    BY <1>1, <2>1 DEF WritesStatus, Advances, Forgets, Remains, JobInv
  <2>3. \E what : Makes(what) /\ what # "load"
    BY <2>1 DEF WritesStatus, Advances, Forgets, Remains
  <2> QED BY <1>1, <1>2, <2>1, <2>2, <2>3, JobMakes DEF WritesStatus, StatusType
<1>5. ASSUME LoadState PROVE JobOK'
  <2>1. LoadsState
    BY <1>1, <1>5, LoadChanges
  <2>2. /\ UNCHANGED <<catalog, up, mem, dur, files, records, artifact, pendingFile, latestFile>>
        /\ Makes("load") /\ todo' \in Seq(Changes) /\ up
        /\ status' \in StatusType /\ status'.candidate \in {status.candidate, NoStep}
        /\ epoch' \in Nat /\ Shapes' = Shapes /\ Taints' = Taints
    BY <2>1 DEF LoadsState, Makes, Shapes, Taints, Size
  <2>3. Away
    BY <2>2 DEF Away, Makes, Has
  <2>4. step' \in 0 .. MaxStep /\ taint' \in Taints /\ pos' \in Shapes
    <3>1. 0 \in Shapes /\ Steps \subseteq 0 .. MaxStep
      BY <1>1, TrustAssumption DEF Shapes, Size, Steps, JobTypes
    <3>2. \A s \in OnDisk : files[s].taint \in Taints /\ files[s].pos \in Shapes /\ s \in Steps
      BY <1>2 DEF OnDisk
    <3> QED BY <2>1, <3>1, <3>2 DEF LoadsState
  <2>5. Orderly'
    BY <1>1, <2>2, OrderlyRest DEF JobInv
  <2>6. JobTypes'
    BY <1>1, <2>2, <2>4 DEF JobTypes, StatusType
  <2>7. JobInv'
    BY <1>1, <2>2, <2>3, <2>5 DEF JobInv, Follows
  <2> QED BY <2>6, <2>7 DEF JobOK
<1> QED BY <1>3, <1>4, <1>5

(* A job that stops has no memory.                                         *)
LEMMA JobStops ==
  ASSUME JobOK, Crash \/ Terminate
  PROVE  JobOK'
<1>1. /\ JobTypes /\ JobInv
      /\ up' = FALSE /\ step' = 0 /\ pos' = 0 /\ taint' = Clean
      /\ mem' = {} /\ dur' = NoCandidate /\ epoch' = 1 /\ todo' = <<>>
      /\ UNCHANGED <<catalog, status, records, artifact, pendingFile, latestFile>>
  BY DEF JobOK, Crash, Terminate, Stop, durable
<1>2. /\ Shapes' = Shapes /\ Taints' = Taints /\ 0 \in Shapes /\ 0 \in 0 .. MaxStep
  BY <1>1, TrustAssumption DEF Shapes, Taints, Size, JobTypes
<1>3. files' \in [Steps -> [taint : Taints, pos : Shapes] \cup {NoFile}]
  <2>1. CASE Crash
    BY <1>1, <2>1 DEF Crash, JobTypes
  <2>2. CASE Terminate
    <3> DEFINE f(s) == IF \E c \in mem : c.step = s
                       THEN LET c == CHOOSE d \in mem : d.step = s
                            IN  [taint |-> c.taint, pos |-> c.pos]
                       ELSE files[s]
    <3>1. files' = [s \in Steps |-> f(s)]
      BY <2>2 DEF Terminate
    <3>2. ASSUME NEW s \in Steps PROVE f(s) \in [taint : Taints, pos : Shapes] \cup {NoFile}
      <4>1. CASE \E c \in mem : c.step = s
        <5>1. PICK c : c = CHOOSE d \in mem : d.step = s
          OBVIOUS
        <5>2. c \in mem
          BY <4>1, <5>1
        <5>3. f(s) = [taint |-> c.taint, pos |-> c.pos]
          BY <4>1, <5>1
        <5> QED BY <1>1, <5>2, <5>3 DEF JobTypes
      <4>2. CASE ~\E c \in mem : c.step = s
        BY <1>1, <4>2 DEF JobTypes
      <4> QED BY <4>1, <4>2
    <3> HIDE DEF f
    <3> QED BY <3>1, <3>2
  <2> QED BY <2>1, <2>2
<1>4. /\ <<>> \in Seq(Changes) /\ Clean \in Taints
      /\ NoCandidate.id = 0 /\ NoCandidate.first = 0 /\ NoCandidate.checked = 0
      /\ NoCandidate = [id |-> 0, first |-> 0, checked |-> 0]
  BY DEF NoCandidate, Taints
<1>5. JobTypes'
  BY <1>1, <1>2, <1>3, <1>4 DEF JobTypes
<1>6. JobInv'
  BY <1>1 DEF JobInv, Follows, Orderly
<1> QED BY <1>5, <1>6 DEF JobOK

(* What a new process starts with.                                         *)
LEMMA StartChanges ==
  ASSUME JobTypes, NEW mode \in Modes \cup {"status"}, Starts(mode)
  PROVE  /\ Has(todo', "load")
         /\ catalog.durable => todo'[Len(todo')].do = "clear" /\ Has(todo', "clear")
         /\ \A i \in 1 .. Len(todo') :
              /\ todo'[i].do \in {"record", "unlink", "load", "clear"}
              /\ todo'[i].do = "load" /\ catalog.durable => i < Len(todo')
              /\ todo'[i].do = "record" =>
                   /\ todo'[i].id = pendingFile /\ pendingFile # 0
                   /\ ~(pendingFile = latestFile /\ records[latestFile] = "recovery_verified")
              /\ todo'[i].do = "unlink" => pendingFile # 0
         /\ pendingFile # 0 /\ catalog.durable => Has(todo', "unlink")
<1>1. ChangesOf(pendingFile) /\ Load(mode).do = "load" /\ catalog.durable \in BOOLEAN
  BY MadeOf, TrustAssumption DEF Load, JobTypes
<1>2. Len(todo') \in Nat
  BY DEF Starts
<1>3. CASE (catalog.durable => pendingFile = 0) /\ Loads(todo', 0, mode)
  <2>1. CASE catalog.durable
    BY <1>1, <1>2, <1>3, <2>1 DEF Loads, Has, ChangesOf
  <2>2. CASE ~catalog.durable
    BY <1>1, <1>2, <1>3, <2>2 DEF Loads, Has, ChangesOf
  <2> QED BY <2>1, <2>2
<1>4. CASE catalog.durable /\ pendingFile # 0 /\ todo'[1] = Unlink /\ Loads(todo', 1, mode)
  BY <1>1, <1>2, <1>4 DEF Loads, Has, ChangesOf
<1>5. CASE /\ catalog.durable /\ pendingFile # 0
           /\ ~(pendingFile = latestFile /\ records[latestFile] = "recovery_verified")
           /\ todo'[1] = Record(pendingFile, "rejected") /\ todo'[2] = Unlink
           /\ Loads(todo', 2, mode)
  BY <1>1, <1>2, <1>5 DEF Loads, Has, ChangesOf
<1> QED BY <1>3, <1>4, <1>5 DEF Starts

(* A restart has nothing to do with a boundary.                            *)
LEMMA JobStarts ==
  ASSUME JobOK, NEW mode \in Modes \cup {"status"}, Starts(mode)
  PROVE  JobOK'
<1>1. /\ JobTypes /\ JobInv /\ ~up /\ up' = TRUE /\ todo' \in Seq(Changes)
      /\ UNCHANGED <<catalog, step, pos, taint, mem, dur, epoch, files, status, records,
                     artifact, pendingFile, latestFile>>
      /\ Shapes' = Shapes /\ Taints' = Taints
  BY DEF JobOK, Starts, Shapes, Taints, Size
<1>2. Orderly'
  BY <1>1, StartChanges DEF Orderly
<1>3. JobTypes'
  BY <1>1 DEF JobTypes
<1>4. JobInv'
  BY <1>1, <1>2 DEF JobInv, Away, Follows
<1> QED BY <1>3, <1>4 DEF JobOK

(* A new job.                                                              *)
LEMMA JobInit ==
  ASSUME Init
  PROVE  JobOK
<1>1. /\ catalog \in Catalogs /\ catalog.size \in Nat \ {0} /\ MaxStep \in Nat /\ MaxEpoch \in Nat
  BY TrustAssumption DEF Init
<1>2. /\ 0 \in Shapes /\ Clean \in Taints
  BY <1>1 DEF Shapes, Size, Taints
<1>3. NoArtifact \in [step : 0 .. MaxStep, taint : Taints]
  BY <1>1, <1>2 DEF NoArtifact
<1>4. JobTypes
  BY <1>1, <1>2, <1>3 DEF Init, JobTypes, NoCandidate, Statuses, Modes
<1>5. JobInv
  BY DEF Init, JobInv, Away, Has, Follows, Orderly
<1> QED BY <1>4, <1>5 DEF JobOK

-----------------------------------------------------------------------------
(* The manifests: what a change leaves of the records, the bytes that were *)
(* saved and the name in LATEST.                                           *)
Leaves(what) ==
  /\ Makes(what) /\ what # "load" /\ LiveUnchanged /\ catalog' = catalog
  /\ \A id \in Epochs :
       records'[id] = IF what = "record" /\ id = todo[1].id THEN todo[1].status ELSE records[id]
  /\ \A id \in Epochs :
       artifact'[id] = IF what = "record" /\ todo[1].status = "rejected" /\ id = todo[1].id
                       THEN NoArtifact
                       ELSE IF what = "candidate" /\ id = todo[1].id
                       THEN [step |-> step, taint |-> taint] ELSE artifact[id]
  /\ latestFile' = IF what = "latest" THEN todo[1].id ELSE latestFile

(* Every change of a file but the load, in terms of the manifests.         *)
LEMMA Leaving ==
  ASSUME JobOK, WriteManifest \/ WriteShards \/ WriteStatus
  PROVE  \E what : Leaves(what)
<1>1. JobTypes /\ JobInv /\ records \in [Epochs -> Statuses]
      /\ artifact \in [Epochs -> [step : 0 .. MaxStep, taint : Taints]]
  BY DEF JobOK, JobTypes
<1>2. CASE WriteManifest
  <2>1. WritesRecord => Leaves("record")
    BY <1>1 DEF WritesRecord, Elsewhere, Leaves
  <2>2. WritesPending => Leaves("pending")
    BY <1>1 DEF WritesPending, Elsewhere, Leaves
  <2>3. WritesLatest => Leaves("latest")
    BY <1>1 DEF WritesLatest, Elsewhere, Leaves
  <2>4. Unlinks => Leaves("unlink")
    BY <1>1 DEF Unlinks, Elsewhere, Leaves
  <2>5. WritesArtifact => Leaves("candidate")
    BY <1>1 DEF WritesArtifact, Elsewhere, Leaves
  <2> QED BY <1>1, <1>2, <2>1, <2>2, <2>3, <2>4, <2>5, ManifestChanges
<1>3. CASE WriteShards
  BY <1>1, <1>3, ShardChanges DEF WritesShards, Leaves
<1>4. CASE WriteStatus
  <2>1. WritesStatus
    BY <1>1, <1>4, StatusChanges
  <2>2. PICK what \in {"promote", "reject", "clear", "mode"} : Makes(what)
    BY <2>1 DEF WritesStatus, Advances, Forgets, Remains
  <2>3. Leaves(what)
    BY <2>1, <2>2 DEF WritesStatus, Leaves
  <2> QED BY <2>3
<1> QED BY <1>2, <1>3, <1>4

(* One file change: what was to come about the manifests comes true. The   *)
(* record of a commit is on disk before LATEST names its candidate, and no *)
(* change after it takes that back.                                        *)
LEMMA ManifestLeaves ==
  ASSUME JobOK, ManifestInv, NEW what, Leaves(what)
  PROVE  ManifestInv'
<1>1. /\ JobTypes /\ JobInv /\ Makes(what) /\ what # "load" /\ catalog' = catalog
      /\ UNCHANGED <<up, step, pos, taint, mem, dur, epoch>>
      /\ Commits /\ Spares /\ Pends /\ Validated
      /\ Len(todo) \in Nat \ {0} /\ Len(todo') = Len(todo) - 1 /\ 1 \in 1 .. Len(todo)
      /\ todo[1].do = what
  BY DEF JobOK, Leaves, LiveUnchanged, Makes, ManifestInv
<1>2. \A i \in 1 .. Len(todo) :
        /\ todo[i].do \in {"record", "pending", "latest", "candidate"} => todo[i].id \in Epochs
  BY <1>1, Kinds DEF JobTypes
<1>3. /\ 0 \notin Epochs /\ Epochs \subseteq Nat /\ latestFile \in Epochs \cup {0}
      /\ epoch \in Nat /\ dur.id \in Epochs \cup {0} /\ step \in 0 .. MaxStep
  BY <1>1, TrustAssumption DEF Epochs, JobTypes
<1>4. ASSUME NEW i \in 1 .. Len(todo'), todo'[i].do = "latest"
      PROVE  CommitAt(i)'
  <2>1. PICK j \in 1 .. Len(todo) : j = i + 1 /\ todo'[i] = todo[j]
    BY <1>1 DEF Makes
  <2>2. CommitAt(j) /\ todo[j].id \in Epochs
    BY <1>1, <1>2, <1>4, <2>1 DEF Commits
  <2>3. PICK id \in Epochs : id = todo[j].id /\ id = todo'[i].id
    BY <2>1, <2>2
  <2>4. id < epoch' /\ id # dur'.id
    BY <1>1, <2>2, <2>3 DEF CommitAt
  <2>5. todo[j - 1].do = "record" /\ todo[j - 1].id = id
        /\ todo[j - 1].status = "recovery_verified"
    BY <2>1, <2>2, <2>3 DEF CommitAt
  <2>6. i = 1 => records'[todo'[1].id] = "recovery_verified"
    BY <1>1, <2>1, <2>3, <2>5 DEF Leaves
  <2>7. i > 1 => todo'[i - 1] = todo[j - 1]
    <3> SUFFICES ASSUME i > 1 PROVE todo'[i - 1] = todo[j - 1]
      OBVIOUS
    <3>1. PICK a \in 1 .. Len(todo') : a = i - 1 /\ a + 1 = j - 1
      BY <1>1, <2>1
    <3>2. todo'[a] = todo[a + 1]
      BY <1>1 DEF Makes
    <3> QED BY <3>1, <3>2
  <2>8. ASSUME NEW k \in 1 .. Len(todo')
        PROVE  /\ todo'[k].do = "record" /\ todo'[k].id = id =>
                    /\ todo'[k].status # "rejected"
                    /\ k > i => todo'[k].status = "recovery_verified"
               /\ todo'[k].do = "candidate" /\ todo'[k].id = id => k < i
    <3>1. PICK m \in 1 .. Len(todo) : m = k + 1 /\ todo'[k] = todo[m]
      BY <1>1 DEF Makes
    <3>2. /\ todo[m].do = "record" /\ todo[m].id = id =>
               /\ todo[m].status # "rejected"
               /\ m > j => todo[m].status = "recovery_verified"
          /\ todo[m].do = "candidate" /\ todo[m].id = id => m < j
      BY <2>2, <2>3 DEF CommitAt
    <3> QED BY <1>1, <2>1, <3>1, <3>2
  <2>9. IF Saves(todo', id) THEN taint' = Clean
        ELSE artifact'[id].step \in Steps /\ artifact'[id].taint = Clean
    <3>1. /\ Saves(todo', id) => Saves(todo, id)
          /\ Saves(todo, id) => Saves(todo', id) \/ (what = "candidate" /\ todo[1].id = id)
      BY <1>1 DEF Makes
    <3>2. IF Saves(todo, id) THEN taint = Clean
          ELSE artifact[id].step \in Steps /\ artifact[id].taint = Clean
      BY <2>2, <2>3 DEF CommitAt
    <3>3. ~(what = "record" /\ todo[1].status = "rejected" /\ id = todo[1].id)
      BY <1>1, <2>2, <2>3 DEF CommitAt
    <3>4. CASE Saves(todo', id)
      BY <1>1, <3>1, <3>2, <3>4
    <3>5. CASE ~Saves(todo', id) /\ what = "candidate" /\ todo[1].id = id
      <4>1. Saves(todo, id)
        BY <1>1, <3>5 DEF Saves
      <4>2. step \in Steps
        BY <1>1, <3>5 DEF JobInv, Orderly
      <4>3. artifact'[id] = [step |-> step, taint |-> taint]
        BY <3>5 DEF Leaves
      <4> QED BY <3>2, <3>5, <4>1, <4>2, <4>3
    <3>6. CASE ~Saves(todo', id) /\ ~(what = "candidate" /\ todo[1].id = id)
      <4>1. artifact'[id] = artifact[id]
        BY <3>3, <3>6 DEF Leaves
      <4> QED BY <3>1, <3>2, <3>6, <4>1
    <3> QED BY <3>4, <3>5, <3>6
  <2> QED BY <1>1, <2>1, <2>3, <2>4, <2>5, <2>6, <2>7, <2>8, <2>9 DEF CommitAt
<1>5. Commits'
  BY <1>4 DEF Commits
<1>6. what = "latest" => todo[1].id \in Epochs /\ CommitAt(1) /\ ~Saves(todo, todo[1].id)
  <2> SUFFICES ASSUME what = "latest"
               PROVE  todo[1].id \in Epochs /\ CommitAt(1) /\ ~Saves(todo, todo[1].id)
    OBVIOUS
  <2>1. todo[1].id \in Epochs /\ CommitAt(1)
    BY <1>1, <1>2 DEF Commits
  <2>2. \A k \in 1 .. Len(todo) : todo[k].do = "candidate" => todo[k].id # todo[1].id
    BY <2>1 DEF CommitAt
  <2> QED BY <2>1, <2>2 DEF Saves
<1>7. Spares'
  <2>1. ASSUME NEW i \in 1 .. Len(todo')
        PROVE  /\ todo'[i].do = "candidate" => todo'[i].id # latestFile'
               /\ todo'[i].do = "record" /\ todo'[i].id = latestFile' =>
                    todo'[i].status = "recovery_verified"
               /\ todo'[i].do = "record" /\ todo'[i].id = dur.id => todo'[i].status # "rejected"
    <3>1. PICK j \in 1 .. Len(todo) : j = i + 1 /\ todo'[i] = todo[j]
      BY <1>1 DEF Makes
    <3>2. /\ todo[j].do = "candidate" => todo[j].id # latestFile
          /\ todo[j].do = "record" /\ todo[j].id = latestFile => todo[j].status = "recovery_verified"
          /\ todo[j].do = "record" /\ todo[j].id = dur.id => todo[j].status # "rejected"
      BY <1>1 DEF Spares
    <3>3. CASE what = "latest"
      <4>1. j > 1 /\ latestFile' = todo[1].id
        BY <1>1, <3>1, <3>3 DEF Leaves
      <4>2. /\ todo[j].do = "candidate" => todo[j].id # todo[1].id
            /\ todo[j].do = "record" /\ todo[j].id = todo[1].id =>
                 todo[j].status = "recovery_verified"
        BY <1>6, <3>3, <4>1 DEF CommitAt
      <4> QED BY <3>1, <3>2, <4>1, <4>2
    <3>4. CASE what # "latest"
      BY <3>1, <3>2, <3>4 DEF Leaves
    <3> QED BY <3>3, <3>4
  <2> QED BY <1>1, <2>1 DEF Spares
<1>8. /\ what = "record" /\ todo[1].id = latestFile => todo[1].status = "recovery_verified"
      /\ what = "record" /\ todo[1].id = dur.id => todo[1].status # "rejected"
      /\ what = "candidate" => todo[1].id # latestFile
  BY <1>1 DEF Spares
<1>9. Pends'
  <2> SUFFICES ASSUME dur # NoCandidate
               PROVE  /\ dur.id < epoch /\ dur.id # latestFile'
                      /\ IF Saves(todo', dur.id) THEN dur.checked = 0
                         ELSE /\ artifact'[dur.id].step \in Steps
                              /\ artifact'[dur.id].taint # Clean =>
                                   taint = artifact'[dur.id].taint /\ Unseen(taint)
    BY <1>1 DEF Pends, Unseen
  <2>1. /\ dur.id \in Epochs /\ pos = dur.first + dur.checked
        /\ dur.id < epoch /\ dur.id # latestFile
        /\ IF Saves(todo, dur.id) THEN dur.checked = 0
           ELSE /\ artifact[dur.id].step \in Steps
                /\ artifact[dur.id].taint # Clean =>
                     taint = artifact[dur.id].taint /\ Unseen(taint)
    BY <1>1 DEF JobInv, Follows, Pends
  <2>2. dur.id # latestFile'
    BY <1>6, <2>1 DEF Leaves, CommitAt
  <2>3. CASE Saves(todo', dur.id)
    BY <1>1, <2>1, <2>2, <2>3 DEF Makes
  <2>4. CASE ~Saves(todo', dur.id) /\ what = "candidate" /\ todo[1].id = dur.id
    <3>1. dur.checked = 0
      BY <1>1, <2>1, <2>4 DEF Saves
    <3>2. step \in Steps
      BY <1>1, <2>4 DEF JobInv, Orderly
    <3>3. artifact'[dur.id] = [step |-> step, taint |-> taint]
      BY <2>1, <2>4 DEF Leaves
    <3>4. Unseen(taint)
      <4>1. pos \in Int /\ taint \in Int /\ dur.first \in Int
        BY <1>1, TrustAssumption DEF JobTypes, Shapes, Taints, Size, Clean
      <4> QED BY <2>1, <3>1, <4>1 DEF Unseen
    <3> QED BY <2>1, <2>2, <2>4, <3>2, <3>3, <3>4
  <2>5. CASE ~Saves(todo', dur.id) /\ ~(what = "candidate" /\ todo[1].id = dur.id)
    <3>1. artifact'[dur.id] = artifact[dur.id]
      BY <1>8, <2>1, <2>5 DEF Leaves
    <3>2. ~Saves(todo, dur.id)
      BY <1>1, <2>5 DEF Makes
    <3> QED BY <2>1, <2>2, <2>5, <3>1, <3>2
  <2> QED BY <2>3, <2>4, <2>5
<1>10. Validated'
  <2>1. CASE what = "latest"
    <3>1. PICK id \in Epochs : id = todo[1].id
      BY <1>6, <2>1
    <3>2. /\ records[id] = "recovery_verified"
          /\ artifact[id].step \in Steps /\ artifact[id].taint = Clean
      BY <1>6, <2>1, <3>1 DEF CommitAt
    <3>3. latestFile' = id /\ records'[id] = records[id] /\ artifact'[id] = artifact[id]
      BY <2>1, <3>1 DEF Leaves
    <3> QED BY <3>2, <3>3 DEF Validated
  <2>2. CASE what # "latest"
    <3>1. latestFile' = latestFile
      BY <2>2 DEF Leaves
    <3>2. CASE latestFile = 0
      BY <3>1, <3>2 DEF Validated
    <3>3. CASE latestFile # 0
      <4>1. latestFile \in Epochs
        BY <1>3, <3>3
      <4>2. records'[latestFile] = "recovery_verified"
        BY <1>1, <1>8, <3>3, <4>1 DEF Leaves, Validated
      <4>3. artifact'[latestFile] = artifact[latestFile]
        BY <1>8, <4>1 DEF Leaves
      <4> QED BY <1>1, <3>1, <3>3, <4>2, <4>3 DEF Validated
    <3> QED BY <3>2, <3>3
  <2> QED BY <2>1, <2>2
<1>11. ~Away' => latestFile' < epoch' /\ epoch' >= 1
  <2>1. ~Away' => ~Away
    BY <1>1 DEF Away, Makes
  <2>2. what = "latest" => todo[1].id < epoch
    BY <1>6 DEF CommitAt
  <2> QED BY <1>1, <2>1, <2>2 DEF ManifestInv, Leaves
<1> QED BY <1>5, <1>7, <1>9, <1>10, <1>11 DEF ManifestInv

(* The changes of a replay's outcome, as far as they concern candidates.   *)
LEMMA ReplayedChanges ==
  ASSUME JobOK, ManifestInv, NEW t \in Taints, NEW n \in {0, 3},
         NEW replicated \in BOOLEAN, NEW saved \in BOOLEAN,
         CycleEnds(n, t, replicated, saved), NEW i \in 1 .. Len(todo')
  PROVE  \/ /\ i <= n /\ dur # NoCandidate
            /\ todo'[i].do \in {"record", "latest", "unlink"}
            /\ todo'[i].do = "record" => todo'[i].id = dur.id /\ todo'[i].status = "recovery_verified"
            /\ todo'[i].do = "latest" => i = 2 /\ todo'[i].id = dur.id
         \/ i > n /\ BoundaryChange(todo', n, saved, i)
<1>1. CASE i > n
  <2>1. i \in n + 1 .. Len(todo')
    BY <1>1
  <2>2. catalog.durable => epoch \in Epochs
    BY DEF CycleEnds
  <2>3. BoundaryIn(todo', n, replicated, saved)
    BY DEF CycleEnds
  <2> QED BY <1>1, <2>1, <2>2, <2>3, BoundaryChanges
<1>2. CASE ~(i > n)
  <2>1. n = 3 /\ i \in 1 .. 3
    BY <1>2
  <2>2. /\ dur # NoCandidate
        /\ todo'[1] = Record(dur.id, "recovery_verified")
        /\ todo'[2] = Latest(dur.id) /\ todo'[3] = Unlink
    BY <2>1 DEF CycleEnds, Committed
  <2>3. ChangesOf(dur.id)
    BY MadeOf
  <2> QED BY <2>1, <2>2, <2>3 DEF ChangesOf
<1> QED BY <1>1, <1>2

(* The end of a cycle. A candidate that carries corruption is never        *)
(* committed: its evidence began at or before the shape that reveals it,   *)
(* and would have met it by now.                                           *)
LEMMA ManifestCycles ==
  ASSUME JobOK, ManifestInv, NEW s \in Steps, NEW t \in Taints, Replays(s, t),
         NEW n \in {0, 3}, NEW replicated \in BOOLEAN, NEW saved \in BOOLEAN,
         CycleEnds(n, t, replicated, saved)
  PROVE  ManifestInv'
<1>1. /\ JobTypes /\ JobInv /\ up /\ todo = <<>> /\ ~Away
      /\ catalog' = catalog /\ taint' = t /\ (taint # Clean => t = taint)
      /\ UNCHANGED <<records, artifact, latestFile>>
  BY DEF JobOK, Replays, Away, Has
<1>2. /\ 0 \notin Epochs /\ Epochs \subseteq Nat /\ latestFile \in Epochs \cup {0}
      /\ epoch \in Nat /\ dur.id \in Epochs \cup {0} /\ epoch >= 1 /\ latestFile < epoch
      /\ dur # NoCandidate => dur.id \in Epochs
  BY <1>1, TrustAssumption DEF Epochs, JobTypes, ManifestInv, JobInv, Follows
<1>3. dur # NoCandidate =>
        /\ dur.id < epoch /\ dur.id # latestFile
        /\ artifact[dur.id].step \in Steps
        /\ artifact[dur.id].taint # Clean =>
             taint = artifact[dur.id].taint /\ Unseen(taint)
  BY <1>1 DEF ManifestInv, Pends, Saves
<1>4. /\ epoch' \in Nat /\ epoch <= epoch' /\ dur'.id \in {0, epoch}
      /\ dur' # NoCandidate <=> replicated /\ saved /\ catalog.durable /\ ~catalog.dense
      /\ replicated /\ saved /\ catalog.durable => epoch' = epoch + 1
      /\ dur' # NoCandidate => dur'.id = epoch /\ dur'.checked = 0
      /\ dur' = NoCandidate => dur'.id = 0
  BY <1>2 DEF CycleEnds, NoCandidate
<1>5. \A i \in 1 .. Len(todo') :
        \/ /\ i <= n /\ dur # NoCandidate
           /\ todo'[i].do \in {"record", "latest", "unlink"}
           /\ todo'[i].do = "record" => todo'[i].id = dur.id /\ todo'[i].status = "recovery_verified"
           /\ todo'[i].do = "latest" => i = 2 /\ todo'[i].id = dur.id
        \/ i > n /\ BoundaryChange(todo', n, saved, i)
  BY ReplayedChanges
<1>6. catalog.durable => epoch \in Epochs
  BY DEF CycleEnds
<1>7. ASSUME NEW i \in 1 .. Len(todo')
      PROVE  /\ todo'[i].do = "candidate" => todo'[i].id = epoch
             /\ todo'[i].do = "record" =>
                  \/ dur # NoCandidate /\ todo'[i].id = dur.id /\ todo'[i].status = "recovery_verified"
                  \/ /\ catalog.durable /\ todo'[i].id = epoch
                     /\ todo'[i].status = "rejected" => ~saved
  BY <1>5 DEF BoundaryChange
<1>8. Spares'
  <2>1. ASSUME NEW i \in 1 .. Len(todo')
        PROVE  /\ todo'[i].do = "candidate" => todo'[i].id # latestFile
               /\ todo'[i].do = "record" /\ todo'[i].id = latestFile =>
                    todo'[i].status = "recovery_verified"
               /\ todo'[i].do = "record" /\ todo'[i].id = dur'.id => todo'[i].status # "rejected"
    BY <1>2, <1>3, <1>4, <1>6, <1>7
  <2> QED BY <1>1, <2>1 DEF Spares
<1>9. Pends'
  <2> SUFFICES ASSUME dur' # NoCandidate
               PROVE  /\ dur'.id < epoch' /\ dur'.id # latestFile
                      /\ Saves(todo', dur'.id) /\ dur'.checked = 0
    BY <1>1 DEF Pends
  <2>1. Len(todo') = n + 7 /\ todo'[n + 5] = SaveCandidate(epoch)
    BY <1>4 DEF CycleEnds, BoundaryIn, Candidate
  <2>2. ChangesOf(epoch)
    BY MadeOf
  <2>3. PICK k \in 1 .. Len(todo') : k = n + 5
    BY <2>1
  <2>4. Saves(todo', epoch)
    BY <2>1, <2>2, <2>3 DEF Saves, ChangesOf
  <2> QED BY <1>2, <1>4, <2>4
<1>10. ASSUME NEW i \in 1 .. Len(todo'), todo'[i].do = "latest", i <= n
       PROVE  CommitAt(i)'
  <2>1. /\ i = 2 /\ n = 3 /\ dur # NoCandidate /\ todo'[2].id = dur.id
        /\ dur.id \in Epochs /\ dur.id # epoch /\ dur.id # dur'.id /\ dur.id < epoch'
    <3>1. n = 3 /\ dur # NoCandidate /\ i = 2 /\ todo'[i].id = dur.id
      BY <1>5, <1>10
    <3>2. dur.id \in Nat \ {0} /\ dur.id < epoch /\ dur.id \in Epochs
      BY <1>2, <1>3, <3>1
    <3>3. dur.id # epoch /\ dur.id # dur'.id /\ dur.id < epoch'
      BY <1>2, <1>4, <3>2
    <3> QED BY <3>1, <3>2, <3>3
  <2>2. todo'[1] = Record(dur.id, "recovery_verified") /\ (t = Clean \/ dur.first = 0)
    BY <2>1 DEF CycleEnds, Committed
  <2>3. /\ todo'[1].do = "record" /\ todo'[1].id = dur.id
        /\ todo'[1].status = "recovery_verified"
    BY <2>2, MadeOf DEF ChangesOf
  <2>4. ~Saves(todo', dur.id)
    BY <1>7, <2>1 DEF Saves
  <2>5. artifact[dur.id].step \in Steps /\ artifact[dur.id].taint = Clean
    <3> SUFFICES ASSUME artifact[dur.id].taint # Clean PROVE FALSE
      BY <1>3, <2>1
    <3>1. taint # Clean /\ t = taint /\ Unseen(taint)
      BY <1>1, <1>3, <2>1
    <3>2. dur.first = 0 /\ pos = Size - 1 /\ t # pos
      BY <2>2, <3>1 DEF CycleEnds
    <3>3. Size \in Nat /\ t \in 0 .. Size - 1
      BY <1>1, <3>1, TrustAssumption DEF Taints, Shapes, Size, JobTypes
    <3> QED BY <3>1, <3>2, <3>3 DEF Unseen
  <2>6. \A k \in 1 .. Len(todo') :
          /\ todo'[k].do = "record" /\ todo'[k].id = dur.id =>
               todo'[k].status = "recovery_verified"
          /\ todo'[k].do = "candidate" => todo'[k].id # dur.id
    BY <1>7, <2>1
  <2> QED BY <1>1, <2>1, <2>3, <2>4, <2>5, <2>6 DEF CommitAt
<1>11. ASSUME NEW i \in 1 .. Len(todo'), todo'[i].do = "latest", i > n
       PROVE  CommitAt(i)'
  <2>1. BoundaryChange(todo', n, saved, i)
    BY <1>5, <1>11
  <2>2. /\ i = n + 9 /\ todo'[i].id = epoch /\ catalog.dense
        /\ todo'[i - 1].do = "record" /\ todo'[i - 1].id = epoch
        /\ todo'[i - 1].status = "recovery_verified"
        /\ n + 5 \in 1 .. Len(todo') /\ todo'[n + 5].do = "candidate" /\ todo'[n + 5].id = epoch
    BY <1>11, <2>1 DEF BoundaryChange
  <2>3. dur = NoCandidate /\ n = 0 /\ i = 9
    BY <1>1, <2>2 DEF JobInv, CycleEnds, Committed
  <2>4. replicated /\ saved /\ catalog.durable
    BY <1>11, <2>2 DEF CycleEnds, BoundaryIn, WithoutReplica, InMemoryOnly, SaveFailed
  <2>5. epoch \in Epochs /\ epoch < epoch' /\ dur'.id = 0 /\ epoch # dur'.id
    BY <1>2, <1>4, <1>6, <2>2, <2>4
  <2>6. t = Clean
    <3>1. catalog \in Catalogs /\ pos \in Shapes
      BY <1>1 DEF JobTypes
    <3>2. Size = 1
      BY <2>2, <3>1, TrustAssumption DEF Size
    <3>3. pos = 0
      BY <3>1, <3>2 DEF Shapes
    <3> QED BY <3>2, <3>3 DEF CycleEnds, Taints, Shapes
  <2>7. \A k \in 1 .. Len(todo') :
          /\ todo'[k].do = "record" => todo'[k].status # "rejected" /\ k < 9
          /\ todo'[k].do = "candidate" => k = 5
    <3> TAKE k \in 1 .. Len(todo')
    <3>1. BoundaryChange(todo', n, saved, k)
      BY <1>5, <2>3
    <3> QED BY <2>3, <2>4, <3>1 DEF BoundaryChange
  <2>8. Saves(todo', epoch)
    BY <2>2 DEF Saves
  <2>9. /\ todo'[i].id < epoch' /\ todo'[i].id # dur'.id
        /\ i = 1 => records'[todo'[1].id] = "recovery_verified"
        /\ i > 1 =>
             /\ todo'[i - 1].do = "record" /\ todo'[i - 1].id = todo'[i].id
             /\ todo'[i - 1].status = "recovery_verified"
    BY <2>2, <2>3, <2>5
  <2>10. \A k \in 1 .. Len(todo') :
           /\ todo'[k].do = "record" /\ todo'[k].id = todo'[i].id =>
                /\ todo'[k].status # "rejected"
                /\ k > i => todo'[k].status = "recovery_verified"
           /\ todo'[k].do = "candidate" /\ todo'[k].id = todo'[i].id => k < i
    BY <2>3, <2>7
  <2> QED BY <1>1, <2>2, <2>6, <2>8, <2>9, <2>10 DEF CommitAt
<1>12. Commits'
  BY <1>10, <1>11 DEF Commits
<1>13. Validated'
  BY <1>1 DEF ManifestInv, Validated
<1>14. latestFile' < epoch' /\ epoch' >= 1
  BY <1>1, <1>2, <1>4
<1> QED BY <1>8, <1>9, <1>12, <1>13, <1>14 DEF ManifestInv

(* A replay: the candidate comes one shape closer to its commit only if    *)
(* that shape has revealed nothing.                                        *)
LEMMA ManifestReplays ==
  ASSUME JobOK, ManifestInv, NEW s \in Steps, NEW t \in Taints, Replays(s, t)
  PROVE  ManifestInv'
<1>1. /\ JobTypes /\ JobInv /\ up /\ todo = <<>> /\ ~Away
      /\ catalog' = catalog /\ taint' = t /\ (taint # Clean => t = taint)
      /\ UNCHANGED <<records, artifact, latestFile>>
  BY DEF JobOK, Replays, Away, Has
<1>2. /\ 0 \notin Epochs /\ Epochs \subseteq Nat /\ latestFile \in Epochs \cup {0}
      /\ epoch \in Nat /\ epoch >= 1 /\ latestFile < epoch
      /\ dur # NoCandidate => dur.id \in Epochs
  BY <1>1, TrustAssumption DEF Epochs, JobTypes, ManifestInv, JobInv, Follows
<1>3. dur # NoCandidate =>
        /\ dur.id < epoch /\ dur.id # latestFile
        /\ artifact[dur.id].step \in Steps
        /\ artifact[dur.id].taint # Clean =>
             taint = artifact[dur.id].taint /\ Unseen(taint)
  BY <1>1 DEF ManifestInv, Pends, Saves
<1>4. Validated'
  BY <1>1 DEF ManifestInv, Validated
<1>5. ChangesOf(dur.id)
  BY MadeOf
<1>6. CASE Dropped
  <2>1. dur' = NoCandidate /\ dur'.id = 0 /\ epoch' = epoch
    BY <1>6 DEF Dropped, NoCandidate
  <2>2. \A i \in 1 .. Len(todo') :
          /\ todo'[i].do \in {"record", "pending", "unlink", "reject"}
          /\ todo'[i].do = "record" => dur # NoCandidate /\ todo'[i].id = dur.id
    BY <1>6, DroppedChanges
  <2>3. Commits' /\ Spares'
    BY <1>1, <1>2, <1>3, <2>1, <2>2 DEF Commits, Spares
  <2>4. Pends'
    BY <2>1 DEF Pends
  <2> QED BY <1>1, <1>2, <1>4, <2>1, <2>3, <2>4 DEF ManifestInv
<1>7. CASE NextShape(t)
  <2>1. /\ pos' = pos + 1 /\ t # pos /\ epoch' = epoch
        /\ dur' # NoCandidate => dur # NoCandidate
        /\ dur'.id = dur.id /\ dur'.first = dur.first
    BY <1>1, <1>7 DEF NextShape, NoCandidate, JobInv, Follows
  <2>2. \A i \in 1 .. Len(todo') :
          /\ todo'[i].do \in {"record", "pending"}
          /\ todo'[i].do = "record" =>
               dur # NoCandidate /\ todo'[i].id = dur.id /\ todo'[i].status = "candidate"
    BY <1>5, <1>7 DEF NextShape, ChangesOf
  <2>3. Commits' /\ Spares'
    BY <1>1, <1>2, <1>3, <2>1, <2>2 DEF Commits, Spares
  <2>4. Pends'
    <3> SUFFICES ASSUME dur # NoCandidate
                 PROVE  artifact[dur.id].taint # Clean =>
                          t = artifact[dur.id].taint /\ Unseen(t)'
      <4>1. \A id : ~Saves(todo', id)
        BY <2>2 DEF Saves
      <4> QED BY <1>1, <1>3, <2>1, <4>1 DEF Pends
    <3>1. taint # Clean /\ Unseen(taint) => t = taint /\ Unseen(t)
      BY <1>1
    <3>2. pos \in Int /\ t \in Int
      BY <1>1, TrustAssumption DEF JobTypes, Shapes, Taints, Size, Clean
    <3> QED BY <1>3, <2>1, <3>1, <3>2 DEF Unseen
  <2> QED BY <1>1, <1>2, <1>4, <2>1, <2>3, <2>4 DEF ManifestInv
<1>8. CASE \E n \in {0, 3} : \E replicated, saved \in BOOLEAN : CycleEnds(n, t, replicated, saved)
  BY <1>8, ManifestCycles
<1> QED BY <1>6, <1>7, <1>8 DEF Replays, Outcome

(* The handlers without a replay, and recovery.                            *)
LEMMA ManifestIdles ==
  ASSUME JobOK, ManifestInv, PostStepWithoutResult \/ Drops \/ KeepsLatest
  PROVE  ManifestInv'
<1>1. /\ JobTypes /\ JobInv /\ up /\ todo = <<>> /\ ~Away
      /\ UNCHANGED <<catalog, pos, epoch, records, artifact, latestFile>>
  BY DEF JobOK, PostStepWithoutResult, Drops, Dropped, KeepsLatest, Idle, gemini, durable, Away,
         Has
<1>2. /\ 0 \notin Epochs
      /\ dur # NoCandidate => dur.id \in Epochs
      /\ epoch >= 1 /\ latestFile < epoch
      /\ dur # NoCandidate => dur.id # latestFile
  BY <1>1, TrustAssumption DEF Epochs, ManifestInv, JobInv, Follows, Pends
<1>3. Validated'
  BY <1>1 DEF ManifestInv, Validated
<1>4. CASE PostStepWithoutResult
  <2>1. todo' = <<>> /\ dur' = NoCandidate
    BY <1>1, <1>4 DEF PostStepWithoutResult, JobInv
  <2>2. Commits' /\ Spares' /\ Pends'
    BY <2>1 DEF Commits, Spares, Pends
  <2> QED BY <1>1, <1>2, <1>3, <2>2 DEF ManifestInv
<1>5. CASE Drops
  <2>1. dur' = NoCandidate /\ dur'.id = 0
    BY <1>5 DEF Drops, Dropped, NoCandidate
  <2>2. \A i \in 1 .. Len(todo') :
          /\ todo'[i].do \in {"record", "pending", "unlink", "reject"}
          /\ todo'[i].do = "record" => dur # NoCandidate /\ todo'[i].id = dur.id
    BY <1>5, DroppedChanges DEF Drops
  <2>3. Commits' /\ Spares'
    BY <1>1, <1>2, <2>1, <2>2 DEF Commits, Spares
  <2>4. Pends'
    BY <2>1 DEF Pends
  <2> QED BY <1>1, <1>2, <1>3, <2>3, <2>4 DEF ManifestInv
<1>6. CASE KeepsLatest
  <2>1. dur' = dur /\ taint' = taint
    BY <1>6 DEF KeepsLatest
  <2>2. \A i \in 1 .. Len(todo') : todo'[i].do = "mode"
    BY <1>6, Made DEF KeepsLatest, Modes
  <2>3. Commits' /\ Spares' /\ ~Saves(todo', dur.id) /\ ~Saves(todo, dur.id)
    BY <1>1, <2>2 DEF Commits, Spares, Saves
  <2>4. Pends'
    BY <1>1, <2>1, <2>3 DEF ManifestInv, Pends, Unseen
  <2> QED BY <1>1, <1>2, <1>3, <2>3, <2>4 DEF ManifestInv
<1> QED BY <1>4, <1>5, <1>6

(* The load: next_validation_epoch is past every candidate that has a      *)
(* record, the committed one included.                                     *)
LEMMA ManifestLoads ==
  ASSUME JobOK, ManifestInv, LoadsState
  PROVE  ManifestInv'
<1>1. /\ JobTypes /\ JobInv /\ Makes("load") /\ Has(todo, "load")
      /\ UNCHANGED <<dur, records, artifact, latestFile>>
      /\ Spares /\ Validated
  BY DEF JobOK, LoadsState, Makes, Has, ManifestInv
<1>2. dur = NoCandidate
  BY <1>1 DEF JobInv, Away
<1>3. ASSUME NEW i \in 1 .. Len(todo')
      PROVE  /\ todo'[i].do \in {"record", "unlink", "load", "clear"}
             /\ todo'[i].do = "record" /\ todo'[i].id = latestFile =>
                  todo'[i].status = "recovery_verified"
             /\ todo'[i].do = "record" /\ todo'[i].id = dur.id => todo'[i].status # "rejected"
  <2>1. PICK j \in 1 .. Len(todo) : j = i + 1 /\ todo'[i] = todo[j]
    BY <1>1 DEF Makes
  <2> QED BY <1>1, <2>1 DEF JobInv, Orderly, Spares
<1>4. Commits' /\ Spares'
  BY <1>1, <1>3 DEF Commits, Spares
<1>5. Pends'
  BY <1>1, <1>2 DEF Pends
<1>6. Validated'
  BY <1>1 DEF Validated
<1>7. latestFile' < epoch' /\ epoch' >= 1
  <2>1. /\ epoch' \in Nat \ {0} /\ latestFile \in Epochs \cup {0}
        /\ \A i \in Epochs : records[i] # "none" => i < epoch'
    BY <1>1 DEF LoadsState, JobTypes
  <2> QED BY <1>1, <2>1 DEF Validated
<1> QED BY <1>4, <1>5, <1>6, <1>7 DEF ManifestInv

(* A crash between any two file changes leaves LATEST's candidate          *)
(* verified.                                                               *)
LEMMA ManifestStops ==
  ASSUME JobOK, ManifestInv, Crash \/ Terminate
  PROVE  ManifestInv'
<1>1. /\ up' = FALSE /\ dur' = NoCandidate /\ todo' = <<>>
      /\ UNCHANGED <<records, artifact, latestFile>>
  BY DEF Crash, Terminate, Stop, durable
<1>2. Commits' /\ Spares' /\ Pends' /\ Away'
  BY <1>1 DEF Commits, Spares, Pends, Away
<1> QED BY <1>1, <1>2 DEF ManifestInv, Validated

(* A restart rejects the pending candidate, which is not the one LATEST    *)
(* names: DurableCheckpointCoordinator.__init__ compares them.             *)
LEMMA ManifestStarts ==
  ASSUME JobOK, ManifestInv, NEW mode \in Modes \cup {"status"}, Starts(mode)
  PROVE  ManifestInv'
<1>1. /\ JobTypes /\ JobInv /\ ~up
      /\ UNCHANGED <<dur, records, artifact, pendingFile, latestFile>>
  BY DEF JobOK, Starts
<1>2. dur = NoCandidate /\ dur.id = 0
  BY <1>1 DEF JobInv, Away, NoCandidate
<1>3. \A i \in 1 .. Len(todo') :
        /\ todo'[i].do \in {"record", "unlink", "load", "clear"}
        /\ todo'[i].do = "record" => todo'[i].id # latestFile /\ todo'[i].id # 0
  BY <1>1, StartChanges DEF ManifestInv, Validated
<1>4. Commits' /\ Spares' /\ Pends'
  BY <1>1, <1>2, <1>3 DEF Commits, Spares, Pends
<1>5. Away'
  BY <1>1, StartChanges DEF Away
<1> QED BY <1>1, <1>4, <1>5 DEF ManifestInv, Validated

(* A new job has no manifests.                                             *)
LEMMA ManifestInit ==
  ASSUME Init
  PROVE  ManifestInv
<1>1. Commits /\ Spares /\ Pends /\ Validated
  BY DEF Init, Commits, Spares, Pends, Validated
<1> QED BY <1>1 DEF Init, ManifestInv

-----------------------------------------------------------------------------
(* The two tiers.  The last change of the pending manifest still to come   *)
(* decides what it will name.                                              *)
LEMMA PendingMakes ==
  ASSUME JobOK, PendingWillBe, NEW what, Makes(what), dur' = dur,
         pendingFile' = IF what = "pending" THEN todo[1].id
                        ELSE IF what = "unlink" THEN 0 ELSE pendingFile
  PROVE  PendingWillBe'
<1>1. /\ Len(todo) \in Nat \ {0} /\ Len(todo') = Len(todo) - 1 /\ todo[1].do = what
      /\ 1 \in 1 .. Len(todo)
      /\ NoCandidate.id = 0
  BY DEF Makes, NoCandidate
<1>2. ASSUME NEW i \in 1 .. Len(todo'), Settles(i)'
      PROVE  \/ \E k \in i + 1 .. Len(todo') : Settles(k)'
             \/ todo'[i].do = "unlink" /\ dur' = NoCandidate
             \/ todo'[i].do = "pending" /\ todo'[i].id = dur'.id
  <2>1. PICK j \in 1 .. Len(todo) : j = i + 1 /\ todo'[i] = todo[j]
    BY DEF Makes
  <2>2. Settles(j)
    BY <1>2, <2>1 DEF Settles
  <2>3. \/ \E k \in j + 1 .. Len(todo) : Settles(k)
        \/ todo[j].do = "unlink" /\ dur = NoCandidate
        \/ todo[j].do = "pending" /\ todo[j].id = dur.id
    BY <2>2 DEF PendingWillBe
  <2>4. ASSUME NEW k \in j + 1 .. Len(todo), Settles(k)
        PROVE  \E m \in i + 1 .. Len(todo') : Settles(m)'
    <3>1. PICK m \in 1 .. Len(todo') : m = k - 1 /\ m + 1 = k /\ m \in i + 1 .. Len(todo')
      BY <1>1, <2>1
    <3>2. todo'[m] = todo[m + 1]
      BY DEF Makes
    <3> QED BY <2>4, <3>1, <3>2 DEF Settles
  <2> QED BY <2>1, <2>3, <2>4
<1>3. ASSUME \A i \in 1 .. Len(todo') : ~Settles(i)'
      PROVE  pendingFile' = dur'.id
  <2>1. ASSUME NEW j \in 1 .. Len(todo), j # 1
        PROVE  ~Settles(j)
    <3>1. PICK i \in 1 .. Len(todo') : i + 1 = j
      <4>1. j - 1 \in 1 .. Len(todo') /\ (j - 1) + 1 = j
        BY <1>1, <2>1
      <4> QED BY <4>1
    <3>2. todo'[i] = todo[i + 1]
      BY DEF Makes
    <3> QED BY <1>3, <3>1, <3>2 DEF Settles
  <2>2. CASE Settles(1)
    <3>1. ~\E k \in 1 + 1 .. Len(todo) : Settles(k)
      BY <1>1, <2>1
    <3> QED BY <1>1, <2>2, <3>1 DEF PendingWillBe, Settles
  <2>3. CASE ~Settles(1)
    <3>1. \A j \in 1 .. Len(todo) : ~Settles(j)
      BY <2>1, <2>3
    <3> QED BY <1>1, <2>3, <3>1 DEF PendingWillBe, Settles
  <2> QED BY <2>2, <2>3
<1> QED BY <1>2, <1>3 DEF PendingWillBe

(* A change that is not about the roles leaves them to come as they were.  *)
LEMMA RolesRemain ==
  ASSUME RolesWillBe, NEW what, Makes(what), what \notin {"promote", "reject", "clear"},
         dur' = dur, step' = step, catalog' = catalog,
         dur # NoCandidate => (Saves(todo', dur.id) <=> Saves(todo, dur.id)),
         status'.candidate = status.candidate,
         dur # NoCandidate => artifact'[dur.id] = artifact[dur.id]
  PROVE  RolesWillBe'
<1>1. \A w \in {"promote", "reject", "clear"} : Has(todo', w) <=> Has(todo, w)
  BY DEF Makes
<1> QED BY <1>1 DEF RolesWillBe

(* One file change: the promise about the two tiers is kept, and once no   *)
(* change is left, it is what RolesMoveTogether says.                      *)
LEMMA RolesMake ==
  ASSUME JobOK, ManifestInv, RolesInv, WriteManifest \/ WriteShards \/ WriteStatus
  PROVE  RolesInv'
<1>1. PICK what : Leaves(what)
  BY Leaving
<1>2. /\ JobTypes /\ JobInv /\ Makes(what) /\ Spares
      /\ UNCHANGED <<up, step, dur, catalog>>
  BY <1>1 DEF JobOK, Leaves, LiveUnchanged, ManifestInv
<1> SUFFICES ASSUME up, catalog.durable, ~Has(todo', "raise")
             PROVE  PendingWillBe' /\ RolesWillBe'
  BY <1>2 DEF RolesInv
<1>3. /\ dur # NoCandidate => dur.id \in Epochs
      /\ artifact \in [Epochs -> [step : 0 .. MaxStep, taint : Taints]]
  BY <1>2 DEF JobInv, Follows, JobTypes
<1>4. ASSUME NEW w, Makes(w), w # "raise"
      PROVE  PendingWillBe /\ RolesWillBe
  BY <1>4 DEF Makes, RolesInv
<1>5. ASSUME NEW w, Makes(w)
      PROVE  /\ todo[1].do = w /\ Has(todo, w)
             /\ w # "candidate" => \A id : Saves(todo', id) <=> Saves(todo, id)
  <2>1. 1 \in 1 .. Len(todo) /\ todo[1].do = w
    BY <1>5 DEF Makes
  <2>2. Has(todo, w)
    BY <2>1 DEF Has
  <2> QED BY <1>5, <2>1, <2>2 DEF Makes
<1>6. /\ WritesShards => WritesShards /\ Makes("shards")
      /\ WritesRecord => Makes("record") /\ Elsewhere
      /\ WritesPending => Makes("pending") /\ Elsewhere
      /\ WritesLatest => Makes("latest") /\ Elsewhere
      /\ Unlinks => Makes("unlink") /\ Elsewhere
      /\ WritesArtifact => Makes("candidate") /\ Elsewhere
      /\ Elsewhere => status' = status
  BY DEF WritesShards, WritesRecord, WritesPending, WritesLatest, Unlinks, WritesArtifact, Elsewhere
<1>7. CASE WritesRecord
  <2>1. PendingWillBe /\ RolesWillBe /\ Makes("record") /\ status' = status
    BY <1>4, <1>6, <1>7
  <2>2. PendingWillBe'
    BY <1>2, <1>7, <2>1, PendingMakes DEF WritesRecord
  <2>3. todo[1].id = dur.id => todo[1].status # "rejected"
    BY <1>2, <1>5, <2>1 DEF Spares, Makes
  <2>4. dur # NoCandidate => artifact'[dur.id] = artifact[dur.id]
    BY <1>3, <1>7, <2>3 DEF WritesRecord
  <2> QED BY <1>2, <1>5, <2>1, <2>2, <2>4, RolesRemain
<1>8. CASE WritesPending
  <2>1. PendingWillBe /\ RolesWillBe /\ Makes("pending") /\ status' = status
    BY <1>4, <1>6, <1>8
  <2>2. PendingWillBe' /\ artifact' = artifact
    BY <1>2, <1>8, <2>1, PendingMakes DEF WritesPending
  <2> QED BY <1>2, <1>5, <2>1, <2>2, RolesRemain
<1>9. CASE WritesLatest
  <2>1. PendingWillBe /\ RolesWillBe /\ Makes("latest") /\ status' = status
    BY <1>4, <1>6, <1>9
  <2>2. PendingWillBe' /\ artifact' = artifact
    BY <1>2, <1>9, <2>1, PendingMakes DEF WritesLatest
  <2> QED BY <1>2, <1>5, <2>1, <2>2, RolesRemain
<1>10. CASE Unlinks
  <2>1. PendingWillBe /\ RolesWillBe /\ Makes("unlink") /\ status' = status
    BY <1>4, <1>6, <1>10
  <2>2. PendingWillBe' /\ artifact' = artifact
    BY <1>2, <1>10, <2>1, PendingMakes DEF Unlinks
  <2> QED BY <1>2, <1>5, <2>1, <2>2, RolesRemain
<1>11. CASE WritesShards
  <2>1. PendingWillBe /\ RolesWillBe /\ Makes("shards") /\ status' = status /\ artifact' = artifact
        /\ pendingFile' = pendingFile
    BY <1>4, <1>6, <1>11 DEF WritesShards
  <2>2. PendingWillBe'
    BY <1>2, <2>1, PendingMakes
  <2> QED BY <1>2, <1>5, <2>1, <2>2, RolesRemain
<1>12. CASE WritesArtifact
  <2>1. /\ PendingWillBe /\ RolesWillBe /\ Makes("candidate") /\ status' = status
        /\ pendingFile' = pendingFile /\ todo[1].id \in Epochs /\ todo[1].do = "candidate"
        /\ artifact' = [artifact EXCEPT ![todo[1].id] = [step |-> step, taint |-> taint]]
    BY <1>4, <1>5, <1>6, <1>12 DEF WritesArtifact
  <2>2. PendingWillBe'
    BY <1>2, <2>1, PendingMakes
  <2>3. CASE dur # NoCandidate /\ todo[1].id = dur.id
    <3>1. ~Has(todo, "promote")
      <4>1. ASSUME NEW i \in 1 .. Len(todo), todo[i].do = "promote" PROVE FALSE
        <5>1. OncePromoted(todo, i) /\ 1 \in 1 .. Len(todo)
          BY <1>2, <4>1 DEF JobInv, Orderly, Makes
        <5>2. 1 > i
          BY <2>1, <5>1 DEF OncePromoted
        <5> QED BY <5>2
      <4> QED BY <4>1 DEF Has
    <3>2. Saves(todo, dur.id)
      BY <2>1, <2>3 DEF Saves, Makes
    <3>3. status.candidate = step /\ status.candidate # NoStep /\ ~Has(todo, "reject") /\ ~Has(todo, "clear")
      BY <2>1, <2>3, <3>1, <3>2 DEF RolesWillBe
    <3>4. artifact'[dur.id].step = step
      BY <1>3, <2>1, <2>3
    <3>5. ~Has(todo', "promote") /\ ~Has(todo', "reject") /\ ~Has(todo', "clear")
      BY <2>1, <3>1, <3>3 DEF Makes
    <3> QED BY <1>2, <2>1, <2>2, <2>3, <3>3, <3>4, <3>5 DEF RolesWillBe
  <2>4. CASE ~(dur # NoCandidate /\ todo[1].id = dur.id)
    <3>1. dur # NoCandidate => artifact'[dur.id] = artifact[dur.id]
      BY <1>3, <2>1, <2>4
    <3>2. dur # NoCandidate => (Saves(todo', dur.id) <=> Saves(todo, dur.id))
      BY <2>1, <2>4 DEF Makes
    <3> QED BY <1>2, <2>1, <2>2, <3>1, <3>2, RolesRemain
  <2> QED BY <2>3, <2>4
<1>13. CASE WritesStatus
  <2>1. /\ artifact' = artifact /\ pendingFile' = pendingFile /\ status \in StatusType
        /\ Advances \/ Forgets \/ Remains
    BY <1>2, <1>13 DEF WritesStatus, JobTypes, StatusType
  <2>2. CASE Remains
    <3>1. PendingWillBe /\ RolesWillBe /\ Makes("mode") /\ status'.candidate = status.candidate
      BY <1>4, <2>2 DEF Remains
    <3>2. PendingWillBe'
      BY <1>2, <2>1, <3>1, PendingMakes
    <3> QED BY <1>2, <1>5, <2>1, <3>1, <3>2, RolesRemain
  <2>3. CASE Forgets
    <3>1. PICK w \in {"reject", "clear"} : Makes(w)
      BY <2>3 DEF Forgets
    <3>2. PendingWillBe /\ RolesWillBe /\ Has(todo, w)
      BY <1>4, <1>5, <3>1
    <3>3. dur = NoCandidate /\ ~Has(todo, "promote")
      BY <3>2 DEF RolesWillBe
    <3>4. PendingWillBe'
      BY <1>2, <2>1, <3>1, <3>2, PendingMakes
    <3>5. ~Has(todo', "promote") /\ status'.candidate = NoStep
      BY <2>3, <3>1, <3>3 DEF Makes, Forgets
    <3> QED BY <1>2, <3>3, <3>4, <3>5 DEF RolesWillBe
  <2>4. CASE Advances
    <3>1. /\ Makes("promote") /\ step \in Steps
          /\ status'.candidate = IF catalog.dense THEN NoStep ELSE step
      BY <2>4 DEF Advances
    <3>2. PendingWillBe /\ RolesWillBe /\ Has(todo, "promote")
      BY <1>4, <1>5, <3>1
    <3>3. /\ dur # NoCandidate <=> ~catalog.dense
          /\ dur # NoCandidate => Saves(todo, dur.id)
          /\ ~Has(todo, "reject") /\ ~Has(todo, "clear")
      BY <3>2 DEF RolesWillBe
    <3>4. PendingWillBe'
      BY <1>2, <2>1, <3>1, <3>2, PendingMakes
    <3>5. ~Has(todo', "promote")
      <4>1. OncePromoted(todo, 1)
        BY <1>2, <3>1 DEF JobInv, Orderly, Makes
      <4>2. ASSUME NEW i \in 1 .. Len(todo'), todo'[i].do = "promote" PROVE FALSE
        <5>1. i + 1 \in 1 .. Len(todo) /\ todo[i + 1].do = "promote" /\ i \in 1 .. Len(todo')
          BY <3>1, <4>2 DEF Makes
        <5>2. i + 1 = 1
          BY <4>1, <5>1 DEF OncePromoted
        <5> QED BY <5>1, <5>2
      <4> QED BY <4>2 DEF Has
    <3>6. /\ ~Has(todo', "reject") /\ ~Has(todo', "clear")
          /\ dur # NoCandidate => Saves(todo', dur.id)
      BY <3>1, <3>3 DEF Makes
    <3>7. step # NoStep
      BY <3>1, TrustAssumption DEF Steps, NoStep
    <3> QED BY <1>2, <3>1, <3>3, <3>4, <3>5, <3>6, <3>7 DEF RolesWillBe
  <2> QED BY <2>1, <2>2, <2>3, <2>4
<1> QED BY <1>2, <1>7, <1>8, <1>9, <1>10, <1>11, <1>12, <1>13, ManifestChanges, ShardChanges,
           StatusChanges

(* Both tiers drop their candidate together (_reject_candidate,            *)
(* prepare_recovery).                                                      *)
LEMMA RolesDropped ==
  ASSUME todo = <<>>, Dropped, up, up' = up, catalog' = catalog, RolesInv,
         UNCHANGED pendingFile
  PROVE  RolesInv'
<1> SUFFICES ASSUME catalog.durable PROVE PendingWillBe' /\ RolesWillBe'
  BY DEF RolesInv
<1>1. dur' = NoCandidate /\ dur'.id = 0
  BY DEF Dropped, NoCandidate
<1>2. ~Has(todo, "raise")
  BY DEF Has
<1>3. pendingFile = dur.id
  BY <1>2 DEF RolesInv, PendingWillBe
<1>4. \A i \in 1 .. Len(todo') : todo'[i].do \in {"record", "pending", "unlink", "reject"}
  BY DroppedChanges
<1>5. ChangesOf(dur.id)
  BY MadeOf
<1>6. Has(todo', "reject") /\ ~Has(todo', "promote")
  <2>1. Has(todo', "reject")
    BY <1>5 DEF Dropped, ChangesOf, Has
  <2> QED BY <1>4, <2>1 DEF Has
<1>7. RolesWillBe'
  BY <1>1, <1>6 DEF RolesWillBe
<1>8. CASE dur = NoCandidate /\ Len(todo') = 1 /\ todo'[1] = RejectStatus
  <2>1. \A i \in 1 .. Len(todo') : ~Settles(i)'
    BY <1>5, <1>8 DEF ChangesOf, Settles
  <2>2. pendingFile' = dur'.id
    BY <1>1, <1>3, <1>8
  <2> QED BY <1>7, <2>1, <2>2 DEF PendingWillBe
<1>9. CASE /\ dur # NoCandidate /\ Len(todo') = 3
           /\ todo'[1] = Record(dur.id, "rejected") /\ todo'[2] = Unlink
           /\ todo'[3] = RejectStatus
  <2>1. /\ todo'[1].do = "record" /\ todo'[2].do = "unlink" /\ todo'[3].do = "reject"
    BY <1>5, <1>9 DEF ChangesOf
  <2>2. \A i \in 1 .. Len(todo') : Settles(i)' <=> i = 2
    BY <1>9, <2>1 DEF Settles
  <2>3. 2 \in 1 .. Len(todo')
    BY <1>9
  <2> QED BY <1>1, <1>7, <2>1, <2>2, <2>3 DEF PendingWillBe
<1>10. CASE /\ dur # NoCandidate /\ Len(todo') = 5
            /\ todo'[1] = Record(dur.id, "candidate") /\ todo'[2] = Pending(dur.id)
            /\ todo'[3] = Record(dur.id, "rejected") /\ todo'[4] = Unlink
            /\ todo'[5] = RejectStatus
  <2>1. /\ todo'[1].do = "record" /\ todo'[2].do = "pending" /\ todo'[3].do = "record"
        /\ todo'[4].do = "unlink" /\ todo'[5].do = "reject"
    BY <1>5, <1>10 DEF ChangesOf
  <2>2. \A i \in 1 .. Len(todo') : Settles(i)' <=> i \in {2, 4}
    BY <1>10, <2>1 DEF Settles
  <2>3. 4 \in 1 .. Len(todo') /\ 4 \in 2 + 1 .. Len(todo')
    BY <1>10
  <2> QED BY <1>1, <1>7, <2>1, <2>2, <2>3 DEF PendingWillBe
<1> QED BY <1>8, <1>9, <1>10 DEF Dropped

(* At a boundary both tiers get a candidate, or, in a dense catalog,       *)
(* neither keeps one.                                                      *)
LEMMA RolesCycle ==
  ASSUME JobOK, NEW t \in Taints, NEW n \in {0, 3},
         NEW replicated \in BOOLEAN, NEW saved \in BOOLEAN,
         CycleEnds(n, t, replicated, saved), catalog' = catalog
  PROVE  RolesInv'
<1>1. JobTypes /\ JobInv /\ ChangesOf(epoch) /\ ChangesOf(dur.id)
  BY MadeOf DEF JobOK
<1> SUFFICES ASSUME catalog.durable, ~Has(todo', "raise")
             PROVE  PendingWillBe' /\ RolesWillBe'
  BY DEF RolesInv
<1>2. /\ 0 \notin Epochs /\ epoch \in Epochs
      /\ BoundaryIn(todo', n, replicated, saved) /\ Committed(n, t)
      /\ IF replicated /\ saved /\ ~catalog.dense
         THEN dur' = [id |-> epoch, first |-> pos', checked |-> 0]
         ELSE dur' = NoCandidate
  BY TrustAssumption DEF CycleEnds, Epochs
<1>3. replicated /\ saved
  <2>1. ~(~replicated /\ WithoutReplica(todo', n))
    BY <1>1 DEF WithoutReplica, ChangesOf, Has
  <2>2. ~(~saved /\ SaveFailed(todo', n))
    BY <1>1 DEF SaveFailed, ChangesOf, Has
  <2> QED BY <1>2, <2>1, <2>2 DEF BoundaryIn
<1>4. n = 3 => /\ todo'[1].do = "record" /\ todo'[2].do = "latest" /\ todo'[3].do = "unlink"
  BY <1>1, <1>2 DEF Committed, ChangesOf
<1>5. /\ Candidate(todo', n) /\ Len(todo') >= n + 7
      /\ todo'[n + 1].do = "shards" /\ todo'[n + 2].do = "promote"
      /\ todo'[n + 3].do = "record" /\ todo'[n + 4].do = "pending"
      /\ todo'[n + 5].do = "candidate" /\ todo'[n + 5].id = epoch
      /\ todo'[n + 6].do = "record" /\ todo'[n + 7].do = "pending" /\ todo'[n + 7].id = epoch
  <2>1. Candidate(todo', n) /\ (Len(todo') = n + 7 \/ Len(todo') = n + 10)
    BY <1>2, <1>3 DEF BoundaryIn, Certified
  <2>2. Len(todo') >= n + 7
    BY <2>1
  <2>3. /\ todo'[n + 1].do = "shards" /\ todo'[n + 2].do = "promote"
        /\ todo'[n + 3].do = "record" /\ todo'[n + 4].do = "pending"
        /\ todo'[n + 5].do = "candidate" /\ todo'[n + 5].id = epoch
        /\ todo'[n + 6].do = "record" /\ todo'[n + 7].do = "pending" /\ todo'[n + 7].id = epoch
    BY <1>1, <2>1 DEF Candidate, Persists, ChangesOf
  <2> QED BY <2>1, <2>2, <2>3
<1>6. Has(todo', "promote") /\ Saves(todo', epoch)
  <2>1. n + 2 \in 1 .. Len(todo') /\ n + 5 \in 1 .. Len(todo')
    <3>1. Len(todo') = n + 7 \/ Len(todo') = n + 10
      BY <1>2, <1>3 DEF BoundaryIn, Certified
    <3> QED BY <3>1
  <2> QED BY <1>5, <2>1 DEF Has, Saves
<1>7. CASE ~catalog.dense
  <2>1. Len(todo') = n + 7 /\ dur'.id = epoch /\ dur' # NoCandidate
    BY <1>2, <1>3, <1>7 DEF BoundaryIn, NoCandidate
  <2>2. \A i \in 1 .. Len(todo') :
          /\ todo'[i].do \notin {"reject", "clear"}
          /\ Settles(i)' => i = 3 \/ i = n + 4 \/ i = n + 7
    <3> TAKE i \in 1 .. Len(todo')
    <3>1. \/ n = 3 /\ (i = 1 \/ i = 2 \/ i = 3)
          \/ \E k \in 1 .. 7 : i = n + k
      BY <2>1
    <3>2. CASE n = 3 /\ (i = 1 \/ i = 2 \/ i = 3)
      BY <1>4, <3>2 DEF Settles
    <3>3. CASE \E k \in 1 .. 7 : i = n + k
      <4>1. PICK k \in 1 .. 7 : i = n + k
        BY <3>3
      <4>2. \/ i = n + 1 \/ i = n + 2 \/ i = n + 3 \/ i = n + 4 \/ i = n + 5 \/ i = n + 6
            \/ i = n + 7
        BY <4>1
      <4> QED BY <1>5, <4>2 DEF Settles
    <3> QED BY <3>1, <3>2, <3>3
  <2>3. Settles(n + 7)' /\ n + 7 \in 1 .. Len(todo')
    BY <1>5, <2>1 DEF Settles
  <2>4. \A i \in 1 .. Len(todo') : i # n + 7 => n + 7 \in i + 1 .. Len(todo')
    BY <2>1
  <2>5. PendingWillBe'
    BY <1>5, <2>1, <2>3, <2>4 DEF PendingWillBe
  <2>6. ~Has(todo', "reject") /\ ~Has(todo', "clear")
    BY <2>2 DEF Has
  <2> QED BY <1>6, <1>7, <2>1, <2>5, <2>6 DEF RolesWillBe
<1>8. CASE catalog.dense
  <2>1. /\ Len(todo') = n + 10 /\ dur' = NoCandidate
        /\ todo'[n + 8].do = "record" /\ todo'[n + 9].do = "latest" /\ todo'[n + 10].do = "unlink"
    BY <1>1, <1>2, <1>3, <1>8 DEF BoundaryIn, Certified, ChangesOf
  <2>2. \A i \in 1 .. Len(todo') : todo'[i].do \notin {"reject", "clear"}
    <3> TAKE i \in 1 .. Len(todo')
    <3>1. \/ n = 3 /\ (i = 1 \/ i = 2 \/ i = 3)
          \/ \E k \in 1 .. 10 : i = n + k
      BY <2>1
    <3>2. CASE n = 3 /\ (i = 1 \/ i = 2 \/ i = 3)
      BY <1>4, <3>2
    <3>3. CASE \E k \in 1 .. 10 : i = n + k
      <4>1. PICK k \in 1 .. 10 : i = n + k
        BY <3>3
      <4>2. \/ i = n + 1 \/ i = n + 2 \/ i = n + 3 \/ i = n + 4 \/ i = n + 5 \/ i = n + 6
            \/ i = n + 7 \/ i = n + 8 \/ i = n + 9 \/ i = n + 10
        BY <4>1
      <4> QED BY <1>5, <2>1, <4>2
    <3> QED BY <3>1, <3>2, <3>3
  <2>3. Settles(n + 10)' /\ n + 10 \in 1 .. Len(todo')
    BY <2>1 DEF Settles
  <2>4. \A i \in 1 .. Len(todo') : i # n + 10 => n + 10 \in i + 1 .. Len(todo')
    BY <2>1
  <2>5. PendingWillBe'
    BY <2>1, <2>3, <2>4 DEF PendingWillBe
  <2>6. ~Has(todo', "reject") /\ ~Has(todo', "clear")
    BY <2>2 DEF Has
  <2> QED BY <1>6, <1>8, <2>1, <2>5, <2>6 DEF RolesWillBe
<1>9. catalog.dense \in BOOLEAN
  BY <1>1, TrustAssumption DEF JobTypes
<1> QED BY <1>7, <1>8

(* A replay.                                                               *)
LEMMA RolesReplay ==
  ASSUME JobOK, RolesInv, NEW s \in Steps, NEW t \in Taints, Replays(s, t)
  PROVE  RolesInv'
<1>1. /\ JobTypes /\ JobInv /\ up /\ up' = up /\ todo = <<>> /\ catalog' = catalog
      /\ UNCHANGED <<status, artifact, pendingFile>>
  BY DEF JobOK, Replays
<1>2. /\ \A what : ~Has(todo, what)
      /\ \A id : ~Saves(todo, id)
  BY <1>1, NoChanges
<1>3. CASE Dropped
  BY <1>1, <1>3, RolesDropped
<1>4. CASE NextShape(t)
  <2> SUFFICES ASSUME catalog.durable PROVE PendingWillBe' /\ RolesWillBe'
    BY <1>1 DEF RolesInv
  <2>1. /\ pendingFile = dur.id
        /\ dur # NoCandidate <=> status.candidate # NoStep
        /\ dur # NoCandidate => status.candidate = artifact[dur.id].step
    BY <1>1, <1>2 DEF RolesInv, PendingWillBe, RolesWillBe
  <2>2. CASE dur = NoCandidate
    <3>1. dur' = NoCandidate /\ todo' = <<>>
      BY <1>4, <2>2 DEF NextShape
    <3>2. /\ \A what : ~Has(todo', what)
          /\ \A i \in 1 .. Len(todo') : FALSE
      BY <3>1 DEF Has
    <3> QED BY <1>1, <2>1, <2>2, <3>1, <3>2 DEF PendingWillBe, RolesWillBe
  <2>3. CASE dur # NoCandidate
    <3>1. /\ dur'.id = dur.id /\ dur' # NoCandidate /\ Len(todo') = 2
          /\ todo'[1] = Record(dur.id, "candidate") /\ todo'[2] = Pending(dur.id)
      BY <1>1, <1>4, <2>3, TrustAssumption DEF NextShape, NoCandidate, JobInv, Follows, Epochs
    <3>2. ChangesOf(dur.id)
      BY MadeOf
    <3>3. todo'[1].do = "record" /\ todo'[2].do = "pending" /\ todo'[2].id = dur.id
      BY <3>1, <3>2 DEF ChangesOf
    <3>4. \A i \in 1 .. Len(todo') : Settles(i)' <=> i = 2
      BY <3>1, <3>3 DEF Settles
    <3>5. PendingWillBe'
      BY <3>1, <3>3, <3>4 DEF PendingWillBe
    <3>6. \A w \in {"promote", "reject", "clear", "candidate"} : ~Has(todo', w)
      BY <3>1, <3>3 DEF Has
    <3>7. ~Saves(todo', dur.id)
      BY <3>6 DEF Saves, Has
    <3> QED BY <1>1, <2>1, <2>3, <3>1, <3>5, <3>6, <3>7 DEF RolesWillBe
  <2> QED BY <2>2, <2>3
<1>5. CASE \E n \in {0, 3} : \E replicated, saved \in BOOLEAN : CycleEnds(n, t, replicated, saved)
  BY <1>1, <1>5, RolesCycle
<1> QED BY <1>3, <1>4, <1>5 DEF Replays, Outcome

(* The handlers without a replay, and recovery.                            *)
LEMMA RolesIdle ==
  ASSUME JobOK, RolesInv, PostStepWithoutResult \/ Drops \/ KeepsLatest
  PROVE  RolesInv'
<1>1. /\ JobTypes /\ JobInv /\ up /\ up' = up /\ todo = <<>> /\ catalog' = catalog
      /\ UNCHANGED <<status, artifact, pendingFile>>
  BY DEF JobOK, PostStepWithoutResult, Drops, KeepsLatest, Idle, gemini, durable
<1>2. /\ \A what : ~Has(todo, what)
      /\ \A id : ~Saves(todo, id)
  BY <1>1, NoChanges
<1>3. catalog.durable =>
        /\ pendingFile = dur.id
        /\ dur # NoCandidate <=> status.candidate # NoStep
        /\ dur # NoCandidate => status.candidate = artifact[dur.id].step
  BY <1>1, <1>2 DEF RolesInv, PendingWillBe, RolesWillBe
<1>4. CASE Drops
  BY <1>1, <1>4, RolesDropped DEF Drops
<1>5. CASE PostStepWithoutResult \/ KeepsLatest
  <2>1. dur' = dur
    BY <1>5 DEF PostStepWithoutResult, KeepsLatest
  <2>2. \A i \in 1 .. Len(todo') : todo'[i].do = "mode"
    <3>1. CASE PostStepWithoutResult
      BY <1>1, <3>1 DEF PostStepWithoutResult
    <3>2. CASE KeepsLatest
      BY <3>2, Made DEF KeepsLatest, Modes
    <3> QED BY <1>5, <3>1, <3>2
  <2>3. /\ \A w : w # "mode" => ~Has(todo', w)
        /\ \A id : ~Saves(todo', id)
        /\ \A i \in 1 .. Len(todo') : ~Settles(i)'
    BY <2>2 DEF Has, Saves, Settles
  <2>4. catalog.durable => PendingWillBe' /\ RolesWillBe'
    BY <1>1, <1>3, <2>1, <2>3 DEF PendingWillBe, RolesWillBe
  <2> QED BY <1>1, <2>4 DEF RolesInv
<1> QED BY <1>4, <1>5

(* The load comes before the certification coordinator clears GEMINI's     *)
(* candidate.                                                              *)
LEMMA RolesLoad ==
  ASSUME JobOK, RolesInv, LoadsState
  PROVE  RolesInv'
<1>1. /\ JobTypes /\ JobInv /\ up /\ up' = up /\ Makes("load") /\ catalog' = catalog
      /\ UNCHANGED <<dur, artifact, pendingFile>> /\ todo[1].do = "load" /\ Len(todo) \in Nat \ {0}
  BY DEF JobOK, LoadsState, Makes
<1> SUFFICES ASSUME catalog.durable, ~Has(todo', "raise")
             PROVE  PendingWillBe' /\ RolesWillBe'
  BY <1>1 DEF RolesInv
<1>2. PendingWillBe /\ RolesWillBe
  BY <1>1 DEF Makes, RolesInv
<1>3. PendingWillBe'
  BY <1>1, <1>2, PendingMakes
<1>4. Has(todo, "clear")
  <2>1. 1 \in 1 .. Len(todo) /\ Len(todo) \in 1 .. Len(todo)
    BY <1>1
  <2>2. todo[Len(todo)].do = "clear"
    BY <1>1, <2>1 DEF JobInv, Orderly
  <2> QED BY <2>1, <2>2 DEF Has
<1>5. dur = NoCandidate /\ ~Has(todo, "promote")
  BY <1>2, <1>4 DEF RolesWillBe
<1>6. Has(todo', "clear") /\ ~Has(todo', "promote")
  BY <1>1, <1>4, <1>5 DEF Makes
<1> QED BY <1>1, <1>3, <1>5, <1>6 DEF RolesWillBe

(* The restart: the manifest's candidate is settled first, GEMINI's is     *)
(* cleared last.                                                           *)
LEMMA RolesStart ==
  ASSUME JobOK, NEW mode \in Modes \cup {"status"}, Starts(mode)
  PROVE  RolesInv'
<1>1. /\ JobTypes /\ JobInv /\ ~up /\ catalog' = catalog /\ UNCHANGED <<dur, pendingFile>>
  BY DEF JobOK, Starts
<1>2. dur = NoCandidate /\ dur.id = 0
  BY <1>1 DEF JobInv, Away, NoCandidate
<1> SUFFICES ASSUME catalog.durable PROVE PendingWillBe' /\ RolesWillBe'
  BY <1>1 DEF RolesInv
<1>3. /\ Has(todo', "clear")
      /\ \A i \in 1 .. Len(todo') :
           /\ todo'[i].do \in {"record", "unlink", "load", "clear"}
           /\ todo'[i].do = "unlink" => pendingFile # 0
      /\ pendingFile # 0 => Has(todo', "unlink")
  BY <1>1, StartChanges
<1>4. ~Has(todo', "promote")
  BY <1>3 DEF Has
<1>5. PendingWillBe'
  BY <1>1, <1>2, <1>3 DEF PendingWillBe, Settles, Has
<1> QED BY <1>1, <1>2, <1>3, <1>4, <1>5 DEF RolesWillBe

-----------------------------------------------------------------------------
(* The files.  What the types say of the numbers involved.                 *)
LEMMA Numbers ==
  ASSUME JobTypes
  PROVE  /\ Steps \subseteq Nat \ {0} /\ NoStep = -1 /\ NoStep \notin Steps
         /\ Size \in Nat \ {0} /\ Shapes = 0 .. Size - 1
         /\ step \in Nat /\ pos \in 0 .. Size - 1 /\ taint \in 0 .. Size - 1 \cup {Clean}
         /\ status.verified \in Steps \cup {NoStep} /\ status.candidate \in Steps \cup {NoStep}
         /\ status.history \subseteq Steps
         /\ Trusted \subseteq Steps
         /\ status.verified # NoStep => status.verified \in Trusted
         /\ \A m \in mem : m.step \in Steps
         /\ \A r : r \in 0 .. Size - 1 => [taint |-> taint, pos |-> r] # NoFile
<1>1. /\ Steps \subseteq Nat \ {0} /\ NoStep = -1 /\ NoStep \notin Steps
  BY TrustAssumption DEF Steps, NoStep
<1>2. /\ Size \in Nat \ {0} /\ Shapes = 0 .. Size - 1
  BY TrustAssumption DEF Size, Shapes, JobTypes
<1>3. /\ step \in Nat /\ pos \in 0 .. Size - 1 /\ taint \in 0 .. Size - 1 \cup {Clean}
  BY <1>2, TrustAssumption DEF JobTypes, Taints
<1>4. /\ status.verified \in Steps \cup {NoStep} /\ status.candidate \in Steps \cup {NoStep}
      /\ status.history \subseteq Steps
  BY DEF JobTypes
<1>5. Trusted \subseteq Steps /\ (status.verified # NoStep => status.verified \in Trusted)
  BY <1>4 DEF Trusted
<1>6. \A m \in mem : m.step \in Steps
  BY DEF JobTypes
<1>7. ASSUME NEW r, r \in 0 .. Size - 1
      PROVE  [taint |-> taint, pos |-> r] # NoFile
  <2>1. [taint |-> taint, pos |-> r].pos = r /\ NoFile.pos = -1
    BY DEF NoFile
  <2> QED BY <1>7, <2>1
<1> QED BY <1>1, <1>2, <1>3, <1>4, <1>5, <1>6, <1>7

(* The shards of a boundary are on disk when the roles come to advance.    *)
LEMMA BoundariesMake ==
  ASSUME Boundaries, NEW what, Makes(what), UNCHANGED <<step, taint, pos, catalog>>,
         what = "shards" => files'[step] = [taint |-> taint, pos |-> pos]
  PROVE  Boundaries'
<1>1. /\ Len(todo) \in Nat \ {0} /\ Len(todo') = Len(todo) - 1 /\ todo[1].do = what
  BY DEF Makes
<1>2. ASSUME NEW i \in 1 .. Len(todo'), todo'[i].do = "promote"
      PROVE  /\ i = 1 => files'[step] = [taint |-> taint, pos |-> pos]
             /\ i > 1 => todo'[i - 1].do = "shards"
             /\ ~Has(todo', "reject")
             /\ taint # Clean => pos <= taint /\ ~catalog.dense
  <2>1. PICK j \in 1 .. Len(todo) : j = i + 1 /\ todo'[i] = todo[j]
    BY DEF Makes
  <2>2. /\ j > 1 /\ todo[j - 1].do = "shards"
        /\ ~Has(todo, "reject")
        /\ taint # Clean => pos <= taint /\ ~catalog.dense
    BY <1>2, <2>1 DEF Boundaries
  <2>3. ~Has(todo', "reject")
    BY <2>2 DEF Makes
  <2>4. i = 1 => what = "shards"
    BY <1>1, <2>1, <2>2
  <2>5. i > 1 => todo'[i - 1].do = "shards"
    <3> SUFFICES ASSUME i > 1 PROVE todo'[i - 1].do = "shards"
      OBVIOUS
    <3>1. PICK a \in 1 .. Len(todo') : a = i - 1 /\ a + 1 = j - 1
      BY <1>1, <2>1
    <3>2. todo'[a] = todo[a + 1]
      BY DEF Makes
    <3> QED BY <2>2, <3>1, <3>2
  <2> QED BY <2>2, <2>3, <2>4, <2>5
<1>3. ASSUME NEW i \in 1 .. Len(todo'), todo'[i].do = "shards"
      PROVE  i < Len(todo') /\ todo'[i + 1].do = "promote"
  <2>1. PICK j \in 1 .. Len(todo) : j = i + 1 /\ todo'[i] = todo[j]
    BY DEF Makes
  <2>2. j < Len(todo) /\ todo[j + 1].do = "promote"
    BY <1>3, <2>1 DEF Boundaries
  <2>3. PICK a \in 1 .. Len(todo') : a = i + 1 /\ a + 1 = j + 1
    BY <1>1, <2>1, <2>2
  <2>4. todo'[a] = todo[a + 1]
    BY DEF Makes
  <2> QED BY <1>1, <2>1, <2>2, <2>3, <2>4
<1> QED BY <1>2, <1>3 DEF Boundaries

(* A change that is about neither the files nor the roles.                 *)
LEMMA FilesRemain ==
  ASSUME FilesInv, NEW what, Makes(what), what \notin {"load", "shards", "promote", "reject", "clear"},
         LiveUnchanged, catalog' = catalog, files' = files,
         status'.candidate = status.candidate, status'.verified = status.verified,
         status'.history = status.history
  PROVE  FilesInv'
<1>1. /\ Boundaries /\ UNCHANGED <<up, step, pos, taint, mem, dur, epoch>>
      /\ TrustIsClean /\ CapturesAreOwn /\ CandidateIsAncestor
  BY DEF FilesInv, LiveUnchanged
<1>2. Boundaries'
  BY <1>1, BoundariesMake
<1>3. /\ Away' <=> Away
      /\ Trusted' = Trusted
      /\ \A w \in {"clear", "reject", "promote"} : Has(todo', w) <=> Has(todo, w)
  BY <1>1 DEF Away, Makes, Trusted
<1>4. TrustIsClean'
  BY <1>1, <1>3 DEF TrustIsClean
<1>5. CapturesAreOwn'
  BY <1>1, <1>3 DEF CapturesAreOwn
<1>6. ASSUME NEW c, FromCandidate(c)
      PROVE  FromCandidate(c)'
  BY <1>1, <1>6 DEF FromCandidate
<1>7. CandidateIsAncestor'
  BY <1>1, <1>3, <1>6 DEF CandidateIsAncestor
<1> QED BY <1>2, <1>4, <1>5, <1>7 DEF FilesInv

(* Writing the manifests.                                                  *)
LEMMA FilesManifests ==
  ASSUME JobOK, FilesInv, WriteManifest
  PROVE  FilesInv'
<1>1. JobTypes /\ Elsewhere
  BY DEF JobOK, WriteManifest, Elsewhere, gemini
<1>2. PICK what \in {"record", "pending", "latest", "unlink", "candidate"} : Makes(what)
  BY <1>1, ManifestChanges
     DEF WritesRecord, WritesPending, WritesLatest, Unlinks, WritesArtifact
<1> QED BY <1>1, <1>2, FilesRemain DEF Elsewhere

(* Persisting the shards of the boundary step: over those of a verified    *)
(* generation only if the live state is that generation, and clean.        *)
LEMMA FilesShards ==
  ASSUME JobOK, FilesInv, WritesShards
  PROVE  FilesInv'
<1>1. /\ JobTypes /\ JobInv /\ Boundaries /\ TrustIsClean /\ CapturesAreOwn
      /\ CandidateIsAncestor /\ Makes("shards") /\ step \in Steps
      /\ UNCHANGED <<up, step, pos, taint, mem, dur, epoch, catalog, status>>
      /\ files \in [Steps -> [taint : Taints, pos : Shapes] \cup {NoFile}]
      /\ files' = [files EXCEPT ![step] = [taint |-> taint, pos |-> pos]]
      /\ todo[1].do = "shards" /\ 1 \in 1 .. Len(todo) /\ up
  BY DEF JobOK, FilesInv, WritesShards, LiveUnchanged, Makes, JobTypes
<1>2. /\ files'[step] = [taint |-> taint, pos |-> pos]
      /\ \A s \in Steps : s # step => files'[s] = files[s]
      /\ files'[step].taint = taint /\ files'[step] # NoFile
  BY <1>1, Numbers
<1>3. Boundaries'
  BY <1>1, <1>2, BoundariesMake
<1>4. ~Away /\ ~Away' /\ Has(todo, "promote")
  <2>1. ~Has(todo, "load")
    BY <1>1 DEF JobInv, Orderly
  <2>2. 1 < Len(todo) /\ todo[1 + 1].do = "promote"
    BY <1>1 DEF Boundaries
  <2>3. 2 \in 1 .. Len(todo) /\ todo[2].do = "promote"
    BY <2>2
  <2> QED BY <1>1, <2>1, <2>3 DEF Away, Has, Makes
<1>5. Trusted' = Trusted /\ Trusted \subseteq Steps
  BY <1>1, Numbers DEF Trusted
<1>6. step \in Trusted => taint = Clean
  <2> SUFFICES ASSUME step \in Trusted PROVE taint = Clean
    OBVIOUS
  <2>1. step <= status.verified /\ status.verified <= step
    BY <1>1, <1>4 DEF TrustIsClean
  <2>2. step \in Int /\ status.verified \in Int
    BY <1>1, Numbers
  <2> QED BY <1>1, <1>4, <2>1, <2>2 DEF TrustIsClean
<1>7. TrustIsClean'
  BY <1>1, <1>2, <1>4, <1>5, <1>6 DEF TrustIsClean
<1>8. CapturesAreOwn'
  BY <1>1, <1>5 DEF CapturesAreOwn
<1>9. CandidateIsAncestor'
  <2> SUFFICES ASSUME status.candidate # NoStep
               PROVE  FromCandidate(status.candidate)' /\ files'[status.candidate].taint = Clean
    BY <1>1 DEF CandidateIsAncestor
  <2>1. PICK c \in Steps : c = status.candidate
    BY <1>1, Numbers
  <2>2. FromCandidate(c) /\ files[c].taint = Clean
    BY <1>1, <1>4, <2>1 DEF CandidateIsAncestor
  <2>3. files'[c].taint = Clean /\ files'[c] # NoFile
    BY <1>2, <2>2 DEF FromCandidate
  <2> QED BY <1>1, <2>1, <2>2, <2>3 DEF FromCandidate
<1> QED BY <1>3, <1>7, <1>8, <1>9 DEF FilesInv

(* The roles advance (_persist_boundary): the candidate becomes verified   *)
(* after a cycle that would have revealed what it carries, and the         *)
(* boundary takes its place.                                               *)
LEMMA FilesAdvance ==
  ASSUME JobOK, FilesInv, Advances, LiveUnchanged, catalog' = catalog, files' = files
  PROVE  FilesInv'
<1>1. /\ JobTypes /\ JobInv /\ Boundaries /\ TrustIsClean /\ CapturesAreOwn
      /\ CandidateIsAncestor /\ Makes("promote") /\ step \in Steps
      /\ UNCHANGED <<up, step, pos, taint, mem, dur, epoch, catalog, files>>
      /\ todo[1].do = "promote" /\ 1 \in 1 .. Len(todo) /\ up
      /\ catalog.dense \in BOOLEAN
  BY TrustAssumption DEF JobOK, FilesInv, Advances, LiveUnchanged, Makes, JobTypes
<1>2. /\ files[step] = [taint |-> taint, pos |-> pos]
      /\ taint # Clean => pos <= taint /\ ~catalog.dense
  BY <1>1 DEF Boundaries
<1>3. files[step].taint = taint /\ files[step] # NoFile
  BY <1>1, <1>2, Numbers
<1>4. ~Away /\ ~Away' /\ Has(todo, "promote")
  <2>1. ~Has(todo, "load")
    BY <1>1 DEF JobInv, Orderly
  <2> QED BY <1>1, <2>1 DEF Away, Has, Makes
<1>5. ~Has(todo', "promote")
  <2>1. OncePromoted(todo, 1)
    BY <1>1 DEF JobInv, Orderly
  <2>2. ASSUME NEW i \in 1 .. Len(todo'), todo'[i].do = "promote" PROVE FALSE
    <3>1. i + 1 \in 1 .. Len(todo) /\ todo[i + 1].do = "promote" /\ i \in 1 .. Len(todo')
      BY <1>1, <2>2 DEF Makes
    <3>2. i + 1 = 1
      BY <2>1, <3>1 DEF OncePromoted
    <3> QED BY <3>1, <3>2
  <2> QED BY <2>2 DEF Has
<1>6. Boundaries'
  BY <1>1, BoundariesMake
<1>7. /\ status.verified \in Int /\ step \in Int /\ NoStep \notin Steps /\ Trusted \subseteq Steps
      /\ Steps \subseteq Int /\ status.candidate \in Steps \cup {NoStep}
      /\ status.verified # NoStep => status.verified \in Trusted
      /\ NoStep = -1
  BY <1>1, Numbers
<1>8. /\ status.verified <= step
      /\ \A s \in Trusted : files[s] # NoFile /\ files[s].taint = Clean /\ s <= status.verified
  BY <1>1, <1>4 DEF TrustIsClean
<1>9. PICK v \in Steps \cup {NoStep} :
         /\ v = status'.verified
         /\ status.verified <= v /\ v <= step
         /\ v # status.verified => v \in Steps
         /\ v # NoStep => files[v] # NoFile /\ files[v].taint = Clean
         /\ v = step => taint = Clean
         /\ \A m \in mem : m.step = v => m.taint = Clean
  <2>1. CASE catalog.dense
    <3>1. status'.verified = step /\ taint = Clean
      BY <1>1, <1>2, <2>1 DEF Advances
    <3>2. \A m \in mem : m.step = step => m.taint = Clean
      BY <1>1, <3>1 DEF CapturesAreOwn
    <3> QED BY <1>1, <1>3, <1>7, <1>8, <3>1, <3>2
  <2>2. CASE ~catalog.dense /\ status.candidate # NoStep
    <3>1. PICK c \in Steps : c = status.candidate /\ status'.verified = c
      BY <1>7, <2>2 DEF Advances
    <3>2. FromCandidate(c) /\ files[c].taint = Clean
      BY <1>1, <1>4, <2>2, <3>1 DEF CandidateIsAncestor
    <3>3. /\ files[c] # NoFile /\ status.verified <= c /\ c <= step
          /\ step = c => taint = Clean
          /\ \A m \in mem : m.step = c => m.taint = Clean
      BY <3>2 DEF FromCandidate
    <3> QED BY <1>7, <3>1, <3>2, <3>3
  <2>3. CASE ~catalog.dense /\ status.candidate = NoStep
    <3>1. status'.verified = status.verified
      BY <2>3 DEF Advances
    <3>2. /\ status.verified = step => taint = Clean
          /\ \A m \in mem : m.step = status.verified => m.taint = Clean
      BY <1>1, <1>4, <1>7, Numbers DEF TrustIsClean, CapturesAreOwn
    <3> QED BY <1>1, <1>7, <1>8, <3>1, <3>2, Numbers
  <2> QED BY <1>1, <2>1, <2>2, <2>3
<1>10. Trusted' \subseteq Trusted \cup ({v} \ {NoStep}) /\ (v # NoStep => v \in Trusted')
  BY <1>9 DEF Advances, Trusted
<1>11. \A s \in Trusted' : files[s] # NoFile /\ files[s].taint = Clean /\ s <= v
  <2> TAKE s \in Trusted'
  <2>1. CASE s \in Trusted
    <3>1. s \in Int /\ v \in Int /\ s <= status.verified
      BY <1>7, <1>8, <2>1
    <3>2. s <= v
      BY <1>7, <1>9, <3>1
    <3> QED BY <1>8, <2>1, <3>2
  <2>2. CASE s = v /\ v # NoStep
    <3>1. v \in Int /\ v <= v
      BY <1>7, <2>2
    <3>2. files[v] # NoFile /\ files[v].taint = Clean
      BY <1>9, <2>2
    <3> QED BY <2>2, <3>1, <3>2
  <2> QED BY <1>10, <2>1, <2>2
<1>12. TrustIsClean'
  BY <1>1, <1>9, <1>11 DEF TrustIsClean
<1>13. CapturesAreOwn'
  <2>1. ASSUME NEW m \in mem, m.step \in Trusted'
        PROVE  m.taint = Clean
    BY <1>1, <1>9, <1>10, <2>1 DEF CapturesAreOwn
  <2> QED BY <1>1, <2>1 DEF CapturesAreOwn
<1>14. CandidateIsAncestor'
  <2> SUFFICES ASSUME NEW c, c = status'.candidate, c # NoStep
               PROVE  FromCandidate(c)'
    BY <1>5 DEF CandidateIsAncestor
  <2>1. c = step /\ ~catalog.dense
    BY DEF Advances
  <2>2. \A m \in mem : m.step = step => m.taint = taint
    BY <1>1 DEF CapturesAreOwn
  <2> QED BY <1>1, <1>2, <1>3, <1>7, <1>9, <2>1, <2>2 DEF FromCandidate
<1> QED BY <1>6, <1>12, <1>13, <1>14 DEF FilesInv

(* The candidate is dropped (set_recovery_mode, the clearing at a failed   *)
(* save or a restart).                                                     *)
LEMMA FilesForget ==
  ASSUME JobOK, FilesInv, Forgets, LiveUnchanged, catalog' = catalog, files' = files
  PROVE  FilesInv'
<1>1. PICK what \in {"reject", "clear"} : Makes(what)
  BY DEF Forgets
<1>2. /\ UNCHANGED <<up, step, pos, taint, mem, catalog, files>>
      /\ status'.candidate = NoStep /\ Trusted' = Trusted /\ status'.verified = status.verified
      /\ Away' <=> Away
  BY <1>1 DEF LiveUnchanged, Forgets, Trusted, Away, Makes
<1>3. Boundaries'
  BY <1>1, <1>2, BoundariesMake DEF FilesInv
<1> QED BY <1>2, <1>3 DEF FilesInv, TrustIsClean, CapturesAreOwn, CandidateIsAncestor

(* Writing the status.                                                     *)
LEMMA FilesStatus ==
  ASSUME JobOK, FilesInv, WritesStatus
  PROVE  FilesInv'
<1>1. CASE Advances
  BY <1>1, FilesAdvance DEF WritesStatus
<1>2. CASE Forgets
  BY <1>2, FilesForget DEF WritesStatus
<1>3. CASE Remains
  BY <1>3, FilesRemain DEF WritesStatus, Remains
<1> QED BY <1>1, <1>2, <1>3 DEF WritesStatus

(* The hypothesis is needed for the load: a GEMINI candidate that no       *)
(* certification coordinator of a durable checkpoint clears could come     *)
(* from another run of the job than the state that is loaded.              *)
LEMMA FilesLoad ==
  ASSUME JobOK, FilesInv, LoadsState, catalog.durable \/ catalog.dense
  PROVE  FilesInv'
<1>1. /\ JobTypes /\ JobInv /\ TrustIsClean
      /\ UNCHANGED <<catalog, up, mem, files>> /\ Makes("load") /\ todo[1].do = "load"
      /\ 1 \in 1 .. Len(todo) /\ Len(todo) \in Nat \ {0}
      /\ status'.candidate \in {status.candidate, NoStep}
      /\ status'.verified = status.verified /\ status'.history = status.history
  BY DEF JobOK, FilesInv, LoadsState, Makes
<1>2. Has(todo, "load")
  BY <1>1 DEF Has
<1>3. mem = {} /\ Trusted' = Trusted
  BY <1>1, <1>2 DEF JobInv, Away, Trusted
<1>4. \A i \in 1 .. Len(todo') : todo'[i].do \in {"record", "unlink", "load", "clear"}
  BY <1>1, <1>2 DEF JobInv, Orderly, Makes
<1>5. Boundaries' /\ ~Has(todo', "promote")
  BY <1>4 DEF Boundaries, Has
<1>6. status'.verified <= step' /\ (status'.verified = step' => taint' = Clean)
  <2>1. /\ status.verified # NoStep =>
             /\ status.verified \in OnDisk /\ files[status.verified].taint = Clean
             /\ status.verified \in Steps
        /\ NoStep = -1 /\ OnDisk \subseteq Nat \ {0}
    BY <1>1, Numbers DEF TrustIsClean, OnDisk
  <2>2. CASE /\ step' \in OnDisk /\ taint' = files[step'].taint
             /\ status.verified \in OnDisk => status.verified <= step'
    BY <1>1, <2>1, <2>2
  <2>3. CASE step' \in 0 .. MaxStep /\ status.verified \notin OnDisk
    BY <1>1, <2>1, <2>3
  <2> QED BY <2>2, <2>3 DEF LoadsState
<1>7. TrustIsClean'
  BY <1>1, <1>3, <1>6 DEF TrustIsClean
<1>8. CapturesAreOwn'
  BY <1>1, <1>3 DEF CapturesAreOwn
<1>9. CandidateIsAncestor'
  <2>1. CASE catalog.durable
    <3>1. Len(todo) \in 1 .. Len(todo) /\ todo[Len(todo)].do = "clear"
      BY <1>1, <2>1 DEF JobInv, Orderly
    <3>2. Has(todo', "clear")
      BY <1>1, <3>1 DEF Has, Makes
    <3> QED BY <1>5, <3>2 DEF CandidateIsAncestor
  <2>2. CASE catalog.dense
    BY <1>1, <2>2 DEF JobInv, CandidateIsAncestor
  <2> QED BY <2>1, <2>2
<1> QED BY <1>5, <1>7, <1>8, <1>9 DEF FilesInv

(* The job stops; flush_for_restart may write its captures over files of   *)
(* the same steps, but a capture of a verified step is that step's state.  *)
LEMMA FilesStop ==
  ASSUME JobOK, FilesInv, Crash \/ Terminate
  PROVE  FilesInv'
<1>1. /\ JobTypes /\ TrustIsClean /\ CapturesAreOwn
      /\ up' = FALSE /\ mem' = {} /\ todo' = <<>> /\ UNCHANGED <<catalog, status>>
  BY DEF JobOK, FilesInv, Crash, Terminate, Stop
<1>2. Trusted' = Trusted /\ Trusted \subseteq Steps /\ Away' /\ \A what : ~Has(todo', what)
  BY <1>1, Numbers DEF Trusted, Away, Has
<1>3. ASSUME NEW s \in Trusted
      PROVE  files'[s] # NoFile /\ files'[s].taint = Clean
  <2>1. CASE Crash
    BY <1>1, <1>3, <2>1 DEF Crash, TrustIsClean
  <2>2. CASE Terminate /\ \E c \in mem : c.step = s
    <3>1. PICK c : c = CHOOSE d \in mem : d.step = s
      OBVIOUS
    <3>2. c \in mem /\ c.step = s
      BY <2>2, <3>1
    <3>3. files'[s] = [taint |-> c.taint, pos |-> c.pos]
      BY <1>2, <1>3, <2>2, <3>1 DEF Terminate
    <3>4. c.taint = Clean /\ c.pos \in Shapes
      BY <1>1, <1>3, <3>2 DEF CapturesAreOwn, JobTypes
    <3>5. files'[s].pos # -1 /\ NoFile.pos = -1
      BY <1>1, <3>3, <3>4, Numbers DEF NoFile
    <3> QED BY <3>3, <3>4, <3>5
  <2>3. CASE Terminate /\ ~\E c \in mem : c.step = s
    <3>1. files'[s] = files[s]
      BY <1>2, <1>3, <2>3 DEF Terminate
    <3> QED BY <1>1, <1>3, <3>1 DEF TrustIsClean
  <2> QED BY <2>1, <2>2, <2>3
<1>4. TrustIsClean'
  BY <1>1, <1>2, <1>3 DEF TrustIsClean
<1>5. Boundaries' /\ CapturesAreOwn' /\ CandidateIsAncestor'
  BY <1>1, <1>2 DEF Boundaries, CapturesAreOwn, CandidateIsAncestor
<1> QED BY <1>4, <1>5 DEF FilesInv

(* The restart reads, before it writes.                                    *)
LEMMA FilesStart ==
  ASSUME JobOK, FilesInv, NEW mode \in Modes \cup {"status"}, Starts(mode)
  PROVE  FilesInv'
<1>1. /\ JobTypes /\ TrustIsClean /\ CapturesAreOwn
      /\ UNCHANGED <<catalog, step, pos, taint, mem, files, status>>
  BY DEF JobOK, FilesInv, Starts
<1>2. Has(todo', "load") /\ \A i \in 1 .. Len(todo') : todo'[i].do \in {"record", "unlink", "load", "clear"}
  BY <1>1, StartChanges
<1>3. Away' /\ Boundaries' /\ ~Has(todo', "promote") /\ Trusted' = Trusted
  BY <1>1, <1>2 DEF Away, Boundaries, Has, Trusted
<1> QED BY <1>1, <1>3 DEF FilesInv, TrustIsClean, CapturesAreOwn, CandidateIsAncestor

(* The handlers without a replay, and recovery.                            *)
LEMMA FilesIdle ==
  ASSUME JobOK, FilesInv, PostStepWithoutResult \/ Drops \/ KeepsLatest
  PROVE  FilesInv'
<1>1. /\ JobTypes /\ JobInv /\ TrustIsClean /\ CapturesAreOwn /\ CandidateIsAncestor
      /\ up /\ todo = <<>>
      /\ UNCHANGED <<catalog, up, pos, mem, files, status>>
  BY DEF JobOK, FilesInv, PostStepWithoutResult, Drops, KeepsLatest, Idle, gemini
<1>2. /\ ~Away /\ Trusted' = Trusted
      /\ \A what : ~Has(todo, what)
  BY <1>1 DEF Away, Has, Trusted
<1>3. CASE PostStepWithoutResult
  <2>1. step' = step + 1 /\ todo' = <<>> /\ catalog.dense
    <3>1. step' = step + 1 /\ todo' = todo /\ catalog.dense
      BY <1>3, Zenon DEF PostStepWithoutResult
    <3> QED BY <1>1, <3>1
  <2>2. /\ step \in Int /\ status.verified \in Int /\ NoStep = -1 /\ Steps \subseteq Int
        /\ \A m \in mem : m.step \in Int
        /\ status.candidate = NoStep
    BY <1>1, <2>1, Numbers DEF JobInv
  <2>3. Boundaries' /\ CandidateIsAncestor'
    BY <1>1, <2>1, <2>2 DEF Boundaries, CandidateIsAncestor
  <2>4. TrustIsClean'
    BY <1>1, <1>2, <2>1, <2>2 DEF TrustIsClean
  <2>5. CapturesAreOwn'
    BY <1>1, <1>2, <2>1, <2>2 DEF CapturesAreOwn
  <2> QED BY <2>3, <2>4, <2>5 DEF FilesInv
<1>4. CASE Drops
  <2>1. UNCHANGED <<step, taint>> /\ Dropped
    BY <1>4 DEF Drops
  <2>2. \A i \in 1 .. Len(todo') : todo'[i].do \in {"record", "pending", "unlink", "reject"}
    BY <2>1, DroppedChanges
  <2>3. ChangesOf(dur.id)
    BY MadeOf
  <2>4. Has(todo', "reject")
    BY <2>1, <2>3 DEF Dropped, ChangesOf, Has
  <2>5. Boundaries' /\ ~Has(todo', "promote")
    BY <2>2 DEF Boundaries, Has
  <2> QED BY <1>1, <1>2, <2>1, <2>4, <2>5
          DEF FilesInv, TrustIsClean, CapturesAreOwn, CandidateIsAncestor
<1>5. CASE KeepsLatest
  <2>1. UNCHANGED <<step, taint>>
    BY <1>5 DEF KeepsLatest
  <2>2. \A i \in 1 .. Len(todo') : todo'[i].do = "mode"
    BY <1>5, Made DEF KeepsLatest, Modes
  <2>3. Boundaries' /\ ~Has(todo', "promote")
    BY <2>2 DEF Boundaries, Has
  <2>4. \A c : FromCandidate(c) => FromCandidate(c)'
    BY <1>1, <2>1 DEF FromCandidate
  <2>5. CandidateIsAncestor'
    BY <1>1, <1>2, <2>3, <2>4 DEF CandidateIsAncestor
  <2> QED BY <1>1, <1>2, <2>1, <2>3, <2>5 DEF FilesInv, TrustIsClean, CapturesAreOwn
<1> QED BY <1>3, <1>4, <1>5

(* A replay: a candidate stays an ancestor of the live state, and what it  *)
(* carries, the live state carries too; a cycle that ends proves it clean. *)
LEMMA FilesReplay ==
  ASSUME JobOK, ManifestInv, FilesInv, NEW s \in Steps, NEW t \in Taints, Replays(s, t)
  PROVE  FilesInv'
<1>1. /\ JobTypes /\ JobInv /\ TrustIsClean /\ CapturesAreOwn /\ CandidateIsAncestor
      /\ up /\ todo = <<>> /\ step' = s /\ taint' = t
      /\ s \in {step, step + 1}
      /\ taint # Clean \/ s = step => t = taint
      /\ UNCHANGED <<catalog, up, files, status>>
      /\ \A m \in mem' : m \in mem \/ m = [step |-> s, taint |-> t, pos |-> pos']
      /\ Dropped \/ NextShape(t)
           \/ \E n \in {0, 3} : \E replicated, saved \in BOOLEAN : CycleEnds(n, t, replicated, saved)
  BY DEF JobOK, FilesInv, Replays, Outcome
<1>2. /\ ~Away /\ Trusted' = Trusted
      /\ \A what : ~Has(todo, what)
  BY <1>1 DEF Away, Has, Trusted
<1>3. /\ step \in Nat /\ status.verified \in Int /\ Steps \subseteq Nat /\ Trusted \subseteq Steps
      /\ status.candidate \in Steps \cup {NoStep}
      /\ Size \in Nat \ {0} /\ Shapes = 0 .. Size - 1 /\ pos \in 0 .. Size - 1
      /\ t \in 0 .. Size - 1 \cup {Clean} /\ Clean = -1
      /\ \A m \in mem : m.step \in Int
  BY <1>1, Numbers DEF Taints, NoStep, Clean
<1>4. /\ status.verified <= step /\ (status.verified = step => taint = Clean)
      /\ \A x \in Trusted : files[x] # NoFile /\ files[x].taint = Clean /\ x <= status.verified
  BY <1>1, <1>2 DEF TrustIsClean
<1>5. status.verified <= s /\ (status.verified = s => t = Clean)
  BY <1>1, <1>3, <1>4
<1>6. TrustIsClean'
  BY <1>1, <1>2, <1>4, <1>5 DEF TrustIsClean
<1>7. CapturesAreOwn'
  <2>1. ASSUME NEW m \in mem
        PROVE  /\ m.step <= s /\ (m.step = s => m.taint = t)
               /\ m.step \in Trusted => m.taint = Clean
    <3>1. /\ m.step <= step /\ (m.step = step => m.taint = taint)
          /\ m.step \in Trusted => m.taint = Clean
      BY <1>1 DEF CapturesAreOwn
    <3> QED BY <1>1, <1>3, <3>1
  <2>2. s \in Trusted => t = Clean
    BY <1>3, <1>4, <1>5
  <2>3. s <= s
    BY <1>3
  <2> QED BY <1>1, <1>2, <2>1, <2>2, <2>3 DEF CapturesAreOwn
<1>8. ASSUME NEW c \in Steps, c = status.candidate, files[c].taint # Clean => pos' <= taint
      PROVE  FromCandidate(c)'
  <2>1. /\ files[c] # NoFile /\ status.verified <= c /\ c <= step
        /\ files[c].taint # Clean => taint = files[c].taint /\ pos <= taint
        /\ step = c => taint = files[c].taint
        /\ \A m \in mem : m.step = c => m.taint = files[c].taint
    BY <1>1, <1>2, <1>3, <1>8, Numbers DEF CandidateIsAncestor, FromCandidate
  <2>2. c <= s /\ (s = c => t = files[c].taint)
    BY <1>1, <1>3, <2>1
  <2>3. files[c].taint # Clean => t = files[c].taint /\ pos' <= t
    BY <1>1, <1>8, <2>1
  <2>4. \A m \in mem' : m.step = c => m.taint = files[c].taint
    BY <1>1, <2>1, <2>2
  <2> QED BY <1>1, <2>1, <2>2, <2>3, <2>4 DEF FromCandidate
<1>9. ASSUME NEW c \in Steps, c = status.candidate, files[c].taint # Clean
      PROVE  taint = files[c].taint /\ pos <= t /\ t = taint /\ t \in 0 .. Size - 1
  BY <1>1, <1>2, <1>3, <1>9, Numbers DEF CandidateIsAncestor, FromCandidate
<1>10. CASE Dropped
  <2>1. \A i \in 1 .. Len(todo') : todo'[i].do \in {"record", "pending", "unlink", "reject"}
    BY <1>10, DroppedChanges
  <2>2. ChangesOf(dur.id)
    BY MadeOf
  <2>3. Has(todo', "reject")
    BY <1>10, <2>2 DEF Dropped, ChangesOf, Has
  <2>4. Boundaries' /\ ~Has(todo', "promote")
    BY <2>1 DEF Boundaries, Has
  <2>5. CandidateIsAncestor'
    BY <2>3, <2>4 DEF CandidateIsAncestor
  <2> QED BY <1>6, <1>7, <2>4, <2>5 DEF FilesInv
<1>11. CASE NextShape(t)
  <2>1. pos' = pos + 1 /\ t # pos
    BY <1>11 DEF NextShape
  <2>2. ChangesOf(dur.id)
    BY MadeOf
  <2>3. \A i \in 1 .. Len(todo') : todo'[i].do \in {"record", "pending"}
    BY <1>11, <2>2 DEF NextShape, ChangesOf
  <2>4. Boundaries' /\ ~Has(todo', "promote")
    BY <2>3 DEF Boundaries, Has
  <2>5. ASSUME NEW c \in Steps, c = status.candidate PROVE FromCandidate(c)'
    <3>1. files[c].taint # Clean => pos' <= taint
      BY <1>3, <1>9, <2>1, <2>5
    <3> QED BY <1>8, <2>5, <3>1
  <2>6. CandidateIsAncestor'
    BY <1>1, <1>3, <2>4, <2>5 DEF CandidateIsAncestor
  <2> QED BY <1>6, <1>7, <2>4, <2>6 DEF FilesInv
<1>12. CASE \E n \in {0, 3} : \E replicated, saved \in BOOLEAN : CycleEnds(n, t, replicated, saved)
  <2>1. PICK n \in {0, 3}, replicated \in BOOLEAN, saved \in BOOLEAN :
          CycleEnds(n, t, replicated, saved)
    BY <1>12
  <2>2. \A i \in 1 .. Len(todo') :
          \/ /\ i <= n
             /\ todo'[i].do \in {"record", "latest", "unlink"}
          \/ i > n /\ BoundaryChange(todo', n, saved, i)
    BY <2>1, ReplayedChanges
  <2>3. t # Clean => t \in 0 .. Size - 1 /\ pos = Size - 1 /\ t # pos /\ pos' = 0
    BY <1>3, <2>1 DEF CycleEnds
  <2>4. t # Clean => ~catalog.dense /\ pos' <= t
    <3>1. catalog.dense => Size = 1
      BY <1>1, TrustAssumption DEF JobTypes, Size
    <3> QED BY <1>3, <2>3, <3>1
  <2>5. ASSUME NEW i \in 1 .. Len(todo')
        PROVE  /\ todo'[i].do # "reject"
               /\ todo'[i].do = "promote" => i > 1 /\ todo'[i - 1].do = "shards"
               /\ todo'[i].do = "shards" => i < Len(todo') /\ todo'[i + 1].do = "promote"
    <3>1. CASE i > n /\ BoundaryChange(todo', n, saved, i)
      BY <3>1 DEF BoundaryChange
    <3> QED BY <2>2, <3>1
  <2>6. Boundaries'
    BY <1>1, <2>4, <2>5 DEF Boundaries, Has
  <2>7. ASSUME NEW c \in Steps, c = status.candidate
        PROVE  FromCandidate(c)' /\ files'[c].taint = Clean
    <3>1. files[c].taint = Clean
      BY <1>3, <1>9, <2>3, <2>7
    <3> QED BY <1>1, <1>8, <2>7, <3>1
  <2>8. CandidateIsAncestor'
    BY <1>1, <1>3, <2>7 DEF CandidateIsAncestor
  <2> QED BY <1>6, <1>7, <2>6, <2>8 DEF FilesInv
<1> QED BY <1>1, <1>10, <1>11, <1>12

-----------------------------------------------------------------------------
(* The inductive invariant.                                                *)

TrustInv ==
  /\ JobOK
  /\ ManifestInv
  /\ RolesInv
  /\ catalog.durable \/ catalog.dense => FilesInv

(* The invariant holds of a new job.                                       *)
LEMMA TrustInit == Init => TrustInv
<1> SUFFICES ASSUME Init PROVE TrustInv
  OBVIOUS
<1>1. todo = <<>> /\ dur = NoCandidate /\ dur.id = 0 /\ pendingFile = 0
      /\ status.candidate = NoStep /\ status.verified = NoStep /\ status.history = {}
      /\ mem = {} /\ step = 0 /\ NoStep = -1
  BY DEF Init, NoCandidate, NoStep
<1>2. RolesInv
  BY <1>1 DEF RolesInv, PendingWillBe, RolesWillBe, Has, Settles
<1>3. Trusted = {}
  BY <1>1 DEF Trusted
<1>4. FilesInv
  BY <1>1, <1>3 DEF FilesInv, Boundaries, TrustIsClean, CapturesAreOwn, CandidateIsAncestor
<1> QED BY <1>2, <1>4, JobInit, ManifestInit DEF TrustInv

(* Every handler, every file change, the load, both ways to stop and the   *)
(* restart preserve the invariant.                                         *)
LEMMA TrustStep == TrustInv /\ [Next]_vars => TrustInv'
<1> SUFFICES ASSUME TrustInv, [Next]_vars PROVE TrustInv'
  OBVIOUS
<1>1. /\ JobOK /\ ManifestInv /\ RolesInv /\ JobTypes /\ Follows
      /\ catalog.durable \/ catalog.dense => FilesInv
  BY DEF TrustInv, JobOK, JobInv
<1>2. CASE PostStep \/ SaveNow
  <2>1. PICK s \in Steps, t \in Taints : Replays(s, t)
    BY <1>1, <1>2, Replaying
  <2>2. catalog' = catalog
    BY <2>1 DEF Replays
  <2> QED BY <1>1, <2>1, <2>2, JobReplays, ManifestReplays, RolesReplay, FilesReplay DEF TrustInv
<1>3. CASE PostStepWithoutResult \/ \E failure \in {"unsafe", "straggler", "other"} :
                                        PrepareRecovery(failure)
  <2>1. PostStepWithoutResult \/ Drops \/ KeepsLatest
    BY <1>1, <1>3, Recovering
  <2>2. catalog' = catalog
    BY <2>1 DEF PostStepWithoutResult, Drops, KeepsLatest
  <2> QED BY <1>1, <2>1, <2>2, JobIdles, ManifestIdles, RolesIdle, FilesIdle DEF TrustInv
<1>4. CASE WriteManifest \/ WriteShards \/ WriteStatus
  <2>1. JobOK'
    BY <1>1, <1>4, JobManifests, JobOther
  <2>2. PICK what : Leaves(what)
    BY <1>1, <1>4, Leaving
  <2>3. ManifestInv' /\ catalog' = catalog
    BY <1>1, <2>2, ManifestLeaves DEF Leaves
  <2>4. RolesInv'
    BY <1>1, <1>4, RolesMake
  <2>5. FilesInv => FilesInv'
    BY <1>1, <1>4, FilesManifests, FilesShards, FilesStatus, ShardChanges, StatusChanges DEF JobOK
  <2> QED BY <1>1, <2>1, <2>3, <2>4, <2>5 DEF TrustInv
<1>5. CASE LoadState
  <2>1. LoadsState /\ catalog' = catalog
    BY <1>1, <1>5, LoadChanges DEF LoadState
  <2> QED BY <1>1, <1>5, <2>1, JobOther, ManifestLoads, RolesLoad, FilesLoad DEF TrustInv
<1>6. CASE Crash \/ Terminate
  <2>1. catalog' = catalog /\ up' = FALSE
    BY <1>6 DEF Crash, Terminate, Stop
  <2>2. RolesInv'
    BY <2>1 DEF RolesInv
  <2> QED BY <1>1, <1>6, <2>1, <2>2, JobStops, ManifestStops, FilesStop DEF TrustInv
<1>7. CASE \E mode \in {"status", "latest", "recovery_verified"} : Restart(mode)
  <2>1. PICK mode \in Modes \cup {"status"} : Restart(mode)
    BY <1>7 DEF Modes
  <2>2. Starts(mode) /\ catalog' = catalog
    BY <1>1, <2>1, Starting DEF Restart
  <2> QED BY <1>1, <2>2, JobStarts, ManifestStarts, RolesStart, FilesStart DEF TrustInv
<1>8. CASE UNCHANGED vars
  <2>1. UNCHANGED <<catalog, up, step, pos, taint, mem, dur, epoch, todo, files, status, records,
                    artifact, pendingFile, latestFile>>
    BY <1>8 DEF vars, volatile, gemini, durable
  <2>2. JobOK'
    <3>1. JobTypes'
      BY <1>1, <2>1 DEF JobTypes, Shapes, Size, Taints
    <3>2. JobInv'
      BY <1>1, <2>1 DEF JobOK, JobInv, Away, Follows, Orderly, OncePromoted, Has
    <3> QED BY <3>1, <3>2 DEF JobOK
  <2>3. ManifestInv'
    BY <1>1, <2>1 DEF ManifestInv, Commits, CommitAt, Saves, Spares, Pends, Unseen, Validated,
                      Away, Has
  <2>4. RolesInv'
    BY <1>1, <2>1 DEF RolesInv, PendingWillBe, Settles, RolesWillBe, Has, Saves
  <2>5. FilesInv => FilesInv'
    BY <2>1 DEF FilesInv, Boundaries, TrustIsClean, Trusted, CapturesAreOwn,
                CandidateIsAncestor, FromCandidate, Away, Has
  <2> QED BY <1>1, <2>1, <2>2, <2>3, <2>4, <2>5 DEF TrustInv
<1> QED BY <1>2, <1>3, <1>4, <1>5, <1>6, <1>7, <1>8 DEF Next

(* The inductive invariant holds throughout, over any number of crashes,   *)
(* terminations and restarts.                                              *)
THEOREM TrustInvariant == Spec => []TrustInv
BY TrustInit, TrustStep, PTL DEF Spec

(* LATEST_SCOUT_VALIDATED only ever names a candidate whose record is      *)
(* verified, whose bytes are written and whose state is clean              *)
(* (_DurableManifestStore.commit and reject,                               *)
(* DurableCheckpointCoordinator.__init__), wherever a crash cuts a handler *)
(* off.                                                                    *)
THEOREM LatestIsValidatedAlways == Spec => []LatestIsValidated
<1>1. TrustInv => LatestIsValidated
  <2> SUFFICES ASSUME TrustInv, latestFile # 0
               PROVE  /\ records[latestFile] = "recovery_verified"
                      /\ artifact[latestFile] # NoArtifact
                      /\ artifact[latestFile].taint = Clean
    BY DEF LatestIsValidated
  <2>1. /\ records[latestFile] = "recovery_verified"
        /\ artifact[latestFile].step \in Steps /\ artifact[latestFile].taint = Clean
    BY DEF TrustInv, ManifestInv, Validated
  <2>2. NoArtifact.step = 0 /\ 0 \notin Steps
    BY TrustAssumption DEF NoArtifact, Steps
  <2> QED BY <2>1, <2>2
<1> QED BY <1>1, TrustInvariant, PTL

(* Between two handlers the durable and the GEMINI candidate are the same  *)
(* generation, and the pending manifest names it (apply_result,            *)
(* _reject_candidate, prepare_recovery, and the restart of both            *)
(* coordinators).                                                          *)
THEOREM RolesMoveTogetherAlways == Spec => []RolesMoveTogether
<1>1. TrustInv => RolesMoveTogether
  <2> SUFFICES ASSUME TrustInv, Idle, catalog.durable
               PROVE  /\ dur # NoCandidate <=> status.candidate # NoStep
                      /\ dur # NoCandidate => artifact[dur.id].step = status.candidate
                      /\ pendingFile = dur.id
    BY DEF RolesMoveTogether
  <2>1. up /\ todo = <<>> /\ (\A what : ~Has(todo, what)) /\ (\A id : ~Saves(todo, id))
    BY NoChanges DEF Idle
  <2> QED BY <2>1 DEF TrustInv, RolesInv, PendingWillBe, RolesWillBe
<1> QED BY <1>1, TrustInvariant, PTL

(* With durable checkpoints, or a dense catalog, every generation that the *)
(* GEMINI status calls verified is on disk and clean (_persist_boundary,   *)
(* flush_for_restart). Without them a candidate can survive the restart of *)
(* the job into another run: the run trust_stale shows it.                *)
THEOREM VerifiedIsCleanAlways ==
  Spec => [](catalog.durable \/ catalog.dense => VerifiedIsClean)
<1>1. TrustInv => (catalog.durable \/ catalog.dense => VerifiedIsClean)
  BY DEF TrustInv, FilesInv, TrustIsClean, Trusted, VerifiedIsClean
<1> QED BY <1>1, TrustInvariant, PTL

-----------------------------------------------------------------------------
(* The job of the theorems: it stops once, and its catalog rotates.        *)
RotatingOnce ==
  /\ MaxLeaves \in {0, 1}
  /\ \A s \in Setups : ~s.dense /\ s.modes \subseteq Modes

(* The files a rank can have before it.                                    *)
Acceptance == <<"capture", "own", "peer", "promote">>
FromOwn == <<"own", "peer", "promote">>
FromPeer == <<"peer", "promote">>
Duties ==
  {<<>>, <<"reject">>, <<"activate">>, <<"clear">>, Acceptance, FromOwn, FromPeer, <<"promote">>}

(* The rank is on its way to a promotion; with its capture made.           *)
Promotes(r) == writes[r] \in {Acceptance, FromOwn, FromPeer, <<"promote">>}
HasCaptured(r) == writes[r] \in {FromOwn, FromPeer, <<"promote">>}

Pointers == TS!Steps \cup {TS!NoStep}
Sides == {TS!NoStatus} \cup [mode : Modes, candidate : Pointers, verified : Pointers]
Copies == {TS!NoShard} \cup [bad : BOOLEAN, life : {0, 1}]

SideTypes ==
  /\ setup \in Setups
  /\ cycle \in 0 .. MaxCycle
  /\ bad \in BOOLEAN
  /\ slots \in [Pair -> SUBSET [step : TS!Steps, bad : BOOLEAN]]
  /\ writes \in [Pair -> Duties]
  /\ \A r \in Pair : Promotes(r) => cycle \in TS!Steps
  /\ on \in [Pair -> BOOLEAN]
  /\ loading \in Modes \cup {"no"}
  /\ home \in [Pair -> TS!Folders]
  /\ shard \in [TS!Folders -> [Pair -> [TS!Steps -> Copies]]]
  /\ side \in [TS!Folders -> [Pair -> Sides]]
  /\ leaves \in {0, 1}

(* The pointers that a rank reads.                                         *)
SideOf(r) == [verified |-> TS!Read(r).verified, candidate |-> TS!Read(r).candidate]

(* A rank that runs from the mirror and has no sidecar there reads what    *)
(* its peer has in the same folder.                                        *)
ReadsPeers(q) ==
  /\ home[q] = TS!Mirror /\ home[TS!Peer(q)] = TS!Mirror
  /\ side[TS!Mirror][q] = TS!NoStatus

(* It does so no longer when the peer's pointers move: it has then written *)
(* a sidecar of its own, or there is nothing yet that could move.          *)
PeerStays(q) ==
  LET p == TS!Peer(q)
  IN  /\ Promotes(p) => Promotes(q) /\ SideOf(p).candidate = TS!NoStep
      /\ loading = "no" /\ writes[q] \in {<<>>, <<"clear">>} => SideOf(p).candidate = TS!NoStep
      /\ loading = "latest" /\ writes[q] = <<>> => side[TS!Mirror][p] = TS!NoStatus

(* A rank runs from its own folder or the mirror, only the mirror has      *)
(* sidecars of its peer, and what it reads of them does not move.          *)
ReadsInv ==
  \A r \in Pair :
    /\ home[r] \in {r, TS!Mirror}
    /\ side[r][TS!Peer(r)] = TS!NoStatus
    /\ ReadsPeers(r) => PeerStays(r)

(* What a rank has of its own shards.                                      *)
Own(r, s) == shard[home[r]][r][s]

-----------------------------------------------------------------------------
(* A pair, and the one folder beside the two of its ranks.                 *)
LEMMA Pairs ==
  /\ TS!Mirror \notin Pair
  /\ \A r \in Pair : TS!Peer(r) \in Pair /\ TS!Peer(r) # r /\ \A q \in Pair : q = r \/ q = TS!Peer(r)
  /\ \E r \in Pair : TRUE
<1>1. PICK a, b \in Pair : a # b /\ Pair = {a, b}
  BY SidecarAssumption DEF TS!PairAssumption
<1>2. \A r \in Pair : \E q \in Pair : q # r
  BY <1>1
<1>3. ASSUME NEW r \in Pair
      PROVE  TS!Peer(r) \in Pair /\ TS!Peer(r) # r
  BY <1>2 DEF TS!Peer
<1> QED BY <1>1, <1>3, SidecarAssumption DEF TS!PairAssumption

(* The steps are the numbers up to a bound; a shard that a folder has not. *)
LEMMA SideNumbers ==
  /\ MaxCycle \in Nat /\ TS!Steps = 1 .. MaxCycle /\ TS!Steps \subseteq Nat /\ TS!NoStep = -1
  /\ TS!NoStep \notin TS!Steps /\ 0 \notin TS!Steps
  /\ Pointers \subseteq -1 .. MaxCycle /\ Pointers \subseteq Int
  /\ TS!NoShard.life = -1 /\ TS!NoShard.bad = FALSE
  /\ \A x \in Copies : x # TS!NoShard => x.life \in {0, 1}
  /\ \A x \in Copies : x.life \in {-1, 0, 1} /\ x.bad \in BOOLEAN /\ (x = TS!NoShard <=> x.life = -1)
<1>1. /\ MaxCycle \in Nat /\ TS!Steps = 1 .. MaxCycle /\ TS!Steps \subseteq Nat /\ TS!NoStep = -1
      /\ TS!NoStep \notin TS!Steps /\ 0 \notin TS!Steps /\ Pointers \subseteq -1 .. MaxCycle
      /\ Pointers \subseteq Int
  BY SidecarAssumption DEF TS!Steps, TS!NoStep, Pointers
<1>2. TS!NoShard.life = -1 /\ TS!NoShard.bad = FALSE
  BY DEF TS!NoShard
<1>3. ASSUME NEW x \in Copies
      PROVE  /\ x.life \in {-1, 0, 1} /\ x.bad \in BOOLEAN
             /\ x # TS!NoShard => x.life \in {0, 1}
             /\ x = TS!NoShard <=> x.life = -1
  <2>1. CASE x = TS!NoShard
    BY <1>2, <2>1
  <2>2. CASE x \in [bad : BOOLEAN, life : {0, 1}]
    BY <1>2, <2>2
  <2> QED BY <2>1, <2>2 DEF Copies
<1> QED BY <1>1, <1>2, <1>3

(* A rank does the first of the files it has before it (one iteration of   *)
(* _persist_boundary, reject_candidate or load).                           *)
LEMMA Duty ==
  ASSUME NEW r \in Pair, NEW what, TS!Does(r, what), writes \in [Pair -> Duties]
  PROVE  /\ on[r] /\ writes' \in [Pair -> Duties]
         /\ \A q \in Pair : q # r => writes'[q] = writes[q]
         /\ \/ what = "capture" /\ writes[r] = Acceptance /\ writes'[r] = FromOwn
            \/ what = "own" /\ writes[r] = FromOwn /\ writes'[r] = FromPeer
            \/ what = "peer" /\ writes[r] = FromPeer /\ writes'[r] = <<"promote">>
            \/ /\ what \in {"promote", "reject", "activate", "clear"}
               /\ writes[r] = <<what>> /\ writes'[r] = <<>>
<1>1. /\ on[r] /\ writes[r] # <<>> /\ Head(writes[r]) = what
      /\ writes' = [writes EXCEPT ![r] = Tail(writes[r])]
  BY DEF TS!Does
<1>2. \A a : Head(<<a>>) = a /\ Tail(<<a>>) = <<>>
  OBVIOUS
<1>3. \A a, b : Head(<<a, b>>) = a /\ Tail(<<a, b>>) = <<b>>
  OBVIOUS
<1>4. \A a, b, c : Head(<<a, b, c>>) = a /\ Tail(<<a, b, c>>) = <<b, c>>
  OBVIOUS
<1>41. \A a, b, c, d : Head(<<a, b, c, d>>) = a /\ Tail(<<a, b, c, d>>) = <<b, c, d>>
  OBVIOUS
<1>5. writes[r] \in Duties /\ writes'[r] = Tail(writes[r])
  BY <1>1
<1>6. /\ \/ what = "capture" /\ writes[r] = Acceptance /\ Tail(writes[r]) = FromOwn
         \/ what = "own" /\ writes[r] = FromOwn /\ Tail(writes[r]) = FromPeer
         \/ what = "peer" /\ writes[r] = FromPeer /\ Tail(writes[r]) = <<"promote">>
         \/ /\ what \in {"promote", "reject", "activate", "clear"}
            /\ writes[r] = <<what>> /\ Tail(writes[r]) = <<>>
  <2>1. CASE \E a \in {"promote", "reject", "activate", "clear"} : writes[r] = <<a>>
    BY <1>1, <1>2, <2>1
  <2>2. CASE writes[r] = FromPeer
    BY <1>1, <1>3, <2>2 DEF FromPeer
  <2>3. CASE writes[r] = FromOwn
    BY <1>1, <1>4, <2>3 DEF FromOwn, FromPeer
  <2>4. CASE writes[r] = Acceptance
    BY <1>1, <1>41, <2>4 DEF Acceptance, FromOwn
  <2> QED BY <1>1, <1>5, <2>1, <2>2, <2>3, <2>4 DEF Duties
<1>7. Tail(writes[r]) \in Duties
  BY <1>6 DEF Duties
<1> QED BY <1>1, <1>6, <1>7

(* The kinds of duty are distinct.                                         *)
LEMMA DutiesDiffer ==
  /\ <<>> # Acceptance /\ <<>> # FromOwn /\ <<>> # FromPeer
  /\ \A a : <<a>> # <<>> /\ <<a>> # Acceptance /\ <<a>> # FromOwn /\ <<a>> # FromPeer
  /\ Acceptance # FromOwn /\ Acceptance # FromPeer /\ FromOwn # FromPeer
  /\ \A a, b : <<a>> = <<b>> => a = b
<1>1. /\ \A a, b, c, d : Len(<<a, b, c, d>>) = 4
      /\ \A a, b, c : Len(<<a, b, c>>) = 3 /\ Len(<<a, b>>) = 2 /\ Len(<<a>>) = 1 /\ Len(<<>>) = 0
  OBVIOUS
<1>2. \A a : <<a>>[1] = a
  OBVIOUS
<1> QED BY <1>1, <1>2 DEF Acceptance, FromOwn, FromPeer

(* Every sidecar has pointers to steps.                                    *)
LEMMA SidePointers ==
  ASSUME SideTypes, NEW f \in TS!Folders, NEW q \in Pair
  PROVE  /\ side[f][q] \in Sides
         /\ side[f][q].verified \in Pointers /\ side[f][q].candidate \in Pointers
         /\ side[f][q] = TS!NoStatus => side[f][q].verified = TS!NoStep /\ side[f][q].candidate = TS!NoStep
<1>1. side[f][q] \in Sides
  BY DEF SideTypes
<1>2. TS!NoStatus.verified = TS!NoStep /\ TS!NoStatus.candidate = TS!NoStep
  BY DEF TS!NoStatus
<1>3. CASE side[f][q] = TS!NoStatus
  BY <1>1, <1>2, <1>3 DEF Pointers
<1>4. CASE side[f][q] \in [mode : Modes, candidate : Pointers, verified : Pointers]
  BY <1>1, <1>2, <1>4
<1> QED BY <1>1, <1>3, <1>4 DEF Sides

(* CheckpointStatusStore.read: what a rank reads, of its own sidecar or of *)
(* its peer's.                                                             *)
LEMMA Fallbacks ==
  /\ TS!NoStatus.verified = TS!NoStep /\ TS!NoStatus.candidate = TS!NoStep
  /\ TS!NewStatus = [mode |-> "latest", candidate |-> TS!NoStep, verified |-> TS!NoStep]
  /\ TS!Fallback(TS!NoStatus) = TS!NewStatus
  /\ \A other : other # TS!NoStatus =>
       TS!Fallback(other) = [mode |-> "recovery_verified", candidate |-> TS!NoStep, verified |-> other.verified]
  /\ \A other : TS!Fallback(other).verified = other.verified /\ TS!Fallback(other).candidate = TS!NoStep
<1>1. TS!NoStatus = [mode |-> "none", candidate |-> TS!NoStep, verified |-> TS!NoStep]
  BY DEF TS!NoStatus
<1>2. TS!NewStatus = [mode |-> "latest", candidate |-> TS!NoStep, verified |-> TS!NoStep]
  BY DEF TS!NewStatus, TS!NoStatus
<1>3. \A other : other # TS!NoStatus =>
        TS!Fallback(other) = [mode |-> "recovery_verified", candidate |-> TS!NoStep, verified |-> other.verified]
  BY DEF TS!Fallback
<1>4. TS!Fallback(TS!NoStatus) = TS!NewStatus
  BY DEF TS!Fallback
<1>5. ASSUME NEW other
      PROVE  TS!Fallback(other).verified = other.verified /\ TS!Fallback(other).candidate = TS!NoStep
  <2>1. CASE other = TS!NoStatus
    BY <1>1, <1>2, <1>4, <2>1
  <2>2. CASE other # TS!NoStatus
    BY <1>3, <2>2
  <2> QED BY <2>1, <2>2
<1> QED BY <1>1, <1>2, <1>3, <1>4, <1>5

LEMMA Reading ==
  ASSUME SideTypes, NEW r \in Pair
  PROVE  /\ home[r] \in TS!Folders
         /\ TS!Read(r) \in Sides /\ TS!Read(r) # TS!NoStatus
         /\ TS!Read(r).verified = SideOf(r).verified
         /\ TS!Read(r).candidate = SideOf(r).candidate
         /\ SideOf(r).verified \in Pointers /\ SideOf(r).candidate \in Pointers
<1>1. home[r] \in TS!Folders /\ TS!Peer(r) \in Pair
  BY Pairs DEF SideTypes
<1>2. side[home[r]][r] \in Sides /\ side[home[r]][TS!Peer(r)].verified \in Pointers
  BY <1>1, SidePointers
<1>3. SideOf(r).verified = TS!Read(r).verified /\ SideOf(r).candidate = TS!Read(r).candidate
  BY DEF SideOf
<1>4. /\ TS!Read(r) \in [mode : Modes, candidate : Pointers, verified : Pointers]
  <2>1. CASE side[home[r]][r] # TS!NoStatus
    BY <1>2, <2>1 DEF TS!Read, Sides
  <2>2. CASE side[home[r]][r] = TS!NoStatus
    <3>1. TS!Read(r) = TS!Fallback(side[home[r]][TS!Peer(r)])
      BY <2>2 DEF TS!Read
    <3>2. TS!NoStep \in Pointers /\ "latest" \in Modes /\ "recovery_verified" \in Modes
      BY DEF Pointers, Modes
    <3>3. CASE side[home[r]][TS!Peer(r)] = TS!NoStatus
      BY <3>1, <3>2, <3>3, Fallbacks
    <3>4. CASE side[home[r]][TS!Peer(r)] # TS!NoStatus
      BY <1>2, <3>1, <3>2, <3>4, Fallbacks
    <3> QED BY <3>3, <3>4
  <2> QED BY <2>1, <2>2
<1>5. TS!Read(r).mode \in Modes /\ TS!NoStatus.mode = "none" /\ "none" \notin Modes
  BY <1>4 DEF TS!NoStatus, Modes
<1> QED BY <1>1, <1>3, <1>4, <1>5 DEF Sides

(* A rank in its own folder has the pointers of its own sidecar.           *)
LEMMA AtHome ==
  ASSUME ReadsInv, NEW r \in Pair, home[r] = r
  PROVE  SideOf(r).verified = side[r][r].verified /\ SideOf(r).candidate = side[r][r].candidate
<1>1. side[r][TS!Peer(r)] = TS!NoStatus
  BY DEF ReadsInv
<1>2. SideOf(r).verified = TS!Read(r).verified /\ SideOf(r).candidate = TS!Read(r).candidate
  BY DEF SideOf
<1>3. CASE side[r][r] # TS!NoStatus
  BY <1>2, <1>3 DEF TS!Read
<1>4. CASE side[r][r] = TS!NoStatus
  <2>1. TS!Read(r) = TS!NewStatus
    BY <1>1, <1>4, Fallbacks DEF TS!Read
  <2> QED BY <1>2, <1>4, <2>1, Fallbacks
<1> QED BY <1>3, <1>4

(* The same after a step.                                                  *)
LEMMA AtHomeLater ==
  (ReadsInv =>
     \A r \in Pair : home[r] = r =>
       SideOf(r).verified = side[r][r].verified /\ SideOf(r).candidate = side[r][r].candidate)'
<1>1. ReadsInv =>
        \A r \in Pair : home[r] = r =>
          SideOf(r).verified = side[r][r].verified /\ SideOf(r).candidate = side[r][r].candidate
  BY AtHome
<1> QED BY <1>1, PTL

(* What a rank reads depends on the sidecars of its folder only.           *)
LEMMA SameReading ==
  ASSUME NEW r \in Pair, home'[r] = home[r],
         side'[home[r]][r] = side[home[r]][r],
         side'[home[r]][TS!Peer(r)] = side[home[r]][TS!Peer(r)]
  PROVE  SideOf(r)' = SideOf(r)
BY DEF SideOf, TS!Read

(* The new pointers of a rank that writes its sidecar (_persist_boundary,  *)
(* reject_candidate, _activate_recovery_mode, clear_candidate).            *)
Turned(r, what) ==
  LET old == SideOf(r)
      new == SideOf(r)'
  IN  /\ what = "promote" =>
           /\ new.verified = (IF old.candidate # TS!NoStep THEN old.candidate ELSE old.verified)
           /\ new.candidate = cycle
      /\ what = "reject" => new.verified = old.verified /\ new.candidate = TS!NoStep
      /\ what = "activate" =>
           /\ new.verified = old.verified
           /\ new.candidate = (IF loading = "recovery_verified" THEN TS!NoStep ELSE old.candidate)
      /\ what = "clear" => new.verified = old.verified /\ new.candidate = TS!NoStep

LEMMA Turning ==
  ASSUME SideTypes, ReadsInv, RotatingOnce, NEW r \in Pair, TS!WriteStatus(r), home' = home,
         loading' = loading,
         loading = "no" => writes[r] # <<"activate">>,
         loading # "no" => writes[r] \in {<<"activate">>, <<>>}
  PROVE  /\ slots' = slots /\ shard' = shard
         /\ \A f \in TS!Folders, q \in Pair : ~(f = home[r] /\ q = r) => side'[f][q] = side[f][q]
         /\ side' \in [TS!Folders -> [Pair -> Sides]]
         /\ \A q \in Pair : q # r => SideOf(q)' = SideOf(q)
         /\ ReadsInv'
         /\ \E what \in {"promote", "reject", "activate", "clear"} :
              TS!Does(r, what) /\ Turned(r, what)
<1>1. /\ slots' = slots /\ shard' = shard
      /\ TS!Read(r) \in Sides /\ TS!Read(r) # TS!NoStatus /\ home[r] \in TS!Folders
      /\ TS!Read(r).verified = SideOf(r).verified
      /\ TS!Read(r).candidate = SideOf(r).candidate
      /\ SideOf(r).verified \in Pointers /\ SideOf(r).candidate \in Pointers
  BY Reading DEF TS!WriteStatus
<1>2. TS!Read(r) \in [mode : Modes, candidate : Pointers, verified : Pointers]
  BY <1>1 DEF Sides
<1>3. ~ setup.dense
  BY DEF RotatingOnce, SideTypes
<1>4. side \in [TS!Folders -> [Pair -> Sides]] /\ writes \in [Pair -> Duties]
  BY DEF SideTypes
<1> DEFINE Known(st, what) ==
             /\ st \in [mode : Modes, candidate : Pointers, verified : Pointers]
             /\ what = "promote" =>
                  /\ st.verified = (IF SideOf(r).candidate # TS!NoStep
                                    THEN SideOf(r).candidate ELSE SideOf(r).verified)
                  /\ st.candidate = cycle
             /\ what = "reject" => st.verified = SideOf(r).verified /\ st.candidate = TS!NoStep
             /\ what = "activate" =>
                  /\ st.verified = SideOf(r).verified
                  /\ st.candidate = (IF loading = "recovery_verified"
                                     THEN TS!NoStep ELSE SideOf(r).candidate)
             /\ what = "clear" => st.verified = SideOf(r).verified /\ st.candidate = TS!NoStep
<1>5. \E what \in {"promote", "reject", "activate", "clear"} : \E st :
        /\ TS!Does(r, what) /\ Known(st, what)
        /\ TS!Updated(r, st) \/ TS!Written(r, st)
        /\ what \in {"promote", "reject"} => TS!Written(r, st)
        /\ what \in {"activate", "clear"} => TS!Updated(r, st)
        /\ what = "activate" => st.mode = loading /\ st = TS!WithMode(TS!Read(r), loading)
  <2>1. CASE TS!Does(r, "promote") /\ TS!Written(r, TS!Promoted(TS!Read(r)))
    <3>1. cycle \in Pointers
      <4>1. writes[r] = <<"promote">>
        BY <1>4, <2>1, Duty
      <4> QED BY <4>1 DEF SideTypes, Promotes, Pointers
    <3>2. Known(TS!Promoted(TS!Read(r)), "promote")
      BY <1>1, <1>2, <1>3, <3>1 DEF TS!Promoted, Modes
    <3> QED BY <2>1, <3>2
  <2>2. CASE TS!Does(r, "reject") /\ TS!Written(r, TS!WithMode(TS!Read(r), "recovery_verified"))
    <3>1. Known(TS!WithMode(TS!Read(r), "recovery_verified"), "reject")
      BY <1>1, <1>2 DEF TS!WithMode, Modes, Pointers
    <3> QED BY <2>2, <3>1
  <2>3. CASE TS!Does(r, "activate") /\ TS!Updated(r, TS!WithMode(TS!Read(r), loading))
    <3>1. loading \in Modes
      <4>1. writes[r] = <<"activate">>
        BY <1>4, <2>3, Duty
      <4> QED BY <4>1 DEF SideTypes
    <3>2. Known(TS!WithMode(TS!Read(r), loading), "activate")
      BY <1>1, <1>2, <3>1 DEF TS!WithMode, Modes, Pointers
    <3>3. TS!WithMode(TS!Read(r), loading).mode = loading
      BY <1>2 DEF TS!WithMode
    <3> QED BY <2>3, <3>2, <3>3
  <2>4. CASE TS!Does(r, "clear") /\ TS!Updated(r, [TS!Read(r) EXCEPT !.candidate = TS!NoStep])
    <3>1. Known([TS!Read(r) EXCEPT !.candidate = TS!NoStep], "clear")
      BY <1>1, <1>2 DEF Pointers
    <3> QED BY <2>4, <3>1
  <2> QED BY <2>1, <2>2, <2>3, <2>4 DEF TS!WriteStatus
<1>51. PICK what \in {"promote", "reject", "activate", "clear"}, st \in Sides :
        /\ TS!Does(r, what) /\ Known(st, what)
        /\ TS!Updated(r, st) \/ TS!Written(r, st)
        /\ what \in {"promote", "reject"} => TS!Written(r, st)
        /\ what \in {"activate", "clear"} => TS!Updated(r, st)
        /\ what = "activate" => st.mode = loading /\ st = TS!WithMode(TS!Read(r), loading)
  BY <1>5 DEF Sides
<1>6. \/ side' = [side EXCEPT ![home[r]][r] = st]
      \/ side' = side /\ st = TS!Read(r)
  BY <1>51 DEF TS!Updated, TS!Written
<1>7. st \in Sides /\ st # TS!NoStatus
  BY <1>51 DEF Known, Sides, TS!NoStatus, Modes
<1>8. /\ \A f \in TS!Folders, q \in Pair : ~(f = home[r] /\ q = r) => side'[f][q] = side[f][q]
      /\ side' \in [TS!Folders -> [Pair -> Sides]]
  BY <1>1, <1>4, <1>6, <1>7
<1>9. SideOf(r)'.verified = st.verified /\ SideOf(r)'.candidate = st.candidate
  <2>1. CASE side' = [side EXCEPT ![home[r]][r] = st]
    <3>1. side'[home[r]][r] = st
      BY <1>1, <1>4, <2>1
    <3>2. TS!Read(r)' = st
      BY <1>7, <3>1 DEF TS!Read
    <3> QED BY <3>2 DEF SideOf
  <2>2. CASE side' = side /\ st = TS!Read(r)
    <3>1. SideOf(r)' = SideOf(r)
      BY <2>2 DEF SideOf, TS!Read
    <3> QED BY <1>1, <2>2, <3>1
  <2> QED BY <1>6, <2>1, <2>2
<1>10. Turned(r, what)
  BY <1>51, <1>9 DEF Turned, Known
<1>11. /\ writes[r] = <<what>> /\ writes'[r] = <<>> /\ ~Promotes(r)'
       /\ \A q \in Pair : q # r => writes'[q] = writes[q] /\ Promotes(q)' = Promotes(q)
       /\ Promotes(r) <=> what = "promote"
  <2>1. /\ writes[r] = <<what>> /\ writes'[r] = <<>>
        /\ \A q \in Pair : q # r => writes'[q] = writes[q]
    BY <1>4, <1>51, Duty
  <2> QED BY <2>1, DutiesDiffer DEF Promotes
<1>12. ASSUME NEW q \in Pair, q # r
       PROVE  SideOf(q)' = SideOf(q)
  <2>1. /\ r = TS!Peer(q) /\ q = TS!Peer(r)
        /\ home[q] \in {q, TS!Mirror} /\ home[r] \in {r, TS!Mirror}
        /\ q # TS!Mirror /\ r # TS!Mirror /\ home[q] \in TS!Folders
    <3>1. r = TS!Peer(q) /\ q = TS!Peer(r) /\ q # TS!Mirror /\ r # TS!Mirror
      BY <1>12, Pairs
    <3> QED BY <3>1, Reading DEF ReadsInv
  <2>2. side'[home[q]][q] = side[home[q]][q]
    BY <1>8, <1>12, <2>1
  <2>3. CASE side'[home[q]][r] = side[home[q]][r]
    BY <2>1, <2>2, <2>3, SameReading
  <2>4. CASE side'[home[q]][r] # side[home[q]][r]
    <3>1. home[q] = home[r]
      BY <1>8, <2>1, <2>4
    <3>2. home[q] = TS!Mirror /\ home[r] = TS!Mirror
      BY <1>12, <2>1, <3>1
    <3>3. CASE side[TS!Mirror][q] # TS!NoStatus
      <4>1. TS!Read(q) = side[TS!Mirror][q] /\ TS!Read(q)' = side'[TS!Mirror][q]
        BY <2>2, <3>2, <3>3 DEF TS!Read
      <4> QED BY <2>2, <3>2, <4>1 DEF SideOf
    <3>4. CASE side[TS!Mirror][q] = TS!NoStatus
      <4>1. ReadsPeers(q) /\ PeerStays(q)
        BY <2>1, <3>2, <3>4 DEF ReadsPeers, ReadsInv
      <4>2. side'[TS!Mirror][r] = st
        BY <1>1, <1>4, <1>6, <2>4, <3>2
      <4>3. /\ TS!Read(q) = TS!Fallback(side[TS!Mirror][r])
            /\ TS!Read(q)' = TS!Fallback(st)
        BY <2>1, <2>2, <3>2, <3>4, <4>2 DEF TS!Read
      <4>4. st.verified = SideOf(r).verified
        <5>1. what = "promote" => SideOf(r).candidate = TS!NoStep
          BY <1>11, <2>1, <4>1 DEF PeerStays
        <5> QED BY <1>51, <5>1 DEF Known
      <4>5. SideOf(r).verified = side[TS!Mirror][r].verified
        <5>1. CASE side[TS!Mirror][r] # TS!NoStatus
          BY <3>2, <5>1 DEF SideOf, TS!Read
        <5>2. CASE side[TS!Mirror][r] = TS!NoStatus
          <6>1. TS!Read(r) = TS!Fallback(TS!NoStatus)
            BY <2>1, <3>2, <3>4, <5>2 DEF TS!Read
          <6> QED BY <5>2, <6>1, Fallbacks DEF SideOf
        <5> QED BY <5>1, <5>2
      <4>6. TS!Read(q)'.verified = TS!Read(q).verified /\ TS!Read(q)'.candidate = TS!Read(q).candidate
        BY <4>3, <4>4, <4>5, Fallbacks
      <4> QED BY <4>6 DEF SideOf
    <3> QED BY <3>3, <3>4
  <2> QED BY <2>3, <2>4
<1>13. ASSUME NEW q \in Pair, ReadsPeers(q)'
       PROVE  PeerStays(q)'
  <2> DEFINE p == TS!Peer(q)
  <2>1. /\ p \in Pair /\ p # q /\ TS!Peer(p) = q
        /\ TS!Mirror \in TS!Folders /\ (q = r \/ p = r)
    BY Pairs DEF TS!Folders
  <2>2. /\ home[q] = TS!Mirror /\ home[p] = TS!Mirror /\ side'[TS!Mirror][q] = TS!NoStatus
    BY <1>13 DEF ReadsPeers
  <2>3. CASE q = r
    <3>1. side' = side /\ st = TS!Read(r) /\ what \in {"activate", "clear"}
      <4>1. ~(side' = [side EXCEPT ![home[r]][r] = st])
        BY <1>1, <1>4, <1>7, <2>2, <2>3
      <4> QED BY <1>6, <1>51, <4>1 DEF TS!Written
    <3>2. ReadsPeers(q) /\ PeerStays(q)
      <4>1. ReadsPeers(q)
        BY <2>2, <3>1 DEF ReadsPeers
      <4> QED BY <4>1 DEF ReadsInv
    <3>3. SideOf(p)' = SideOf(p) /\ ~Promotes(p)'
      BY <1>11, <1>12, <2>1, <2>3, <3>1, <3>2 DEF PeerStays
    <3>4. loading = "no" => SideOf(p).candidate = TS!NoStep
      <4>1. loading = "no" => writes[q] = <<"clear">>
        BY <1>11, <2>3, <3>1
      <4> QED BY <3>2, <4>1 DEF PeerStays
    <3>5. loading = "latest" => side'[TS!Mirror][p] = TS!NoStatus
      <4> SUFFICES ASSUME loading = "latest", side[TS!Mirror][p] # TS!NoStatus
                   PROVE  FALSE
        BY <3>1
      <4>1. what = "activate"
        BY <1>11, DutiesDiffer
      <4>2. TS!Read(q).mode = "latest"
        BY <1>51, <2>3, <3>1, <4>1
      <4>3. TS!Read(q) = TS!Fallback(side[TS!Mirror][p])
        BY <2>2, <3>1 DEF TS!Read
      <4> QED BY <4>2, <4>3, Fallbacks
    <3> QED BY <3>3, <3>4, <3>5 DEF PeerStays
  <2>4. CASE p = r
    <3>1. ReadsPeers(q) /\ PeerStays(q) /\ side'[TS!Mirror][q] = side[TS!Mirror][q]
      <4>1. side'[TS!Mirror][q] = side[TS!Mirror][q]
        BY <1>8, <2>1, <2>4
      <4> QED BY <2>2, <4>1 DEF ReadsPeers, ReadsInv
    <3>2. ~Promotes(p)' /\ writes'[q] = writes[q]
      BY <1>11, <2>1, <2>4
    <3>3. loading = "no" /\ writes[q] \in {<<>>, <<"clear">>} => SideOf(p)'.candidate = TS!NoStep
      <4> SUFFICES ASSUME loading = "no", writes[q] \in {<<>>, <<"clear">>}
                   PROVE  SideOf(p)'.candidate = TS!NoStep
        OBVIOUS
      <4>1. ~Promotes(q)
        BY DutiesDiffer DEF Promotes
      <4>2. what # "promote" /\ what # "activate"
        BY <1>11, <2>4, <3>1, <4>1 DEF PeerStays
      <4> QED BY <1>10, <2>4, <4>2 DEF Turned
    <3>4. loading = "latest" /\ writes[q] = <<>> => side'[TS!Mirror][p] = TS!NoStatus
      <4> SUFFICES ASSUME loading = "latest", writes[q] = <<>>
                   PROVE  side'[TS!Mirror][p] = TS!NoStatus
        OBVIOUS
      <4>1. side[TS!Mirror][p] = TS!NoStatus
        BY <3>1 DEF PeerStays
      <4>2. what = "activate"
        BY <1>11, DutiesDiffer
      <4>3. TS!Read(p) = TS!NewStatus
        BY <2>1, <2>2, <3>1, <4>1, Fallbacks DEF TS!Read
      <4>4. TS!WithMode(TS!Read(p), "latest") = TS!Read(p)
        <5>1. TS!WithMode(TS!NewStatus, "latest") =
                [TS!NewStatus EXCEPT !.mode = "latest", !.candidate = TS!NewStatus.candidate]
          BY DEF TS!WithMode
        <5>2. [TS!NewStatus EXCEPT !.mode = "latest", !.candidate = TS!NewStatus.candidate] = TS!NewStatus
          BY DEF TS!NewStatus, TS!NoStatus
        <5> QED BY <4>3, <5>1, <5>2
      <4>5. side' = side
        <5>1. st = TS!Read(r) /\ TS!WriteStatus(r)
          BY <1>51, <2>4, <4>2, <4>4
        <5>2. TS!Updated(r, st)
          BY <1>51, <4>2, <5>1
        <5> QED BY <5>1, <5>2 DEF TS!Updated
      <4> QED BY <4>1, <4>5
    <3> QED BY <3>1, <3>2, <3>3, <3>4 DEF PeerStays
  <2> QED BY <2>1, <2>3, <2>4
<1>14. ReadsInv'
  <2> SUFFICES ASSUME NEW q \in Pair
               PROVE  /\ home[q] \in {q, TS!Mirror}
                      /\ side'[q][TS!Peer(q)] = TS!NoStatus
    BY <1>13 DEF ReadsInv
  <2>1. /\ home[q] \in {q, TS!Mirror} /\ side[q][TS!Peer(q)] = TS!NoStatus
        /\ home[r] \in {r, TS!Mirror}
    BY DEF ReadsInv
  <2>2. q # TS!Mirror /\ TS!Peer(q) \in Pair /\ TS!Peer(q) # q /\ q \in TS!Folders
    BY Pairs DEF TS!Folders
  <2> QED BY <1>8, <2>1, <2>2
<1> QED BY <1>1, <1>51, <1>8, <1>10, <1>12, <1>14

-----------------------------------------------------------------------------
(* What is known of a step: shards of it in any folder, captures of it in  *)
(* memory; whether a folder has it for both ranks; whether any of it is    *)
(* corrupt.                                                                *)
Somewhere(s) == s \in TS!Steps /\ \E f \in TS!Folders, q \in Pair : shard[f][q][s] # TS!NoShard
Seen(s) == Somewhere(s) \/ \E q \in Pair : s \in TS!Captures(q)
Whole(f, s) == \A q \in Pair : shard[f][q][s] # TS!NoShard
BadAt(s) ==
  \/ \E f \in TS!Folders, q \in Pair : shard[f][q][s].bad
  \/ \E q \in Pair : \E c \in slots[q] : c.step = s /\ c.bad
MirrorUsed == \E q \in Pair : side[TS!Mirror][q] # TS!NoStatus

(* Before the first stop, 1: every rank runs from its own folder.          *)
FirstShape ==
  /\ loading = "no"
  /\ \A r \in Pair : home[r] = r /\ writes[r] # <<"activate">> /\ writes[r] # <<"clear">>
  /\ \A f \in TS!Folders, q \in Pair, s \in TS!Steps : shard[f][q][s].life # 1
  /\ \A s \in TS!Steps : Seen(s) => s <= cycle
  /\ MirrorUsed => \E r \in Pair : ~on[r]

(* 2: corruption is in the last step that was kept, and verified nowhere.  *)
FirstBad ==
  \A s \in TS!Steps : BadAt(s) =>
    /\ bad
    /\ \A f \in TS!Folders, q \in Pair : side[f][q].verified < s /\ side[f][q].candidate <= s
    /\ \A r \in Pair : Promotes(r) => s = cycle
    /\ \A t \in TS!Steps : Seen(t) => t <= s

(* 3: the generations that a sidecar names are whole in its folder.        *)
FirstRoles ==
  /\ \A f \in TS!Folders, q \in Pair :
       /\ side[f][q].verified < cycle /\ side[f][q].candidate <= cycle
       /\ side[f][q].candidate # TS!NoStep => side[f][q].verified < side[f][q].candidate
       /\ \A s \in TS!Steps : s \in {side[f][q].verified, side[f][q].candidate} => Whole(f, s)
  /\ \A r \in Pair : Promotes(r) => side[r][r].candidate < cycle

(* 4: the ranks have the same generations but for the one in progress.     *)
FirstFiles ==
  /\ \A s \in TS!Steps : s < cycle /\ Seen(s) =>
       (\A r \in Pair : Whole(r, s)) /\ (MirrorUsed => Whole(TS!Mirror, s))
  /\ \A r \in Pair :
       /\ writes[r] = <<"reject">> => ~Seen(cycle) /\ \A q \in Pair : ~Promotes(q)
       /\ on[r] /\ writes[r] = <<>> /\ (Seen(cycle) \/ \E q \in Pair : Promotes(q)) => Whole(r, cycle)
       /\ writes[r] = <<"promote">> => Whole(r, cycle)
       /\ writes[r] = FromPeer => shard[r][r][cycle] # TS!NoShard
       /\ HasCaptured(r) => cycle \in TS!Captures(r)

FirstInv == FirstShape /\ FirstBad /\ FirstRoles /\ FirstFiles

(* No file and no capture is new, or just those of the current boundary.   *)
Grown ==
  /\ \A s \in TS!Steps : Seen(s)' => Seen(s) \/ (s = cycle /\ \E r \in Pair : Promotes(r))
  /\ \A s \in TS!Steps : BadAt(s)' => BadAt(s) \/ (s = cycle /\ bad /\ \E r \in Pair : Promotes(r))
  /\ \A f \in TS!Folders, q \in Pair, s \in TS!Steps :
       /\ shard'[f][q][s].life # 1
       /\ shard[f][q][s] # TS!NoShard => shard'[f][q][s] # TS!NoShard

LEMMA GrownWhole ==
  ASSUME Grown
  PROVE  \A f \in TS!Folders, s \in TS!Steps : Whole(f, s) => Whole(f, s)'
BY DEF Grown, Whole

LEMMA SameFiles ==
  ASSUME shard' = shard, slots' = slots
  PROVE  /\ \A s : (Seen(s)' <=> Seen(s)) /\ (BadAt(s)' <=> BadAt(s))
         /\ \A f, s : Whole(f, s)' <=> Whole(f, s)
         /\ \A q : TS!Captures(q)' = TS!Captures(q)
         /\ FirstShape => Grown
<1>1. \A q : TS!Captures(q)' = TS!Captures(q)
  BY DEF TS!Captures
<1>2. \A s : (Seen(s)' <=> Seen(s)) /\ (BadAt(s)' <=> BadAt(s))
  BY <1>1 DEF Seen, Somewhere, BadAt
<1>3. \A f, s : Whole(f, s)' <=> Whole(f, s)
  BY DEF Whole
<1> QED BY <1>1, <1>2, <1>3 DEF Grown, FirstShape

(* A new capture (save).                                                   *)
LEMMA Capturing ==
  ASSUME SideTypes, NEW r \in Pair, TS!Capture(r)
  PROVE  /\ Promotes(r) /\ cycle \in TS!Steps /\ shard' = shard /\ side' = side
         /\ slots' \in [Pair -> SUBSET [step : TS!Steps, bad : BOOLEAN]]
         /\ \A q \in Pair : q # r => slots'[q] = slots[q]
         /\ \A c \in slots'[r] : c \in slots[r] \/ c = [step |-> cycle, bad |-> bad]
         /\ \A q \in Pair : q # r => TS!Captures(q)' = TS!Captures(q)
         /\ cycle \in TS!Captures(r)' /\ \A s \in TS!Captures(r)' : s \in TS!Captures(r) \/ s = cycle
<1>1. /\ writes[r] = Acceptance /\ shard' = shard /\ side' = side
  <2>1. TS!Does(r, "capture") /\ writes \in [Pair -> Duties] /\ UNCHANGED TS!files
    BY DEF TS!Capture, SideTypes
  <2>2. writes[r] = Acceptance
    BY <2>1, Duty
  <2> QED BY <2>1, <2>2 DEF TS!files
<1>2. PICK kept \in SUBSET slots[r] :
        slots' = [slots EXCEPT ![r] = kept \cup {[step |-> cycle, bad |-> bad]}]
  BY DEF TS!Capture
<1>3. Promotes(r) /\ cycle \in TS!Steps
  BY <1>1 DEF Promotes, SideTypes
<1>4. /\ slots \in [Pair -> SUBSET [step : TS!Steps, bad : BOOLEAN]] /\ bad \in BOOLEAN
  BY DEF SideTypes
<1>5. /\ slots' \in [Pair -> SUBSET [step : TS!Steps, bad : BOOLEAN]]
      /\ slots'[r] = kept \cup {[step |-> cycle, bad |-> bad]}
      /\ \A q \in Pair : q # r => slots'[q] = slots[q]
  BY <1>2, <1>3, <1>4
<1>6. /\ \A q \in Pair : q # r => TS!Captures(q)' = TS!Captures(q)
      /\ cycle \in TS!Captures(r)' /\ \A s \in TS!Captures(r)' : s \in TS!Captures(r) \/ s = cycle
  <2>1. /\ TS!Captures(r)' = {c.step : c \in slots'[r]}
        /\ \A q \in Pair : TS!Captures(q) = {c.step : c \in slots[q]}
    BY DEF TS!Captures
  <2>2. \A q \in Pair : q # r => TS!Captures(q)' = TS!Captures(q)
    BY <1>5 DEF TS!Captures
  <2>3. cycle \in TS!Captures(r)'
    BY <1>5, <2>1
  <2>4. ASSUME NEW s \in TS!Captures(r)'
        PROVE  s \in TS!Captures(r) \/ s = cycle
    <3>1. PICK c \in slots'[r] : s = c.step
      BY <2>1, <2>4
    <3>2. c \in slots[r] \/ c = [step |-> cycle, bad |-> bad]
      BY <1>5
    <3>3. c \in slots[r] => s \in TS!Captures(r)
      BY <2>1, <3>1
    <3> QED BY <3>1, <3>2, <3>3
  <2> QED BY <2>2, <2>3, <2>4
<1> QED BY <1>1, <1>3, <1>5, <1>6

LEMMA CaptureGrows ==
  ASSUME SideTypes, FirstInv, NEW r \in Pair, TS!Capture(r)
  PROVE  Grown
<1>1. /\ Promotes(r) /\ shard' = shard
      /\ \A q \in Pair : q # r => slots'[q] = slots[q]
      /\ \A c \in slots'[r] : c \in slots[r] \/ c = [step |-> cycle, bad |-> bad]
      /\ \A q \in Pair : q # r => TS!Captures(q)' = TS!Captures(q)
      /\ cycle \in TS!Captures(r)' /\ \A s \in TS!Captures(r)' : s \in TS!Captures(r) \/ s = cycle
  BY Capturing
<1>2. \A s \in TS!Steps : Seen(s)' => Seen(s) \/ s = cycle
  BY <1>1 DEF Seen, Somewhere
<1>3. ASSUME NEW s \in TS!Steps, BadAt(s)'
      PROVE  BadAt(s) \/ (s = cycle /\ bad)
  <2>1. CASE \E f \in TS!Folders, q \in Pair : shard'[f][q][s].bad
    BY <1>1, <2>1 DEF BadAt
  <2>2. CASE \E q \in Pair : \E c \in slots'[q] : c.step = s /\ c.bad
    <3>1. PICK q \in Pair : \E c \in slots'[q] : c.step = s /\ c.bad
      BY <2>2
    <3>2. PICK c \in slots'[q] : c.step = s /\ c.bad
      BY <3>1
    <3>3. CASE c \in slots[q]
      BY <3>2, <3>3 DEF BadAt
    <3>4. CASE c = [step |-> cycle, bad |-> bad]
      BY <3>2, <3>4
    <3>5. c \in slots[q] \/ c = [step |-> cycle, bad |-> bad]
      BY <1>1
    <3> QED BY <3>3, <3>4, <3>5
  <2> QED BY <1>3, <2>1, <2>2 DEF BadAt
<1>4. \A f, s : Whole(f, s)' <=> Whole(f, s)
  BY <1>1 DEF Whole
<1> QED BY <1>1, <1>2, <1>3, <1>4 DEF Grown, FirstInv, FirstShape

(* A shard of a boundary (_persist_boundary): in any run, the rank's own   *)
(* and then its peer's, in the folder of the rank.                         *)
LEMMA ShardWritten ==
  ASSUME SideTypes, NEW r \in Pair, TS!WriteShard(r)
  PROVE  /\ slots' = slots /\ side' = side /\ cycle \in TS!Steps /\ Promotes(r) /\ HasCaptured(r)
         /\ shard' \in [TS!Folders -> [Pair -> [TS!Steps -> Copies]]]
         /\ \A q \in Pair : q # r => writes'[q] = writes[q]
         /\ TS!Now \in Copies /\ TS!Now.bad = bad /\ TS!Now.life = leaves /\ TS!Now # TS!NoShard
         /\ \E owner \in Pair :
              /\ \/ /\ owner = r /\ writes[r] = FromOwn /\ writes'[r] = FromPeer
                    /\ \A q \in Pair : cycle \in TS!Captures(q)
                 \/ owner # r /\ writes[r] = FromPeer /\ writes'[r] = <<"promote">>
              /\ \A f \in TS!Folders, q \in Pair, s \in TS!Steps :
                   shard'[f][q][s] = IF f = home[r] /\ q = owner /\ s = cycle
                                     THEN TS!Now ELSE shard[f][q][s]
<1>1. /\ slots' = slots /\ side' = side /\ writes \in [Pair -> Duties]
      /\ shard \in [TS!Folders -> [Pair -> [TS!Steps -> Copies]]] /\ home[r] \in TS!Folders
      /\ TS!Peer(r) \in Pair /\ TS!Peer(r) # r
  BY Pairs DEF TS!WriteShard, SideTypes
<1>2. PICK owner \in Pair :
        /\ \/ owner = r /\ TS!Does(r, "own") /\ \A q \in Pair : cycle \in TS!Captures(q)
           \/ owner = TS!Peer(r) /\ TS!Does(r, "peer")
        /\ shard' = [shard EXCEPT ![home[r]][owner][cycle] = TS!Now]
  BY <1>1 DEF TS!WriteShard
<1>3. /\ \/ /\ owner = r /\ writes[r] = FromOwn /\ writes'[r] = FromPeer
            /\ \A q \in Pair : cycle \in TS!Captures(q)
         \/ owner # r /\ writes[r] = FromPeer /\ writes'[r] = <<"promote">>
      /\ \A q \in Pair : q # r => writes'[q] = writes[q]
  <2>1. CASE owner = r /\ TS!Does(r, "own") /\ \A q \in Pair : cycle \in TS!Captures(q)
    BY <1>1, <2>1, Duty
  <2>2. CASE owner = TS!Peer(r) /\ TS!Does(r, "peer")
    BY <1>1, <2>2, Duty
  <2> QED BY <1>2, <2>1, <2>2
<1>4. Promotes(r) /\ HasCaptured(r) /\ cycle \in TS!Steps
  BY <1>3 DEF SideTypes, Promotes, HasCaptured
<1>5. TS!Now \in Copies /\ TS!Now.bad = bad /\ TS!Now.life = leaves
  BY DEF TS!Now, Copies, SideTypes
<1>6. TS!Now # TS!NoShard
  BY <1>5, SideNumbers DEF SideTypes
<1>7. \A f \in TS!Folders, q \in Pair, s \in TS!Steps :
        shard'[f][q][s] = IF f = home[r] /\ q = owner /\ s = cycle THEN TS!Now ELSE shard[f][q][s]
  BY <1>1, <1>2, <1>4
<1>8. shard' \in [TS!Folders -> [Pair -> [TS!Steps -> Copies]]]
  BY <1>1, <1>2, <1>4, <1>5
<1> QED BY <1>1, <1>3, <1>4, <1>5, <1>6, <1>7, <1>8

LEMMA ShardGrows ==
  ASSUME SideTypes, FirstInv, leaves = 0, NEW r \in Pair, TS!WriteShard(r), cycle' = cycle
  PROVE  /\ Grown
         /\ writes'[r] = FromPeer => shard'[r][r][cycle] # TS!NoShard
         /\ writes'[r] = <<"promote">> => Whole(r, cycle)'
<1>1. /\ slots' = slots /\ cycle \in TS!Steps /\ Promotes(r) /\ HasCaptured(r)
      /\ TS!Now.bad = bad /\ TS!Now.life = 0 /\ TS!Now # TS!NoShard
      /\ home[r] = r /\ r \in TS!Folders /\ cycle \in TS!Captures(r)
  BY ShardWritten DEF FirstInv, FirstShape, FirstFiles, TS!Folders
<1>2. PICK owner \in Pair :
        /\ \/ owner = r /\ writes[r] = FromOwn /\ writes'[r] = FromPeer
           \/ owner # r /\ writes[r] = FromPeer /\ writes'[r] = <<"promote">>
        /\ \A f \in TS!Folders, q \in Pair, s \in TS!Steps :
             shard'[f][q][s] = IF f = r /\ q = owner /\ s = cycle THEN TS!Now ELSE shard[f][q][s]
  <2>1. \E owner \in Pair :
          /\ \/ owner = r /\ writes[r] = FromOwn /\ writes'[r] = FromPeer
             \/ owner # r /\ writes[r] = FromPeer /\ writes'[r] = <<"promote">>
          /\ \A f \in TS!Folders, q \in Pair, s \in TS!Steps :
               shard'[f][q][s] = IF f = home[r] /\ q = owner /\ s = cycle THEN TS!Now ELSE shard[f][q][s]
    BY ShardWritten
  <2> QED BY <1>1, <2>1
<1>3. \A q \in Pair : TS!Captures(q)' = TS!Captures(q)
  BY <1>1 DEF TS!Captures
<1>4. \A s \in TS!Steps : Seen(s)' => Seen(s)
  BY <1>1, <1>2, <1>3 DEF Seen, Somewhere
<1>5. \A s \in TS!Steps : BadAt(s)' => BadAt(s) \/ (s = cycle /\ bad)
  BY <1>1, <1>2 DEF BadAt
<1>6. \A f \in TS!Folders, q \in Pair, s \in TS!Steps :
        shard'[f][q][s].life # 1 /\ (shard[f][q][s] # TS!NoShard => shard'[f][q][s] # TS!NoShard)
  BY <1>1, <1>2 DEF FirstInv, FirstShape
<1>7. CASE owner = r /\ writes'[r] = FromPeer
  <2>1. shard'[r][r][cycle] # TS!NoShard
    BY <1>1, <1>2, <1>7
  <2> QED BY <1>1, <1>4, <1>5, <1>6, <1>7, <2>1, DutiesDiffer DEF Grown
<1>8. CASE owner # r /\ writes[r] = FromPeer /\ writes'[r] = <<"promote">>
  <2>1. shard[r][r][cycle] # TS!NoShard
    BY <1>8 DEF FirstInv, FirstFiles
  <2>2. \A q \in Pair : q = r \/ q = owner
    BY <1>8, Pairs
  <2>3. Whole(r, cycle)'
    BY <1>1, <1>2, <2>1, <2>2 DEF Whole
  <2> QED BY <1>1, <1>4, <1>5, <1>6, <1>8, <2>3, DutiesDiffer DEF Grown
<1> QED BY <1>2, <1>7, <1>8

(* What a flush makes of a folder, and of the mirror (flush_for_restart,   *)
(* copy_to): it adds nothing that is not known of the step.                *)
Drawn(x, s) ==
  /\ x \in Copies /\ x.life # 1
  /\ x # TS!NoShard => Seen(s)
  /\ x.bad => BadAt(s)

LEMMA FlushDraws ==
  ASSUME SideTypes, FirstInv, leaves = 0, NEW r \in Pair, NEW some \in SUBSET TS!Held(r),
         NEW q \in Pair, NEW s \in TS!Steps
  PROVE  /\ Drawn(TS!Flushed(r, some)[q][s], s)
         /\ shard[r][q][s] # TS!NoShard => TS!Flushed(r, some)[q][s] # TS!NoShard
<1>1. home[r] = r /\ r \in TS!Folders
  BY DEF FirstInv, FirstShape, TS!Folders
<1> DEFINE x == [bad |-> \E c \in slots[r] \cap slots[q] : c.step = s /\ c.bad, life |-> 0]
<1>2. TS!Flushed(r, some)[q][s] = IF <<q, s>> \in some THEN x ELSE shard[r][q][s]
  BY <1>1 DEF TS!Flushed
<1>3. Drawn(shard[r][q][s], s)
  <2>1. shard[r][q][s] \in Copies /\ shard[r][q][s].life # 1
    BY <1>1 DEF SideTypes, FirstInv, FirstShape
  <2>2. shard[r][q][s] # TS!NoShard => Seen(s)
    BY <1>1 DEF Seen, Somewhere
  <2>3. shard[r][q][s].bad => BadAt(s)
    BY <1>1 DEF BadAt
  <2> QED BY <2>1, <2>2, <2>3 DEF Drawn
<1>4. ASSUME <<q, s>> \in some
      PROVE  Drawn(x, s) /\ x # TS!NoShard
  <2>1. x.life = 0 /\ (x.bad <=> \E c \in slots[r] \cap slots[q] : c.step = s /\ c.bad)
    OBVIOUS
  <2>2. x \in Copies
    BY DEF Copies
  <2>3. x # TS!NoShard
    BY <2>1, SideNumbers
  <2>4. Seen(s)
    <3>1. \E c \in slots[r] \cap slots[q] : c.step = s
      BY <1>4 DEF TS!Held
    <3>2. s \in TS!Captures(r)
      BY <3>1 DEF TS!Captures
    <3> QED BY <3>2 DEF Seen
  <2>5. x.bad => BadAt(s)
    BY <2>1 DEF BadAt
  <2> QED BY <2>1, <2>2, <2>3, <2>4, <2>5 DEF Drawn
<1> HIDE DEF x
<1> QED BY <1>2, <1>3, <1>4

(* The mirror gets some of what a folder has.                              *)
LEMMA CopyDraws ==
  ASSUME SideTypes, FirstInv, NEW folder, NEW some \in SUBSET TS!Present(folder),
         NEW q \in Pair, NEW s \in TS!Steps, Drawn(folder[q][s], s)
  PROVE  /\ Drawn(TS!Copied(folder, some)[q][s], s)
         /\ shard[TS!Mirror][q][s] # TS!NoShard => TS!Copied(folder, some)[q][s] # TS!NoShard
         /\ some = TS!Present(folder) /\ folder[q][s] # TS!NoShard =>
              TS!Copied(folder, some)[q][s] # TS!NoShard
<1>1. TS!Copied(folder, some)[q][s] =
        IF <<q, s>> \in some THEN folder[q][s] ELSE shard[TS!Mirror][q][s]
  BY DEF TS!Copied
<1>2. TS!Mirror \in TS!Folders
  BY DEF TS!Folders
<1>3. Drawn(shard[TS!Mirror][q][s], s)
  <2>1. shard[TS!Mirror][q][s] \in Copies /\ shard[TS!Mirror][q][s].life # 1
    BY <1>2 DEF SideTypes, FirstInv, FirstShape
  <2>2. shard[TS!Mirror][q][s] # TS!NoShard => Seen(s)
    BY <1>2 DEF Seen, Somewhere
  <2>3. shard[TS!Mirror][q][s].bad => BadAt(s)
    BY <1>2 DEF BadAt
  <2> QED BY <2>1, <2>2, <2>3 DEF Drawn
<1>4. <<q, s>> \in TS!Present(folder) <=> folder[q][s] # TS!NoShard
  BY DEF TS!Present
<1> QED BY <1>1, <1>3, <1>4

LEMMA FilesGrow ==
  ASSUME SideTypes, FirstInv, leaves = 0, slots' = slots,
         \A f \in TS!Folders, q \in Pair, s \in TS!Steps :
           /\ shard'[f][q][s] = shard[f][q][s] \/ Drawn(shard'[f][q][s], s)
           /\ shard[f][q][s] # TS!NoShard => shard'[f][q][s] # TS!NoShard
  PROVE  Grown
<1>1. \A f \in TS!Folders, q \in Pair, s \in TS!Steps :
        /\ shard'[f][q][s] # TS!NoShard => Seen(s)
        /\ shard'[f][q][s].bad => BadAt(s)
        /\ shard'[f][q][s].life # 1
  <2> TAKE f \in TS!Folders, q \in Pair, s \in TS!Steps
  <2>1. CASE shard'[f][q][s] = shard[f][q][s]
    BY <2>1 DEF Seen, Somewhere, BadAt, FirstInv, FirstShape
  <2>2. CASE Drawn(shard'[f][q][s], s)
    BY <2>2 DEF Drawn
  <2> QED BY <2>1, <2>2
<1>2. \A q : TS!Captures(q)' = TS!Captures(q)
  BY DEF TS!Captures
<1>3. \A s \in TS!Steps : Seen(s)' => Seen(s)
  BY <1>1, <1>2 DEF Seen, Somewhere
<1>4. \A s \in TS!Steps : BadAt(s)' => BadAt(s)
  BY <1>1 DEF BadAt
<1> QED BY <1>1, <1>3, <1>4 DEF Grown

(* Folders of drawn shards are folders.                                    *)
LEMMA FolderTypes ==
  ASSUME NEW folder, folder = [q \in Pair |-> [s \in TS!Steps |-> folder[q][s]]],
         \A q \in Pair, s \in TS!Steps : Drawn(folder[q][s], s)
  PROVE  folder \in [Pair -> [TS!Steps -> Copies]]
<1>1. \A q \in Pair, s \in TS!Steps : folder[q][s] \in Copies
  BY DEF Drawn
<1> QED BY <1>1

LEMMA FlushGrows ==
  ASSUME SideTypes, FirstInv, leaves = 0, NEW r \in Pair, NEW some \in SUBSET TS!Held(r), slots' = slots,
         shard' = [shard EXCEPT ![home[r]] = TS!Flushed(r, some)]
  PROVE  Grown /\ shard' \in [TS!Folders -> [Pair -> [TS!Steps -> Copies]]]
<1>1. home[r] = r /\ r \in TS!Folders /\ shard \in [TS!Folders -> [Pair -> [TS!Steps -> Copies]]]
  BY DEF FirstInv, FirstShape, TS!Folders, SideTypes
<1>2. \A q \in Pair, s \in TS!Steps :
        /\ Drawn(TS!Flushed(r, some)[q][s], s)
        /\ shard[r][q][s] # TS!NoShard => TS!Flushed(r, some)[q][s] # TS!NoShard
  BY FlushDraws
<1>3. TS!Flushed(r, some) \in [Pair -> [TS!Steps -> Copies]]
  <2>1. TS!Flushed(r, some) = [q \in Pair |-> [s \in TS!Steps |-> TS!Flushed(r, some)[q][s]]]
    BY DEF TS!Flushed
  <2> QED BY <1>2, <2>1, FolderTypes
<1>4. \A f \in TS!Folders : shard'[f] = IF f = r THEN TS!Flushed(r, some) ELSE shard[f]
  BY <1>1
<1>5. Grown
  BY <1>2, <1>4, FilesGrow
<1> QED BY <1>1, <1>3, <1>5

LEMMA MirrorGrows ==
  ASSUME SideTypes, FirstInv, leaves = 0, NEW r \in Pair, slots' = slots,
         NEW folder, folder = TS!Flushed(r, TS!Held(r)), NEW some \in SUBSET TS!Present(folder),
         shard' = [shard EXCEPT ![home[r]] = folder, ![TS!Mirror] = TS!Copied(folder, some)]
  PROVE  /\ Grown /\ shard' \in [TS!Folders -> [Pair -> [TS!Steps -> Copies]]]
         /\ some = TS!Present(folder) => \A s \in TS!Steps : Whole(r, s) => Whole(TS!Mirror, s)'
<1>1. /\ home[r] = r /\ r \in TS!Folders /\ TS!Mirror \in TS!Folders /\ r # TS!Mirror
      /\ shard \in [TS!Folders -> [Pair -> [TS!Steps -> Copies]]]
  BY Pairs DEF FirstInv, FirstShape, TS!Folders, SideTypes
<1>2. \A q \in Pair, s \in TS!Steps :
        /\ Drawn(folder[q][s], s)
        /\ shard[r][q][s] # TS!NoShard => folder[q][s] # TS!NoShard
  BY FlushDraws
<1>3. \A q \in Pair, s \in TS!Steps :
        /\ Drawn(TS!Copied(folder, some)[q][s], s)
        /\ shard[TS!Mirror][q][s] # TS!NoShard => TS!Copied(folder, some)[q][s] # TS!NoShard
        /\ some = TS!Present(folder) /\ folder[q][s] # TS!NoShard =>
             TS!Copied(folder, some)[q][s] # TS!NoShard
  BY <1>2, CopyDraws
<1>4. folder \in [Pair -> [TS!Steps -> Copies]]
  <2>1. folder = [q \in Pair |-> [s \in TS!Steps |-> folder[q][s]]]
    BY DEF TS!Flushed
  <2> QED BY <1>2, <2>1, FolderTypes
<1>5. TS!Copied(folder, some) \in [Pair -> [TS!Steps -> Copies]]
  <2>1. TS!Copied(folder, some) = [q \in Pair |-> [s \in TS!Steps |-> TS!Copied(folder, some)[q][s]]]
    BY DEF TS!Copied
  <2> QED BY <1>3, <2>1, FolderTypes
<1>6. \A f \in TS!Folders :
        shard'[f] = IF f = TS!Mirror THEN TS!Copied(folder, some) ELSE IF f = r THEN folder ELSE shard[f]
  BY <1>1
<1>7. Grown
  <2>1. ASSUME NEW f \in TS!Folders, NEW q \in Pair, NEW s \in TS!Steps
        PROVE  /\ shard'[f][q][s] = shard[f][q][s] \/ Drawn(shard'[f][q][s], s)
               /\ shard[f][q][s] # TS!NoShard => shard'[f][q][s] # TS!NoShard
    BY <1>1, <1>2, <1>3, <1>6
  <2> QED BY <2>1, FilesGrow
<1>8. ASSUME some = TS!Present(folder), NEW s \in TS!Steps, Whole(r, s)
      PROVE  Whole(TS!Mirror, s)'
  BY <1>1, <1>2, <1>3, <1>6, <1>8 DEF Whole
<1>9. shard' \in [TS!Folders -> [Pair -> [TS!Steps -> Copies]]]
  BY <1>1, <1>4, <1>5
<1> QED BY <1>7, <1>8, <1>9

-----------------------------------------------------------------------------
(* A step that changes no sidecar in the first run: a capture, a shard, or *)
(* a rank that leaves with its own folder.                                 *)
LEMMA SeenSteps ==
  ASSUME SideTypes, NEW s, Seen(s)
  PROVE  s \in TS!Steps
<1>1. \A q \in Pair : TS!Captures(q) \subseteq TS!Steps
  BY DEF SideTypes, TS!Captures
<1> QED BY <1>1 DEF Seen, Somewhere

LEMMA BadRemains ==
  ASSUME SideTypes, FirstInv, Grown, bad' = bad, cycle' = cycle,
         \A r \in Pair : Promotes(r)' => Promotes(r),
         \A f \in TS!Folders, q \in Pair :
           /\ side'[f][q].verified < cycle /\ side'[f][q].candidate <= cycle
           /\ \A s \in TS!Steps : BadAt(s) => side'[f][q].verified < s /\ side'[f][q].candidate <= s
  PROVE  FirstBad'
<1>1. ASSUME NEW s \in TS!Steps, BadAt(s)'
      PROVE  /\ bad'
             /\ \A f \in TS!Folders, q \in Pair : side'[f][q].verified < s /\ side'[f][q].candidate <= s
             /\ \A r \in Pair : Promotes(r)' => s = cycle'
             /\ \A t \in TS!Steps : Seen(t)' => t <= s
  <2>1. CASE BadAt(s)
    <3>1. /\ bad /\ (\A r \in Pair : Promotes(r) => s = cycle)
          /\ \A t \in TS!Steps : Seen(t) => t <= s
      BY <2>1 DEF FirstInv, FirstBad
    <3>2. \A t \in TS!Steps : Seen(t)' => t <= s
      BY <3>1, SideNumbers DEF Grown
    <3> QED BY <2>1, <3>1, <3>2
  <2>2. CASE s = cycle /\ bad
    <3>1. \A t \in TS!Steps : Seen(t)' => t <= s
      BY <2>2, SideNumbers DEF Grown, FirstInv, FirstShape
    <3> QED BY <2>2, <3>1
  <2> QED BY <1>1, <2>1, <2>2 DEF Grown
<1> QED BY <1>1 DEF FirstBad

(* What the rank r has come to, or that it has left.                       *)
MovesOn(r) ==
  \/ /\ writes'[r] \in {FromOwn, FromPeer, <<"promote">>} /\ on'[r] = on[r] /\ Promotes(r)
     /\ cycle \in TS!Captures(r)'
     /\ writes'[r] = FromPeer => shard'[r][r][cycle] # TS!NoShard
     /\ writes'[r] = <<"promote">> => Whole(r, cycle)'
  \/ writes'[r] = <<>> /\ ~on'[r] /\ TS!Captures(r)' = TS!Captures(r)

LEMMA FilesRemainApart ==
  ASSUME SideTypes, FirstInv, Grown, cycle' = cycle, NEW r \in Pair, MovesOn(r),
         \A q \in Pair : q # r => writes'[q] = writes[q] /\ on'[q] = on[q] /\ TS!Captures(q)' = TS!Captures(q),
         MirrorUsed' => MirrorUsed \/ \A s \in TS!Steps : Whole(r, s) => Whole(TS!Mirror, s)'
  PROVE  FirstFiles' /\ \A q \in Pair : Promotes(q)' => Promotes(q)
<1>1. \A q \in Pair : Promotes(q)' => Promotes(q)
  <2> SUFFICES ASSUME NEW q \in Pair, Promotes(q)'
               PROVE  Promotes(q)
    OBVIOUS
  <2>1. CASE q # r
    BY <2>1 DEF Promotes
  <2>2. CASE q = r
    BY <2>2, DutiesDiffer DEF MovesOn, Promotes
  <2> QED BY <2>1, <2>2
<1>2. ASSUME NEW s \in TS!Steps, s < cycle, Seen(s)'
      PROVE  (\A q \in Pair : Whole(q, s)') /\ (MirrorUsed' => Whole(TS!Mirror, s)')
  <2>1. Seen(s)
    <3>1. s # cycle
      BY <1>2, SideNumbers
    <3> QED BY <1>2, <3>1 DEF Grown
  <2>2. (\A q \in Pair : Whole(q, s)) /\ (MirrorUsed => Whole(TS!Mirror, s))
    BY <1>2, <2>1 DEF FirstInv, FirstFiles
  <2>3. \A f \in TS!Folders : Whole(f, s) => Whole(f, s)'
    BY GrownWhole
  <2> QED BY <2>2, <2>3 DEF TS!Folders
<1>3. ASSUME NEW q \in Pair, q # r
      PROVE  /\ writes'[q] = <<"reject">> => ~Seen(cycle)' /\ \A p \in Pair : ~Promotes(p)'
             /\ on'[q] /\ writes'[q] = <<>> /\ (Seen(cycle)' \/ \E p \in Pair : Promotes(p)') => Whole(q, cycle)'
             /\ writes'[q] = <<"promote">> => Whole(q, cycle)'
             /\ writes'[q] = FromPeer => shard'[q][q][cycle] # TS!NoShard
             /\ HasCaptured(q)' => cycle \in TS!Captures(q)'
  <2>1. writes'[q] = writes[q] /\ on'[q] = on[q] /\ TS!Captures(q)' = TS!Captures(q)
    BY <1>3
  <2>2. /\ writes[q] = <<"reject">> => ~Seen(cycle) /\ \A p \in Pair : ~Promotes(p)
        /\ on[q] /\ writes[q] = <<>> /\ (Seen(cycle) \/ \E p \in Pair : Promotes(p)) => Whole(q, cycle)
        /\ writes[q] = <<"promote">> => Whole(q, cycle)
        /\ writes[q] = FromPeer => shard[q][q][cycle] # TS!NoShard
        /\ HasCaptured(q) => cycle \in TS!Captures(q)
    BY DEF FirstInv, FirstFiles
  <2>3. cycle \in TS!Steps => (Seen(cycle)' => Seen(cycle) \/ \E p \in Pair : Promotes(p))
    BY DEF Grown
  <2>4. Seen(cycle)' => cycle \in TS!Steps
    <3>1. \A p \in Pair : cycle \in TS!Captures(p)' => cycle \in TS!Steps
      <4> SUFFICES ASSUME NEW p \in Pair, cycle \in TS!Captures(p)'
                   PROVE  cycle \in TS!Steps
        OBVIOUS
      <4>1. CASE p # r
        <5>1. cycle \in TS!Captures(p)
          BY <4>1
        <5> QED BY <5>1 DEF SideTypes, TS!Captures
      <4>2. CASE p = r /\ Promotes(r)
        BY <4>2 DEF SideTypes
      <4>3. CASE p = r /\ ~Promotes(r)
        <5>1. cycle \in TS!Captures(p)
          BY <4>3 DEF MovesOn
        <5> QED BY <5>1 DEF SideTypes, TS!Captures
      <4> QED BY <4>1, <4>2, <4>3
    <3> QED BY <3>1 DEF Seen, Somewhere
  <2>5. cycle \in TS!Steps =>
          /\ Whole(q, cycle) => Whole(q, cycle)'
          /\ shard[q][q][cycle] # TS!NoShard => shard'[q][q][cycle] # TS!NoShard
    <3>1. q \in TS!Folders
      BY DEF TS!Folders
    <3> QED BY <3>1, GrownWhole DEF Grown
  <2>6. \A p \in Pair : Promotes(p) => cycle \in TS!Steps
    BY DEF SideTypes
  <2>7. writes[q] \in {FromPeer, <<"promote">>} => Promotes(q)
    BY DEF Promotes
  <2>8. HasCaptured(q)' => HasCaptured(q)
    BY <2>1 DEF HasCaptured
  <2> QED BY <1>1, <2>1, <2>2, <2>3, <2>4, <2>5, <2>6, <2>7, <2>8
<1>4. /\ writes'[r] = <<"reject">> => ~Seen(cycle)' /\ \A p \in Pair : ~Promotes(p)'
      /\ on'[r] /\ writes'[r] = <<>> /\ (Seen(cycle)' \/ \E p \in Pair : Promotes(p)') => Whole(r, cycle)'
      /\ writes'[r] = <<"promote">> => Whole(r, cycle)'
      /\ writes'[r] = FromPeer => shard'[r][r][cycle] # TS!NoShard
      /\ HasCaptured(r)' => cycle \in TS!Captures(r)'
  BY DutiesDiffer DEF MovesOn, HasCaptured
<1> QED BY <1>1, <1>2, <1>3, <1>4 DEF FirstFiles

(* The sidecars stay, or the rank that leaves has put its own pointers     *)
(* into sidecars of the mirror, with every generation that its folder has. *)
Mirrored(r) ==
  \/ side' = side
  \/ /\ ~on'[r]
     /\ \A f \in TS!Folders, q \in Pair : f # TS!Mirror => side'[f][q] = side[f][q]
     /\ \A q \in Pair :
          \/ side'[TS!Mirror][q] = side[TS!Mirror][q]
          \/ /\ side'[TS!Mirror][q].verified = side[r][r].verified
             /\ side'[TS!Mirror][q].candidate = side[r][r].candidate
     /\ \A s \in TS!Steps : Whole(r, s) => Whole(TS!Mirror, s)'

LEMMA FirstApart ==
  ASSUME SideTypes, ReadsInv, FirstInv, Grown, NEW r \in Pair, MovesOn(r), Mirrored(r),
         bad' = bad, cycle' = cycle, loading' = loading, home' = home,
         \A q \in Pair : q # r => writes'[q] = writes[q] /\ on'[q] = on[q] /\ TS!Captures(q)' = TS!Captures(q)
  PROVE  FirstInv'
<1>1. /\ \A q \in Pair : home[q] = q /\ q \in TS!Folders /\ q # TS!Mirror
      /\ TS!Mirror \in TS!Folders
  BY Pairs DEF FirstInv, FirstShape, TS!Folders
<1>2. FirstFiles' /\ \A q \in Pair : Promotes(q)' => Promotes(q)
  <2>1. MirrorUsed' => MirrorUsed \/ \A s \in TS!Steps : Whole(r, s) => Whole(TS!Mirror, s)'
    BY DEF Mirrored, MirrorUsed
  <2> QED BY <2>1, FilesRemainApart
<1>3. \A f \in TS!Folders, q \in Pair :
        \/ side'[f][q] = side[f][q]
        \/ /\ f = TS!Mirror
           /\ side'[f][q].verified = side[r][r].verified
           /\ side'[f][q].candidate = side[r][r].candidate
           /\ \A s \in TS!Steps : Whole(r, s) => Whole(TS!Mirror, s)'
  BY <1>1 DEF Mirrored
<1>4. \A f \in TS!Folders, q \in Pair :
        /\ side[f][q].verified < cycle /\ side[f][q].candidate <= cycle
        /\ side[f][q].candidate # TS!NoStep => side[f][q].verified < side[f][q].candidate
        /\ \A s \in TS!Steps : s \in {side[f][q].verified, side[f][q].candidate} => Whole(f, s)
        /\ \A s \in TS!Steps : BadAt(s) => side[f][q].verified < s /\ side[f][q].candidate <= s
  BY DEF FirstInv, FirstRoles, FirstBad
<1>5. ASSUME NEW f \in TS!Folders, NEW q \in Pair
      PROVE  /\ side'[f][q].verified < cycle /\ side'[f][q].candidate <= cycle
             /\ side'[f][q].candidate # TS!NoStep => side'[f][q].verified < side'[f][q].candidate
             /\ \A s \in TS!Steps : s \in {side'[f][q].verified, side'[f][q].candidate} => Whole(f, s)'
             /\ \A s \in TS!Steps : BadAt(s) => side'[f][q].verified < s /\ side'[f][q].candidate <= s
  <2>1. CASE side'[f][q] = side[f][q]
    <3>1. \A s \in TS!Steps : Whole(f, s) => Whole(f, s)'
      BY GrownWhole
    <3> QED BY <1>4, <2>1, <3>1
  <2>2. CASE /\ f = TS!Mirror
             /\ side'[f][q].verified = side[r][r].verified
             /\ side'[f][q].candidate = side[r][r].candidate
             /\ \A s \in TS!Steps : Whole(r, s) => Whole(TS!Mirror, s)'
    <3>1. r \in TS!Folders
      BY <1>1
    <3> QED BY <1>4, <2>2, <3>1
  <2> QED BY <1>3, <2>1, <2>2
<1>6. FirstBad'
  BY <1>2, <1>5, BadRemains
<1>7. FirstRoles'
  <2>1. ASSUME NEW q \in Pair, Promotes(q)'
        PROVE  side'[q][q].candidate < cycle
    <3>1. side'[q][q] = side[q][q]
      BY <1>1, <1>3
    <3>2. Promotes(q)
      BY <1>2, <2>1
    <3> QED BY <1>1, <3>1, <3>2 DEF FirstInv, FirstRoles
  <2> QED BY <1>5, <2>1 DEF FirstRoles
<1>8. FirstShape'
  <2>1. \A q \in Pair : writes'[q] # <<"activate">> /\ writes'[q] # <<"clear">>
    <3>1. writes'[r] \in {<<>>, <<"promote">>, FromOwn, FromPeer}
      BY DEF MovesOn
    <3>2. writes'[r] # <<"activate">> /\ writes'[r] # <<"clear">>
      BY <3>1, DutiesDiffer
    <3>3. \A q \in Pair : writes[q] # <<"activate">> /\ writes[q] # <<"clear">>
      BY DEF FirstInv, FirstShape
    <3> QED BY <3>2, <3>3
  <2>2. \A s \in TS!Steps : Seen(s)' => s <= cycle
    BY SideNumbers DEF Grown, FirstInv, FirstShape
  <2>3. MirrorUsed' => \E q \in Pair : ~on'[q]
    <3>1. CASE ~on'[r]
      BY <3>1
    <3>2. CASE side' = side /\ on'[r]
      <4>1. on'[r] = on[r]
        BY <3>2 DEF MovesOn
      <4>2. MirrorUsed' => MirrorUsed
        BY <3>2 DEF MirrorUsed
      <4>3. \A q \in Pair : on'[q] = on[q]
        BY <4>1
      <4> QED BY <4>2, <4>3 DEF FirstInv, FirstShape
    <3> QED BY <3>1, <3>2 DEF Mirrored
  <2> QED BY <1>1, <2>1, <2>2, <2>3 DEF FirstShape, Grown, FirstInv
<1> QED BY <1>2, <1>6, <1>7, <1>8 DEF FirstInv

(* The steps of one rank in the first run: a capture, a shard.             *)
LEMMA FirstCapture ==
  ASSUME SideTypes, ReadsInv, FirstInv, NEW r \in Pair, TS!Capture(r),
         UNCHANGED <<setup, cycle, bad, on, loading, home, leaves>>
  PROVE  FirstInv'
<1>1. TS!Does(r, "capture") /\ writes \in [Pair -> Duties]
  BY DEF TS!Capture, SideTypes
<1>2. /\ writes'[r] = FromOwn
      /\ \A q \in Pair : q # r => writes'[q] = writes[q]
  BY <1>1, Duty
<1>3. /\ Grown /\ Promotes(r) /\ shard' = shard /\ side' = side
      /\ \A q \in Pair : q # r => TS!Captures(q)' = TS!Captures(q)
      /\ cycle \in TS!Captures(r)'
  BY CaptureGrows, Capturing
<1>4. MovesOn(r) /\ Mirrored(r)
  BY <1>2, <1>3, DutiesDiffer DEF MovesOn, Mirrored
<1> QED BY <1>2, <1>3, <1>4, FirstApart

LEMMA FirstShards ==
  ASSUME SideTypes, ReadsInv, FirstInv, leaves = 0, NEW r \in Pair, TS!WriteShard(r),
         UNCHANGED <<setup, cycle, bad, on, loading, home, leaves>>
  PROVE  FirstInv'
<1>1. /\ slots' = slots /\ side' = side /\ Promotes(r) /\ HasCaptured(r)
      /\ \A q \in Pair : q # r => writes'[q] = writes[q]
      /\ writes'[r] \in {FromPeer, <<"promote">>}
  BY ShardWritten
<1>2. /\ Grown
      /\ writes'[r] = FromPeer => shard'[r][r][cycle] # TS!NoShard
      /\ writes'[r] = <<"promote">> => Whole(r, cycle)'
  BY ShardGrows
<1>3. \A q : TS!Captures(q)' = TS!Captures(q)
  BY <1>1 DEF TS!Captures
<1>4. cycle \in TS!Captures(r)'
  BY <1>1, <1>3 DEF FirstInv, FirstFiles
<1>5. MovesOn(r) /\ Mirrored(r)
  BY <1>1, <1>2, <1>4 DEF MovesOn, Mirrored
<1> QED BY <1>1, <1>2, <1>3, <1>5, FirstApart

(* A rank leaves: killed, or with a flush into its folder, or also into    *)
(* the mirror.                                                             *)
LEMMA FirstLeaves ==
  ASSUME SideTypes, ReadsInv, FirstInv, leaves = 0, NEW r \in Pair,
         TS!Killed(r) \/ TS!Terminated(r) \/ TS!TerminatedWithMirror(r)
  PROVE  FirstInv' /\ shard' \in [TS!Folders -> [Pair -> [TS!Steps -> Copies]]]
         /\ side' \in [TS!Folders -> [Pair -> Sides]] /\ ReadsInv'
<1>1. /\ on' = [on EXCEPT ![r] = FALSE] /\ writes' = [writes EXCEPT ![r] = <<>>]
      /\ UNCHANGED <<setup, cycle, bad, slots, loading, home, leaves>>
  BY DEF TS!Killed, TS!Terminated, TS!TerminatedWithMirror, TS!Leave
<1>2. /\ ~on'[r] /\ writes'[r] = <<>>
      /\ \A q \in Pair : q # r => writes'[q] = writes[q] /\ on'[q] = on[q]
  BY <1>1 DEF SideTypes
<1>3. \A q : TS!Captures(q)' = TS!Captures(q)
  BY <1>1 DEF TS!Captures
<1>4. MovesOn(r)
  BY <1>2, <1>3 DEF MovesOn
<1>5. /\ home[r] = r /\ r # TS!Mirror /\ r \in TS!Folders /\ TS!Mirror \in TS!Folders
      /\ \A q \in Pair : home[q] = q /\ q # TS!Mirror /\ q \in TS!Folders
  BY Pairs DEF FirstInv, FirstShape, TS!Folders
<1>6. /\ shard \in [TS!Folders -> [Pair -> [TS!Steps -> Copies]]]
      /\ side \in [TS!Folders -> [Pair -> Sides]]
  BY DEF SideTypes
<1>7. (\A q \in Pair : side'[q][TS!Peer(q)] = side[q][TS!Peer(q)]) => ReadsInv'
  BY <1>1, <1>5 DEF ReadsInv, ReadsPeers
<1>8. CASE TS!Killed(r)
  <2>1. shard' = shard /\ side' = side
    BY <1>8 DEF TS!Killed, TS!files
  <2>2. Grown
    BY <1>1, <2>1, SameFiles DEF FirstInv
  <2>3. Mirrored(r)
    BY <2>1 DEF Mirrored
  <2>4. ReadsInv'
    BY <1>7, <2>1
  <2> QED BY <1>1, <1>2, <1>3, <1>4, <1>6, <2>1, <2>2, <2>3, <2>4, FirstApart
<1>9. CASE TS!Terminated(r)
  <2>1. PICK some \in SUBSET TS!Held(r) : shard' = [shard EXCEPT ![home[r]] = TS!Flushed(r, some)]
    BY <1>9 DEF TS!Terminated, TS!FlushCuts
  <2>2. side' = side
    BY <1>9 DEF TS!Terminated
  <2>3. Grown /\ shard' \in [TS!Folders -> [Pair -> [TS!Steps -> Copies]]]
    BY <1>1, <2>1, FlushGrows
  <2>4. Mirrored(r)
    BY <2>2 DEF Mirrored
  <2>5. ReadsInv'
    BY <1>7, <2>2
  <2> QED BY <1>1, <1>2, <1>3, <1>4, <1>6, <2>2, <2>3, <2>4, <2>5, FirstApart
<1>10. CASE TS!TerminatedWithMirror(r)
  <2> DEFINE folder == TS!Flushed(r, TS!Held(r))
  <2>1. PICK some \in SUBSET TS!Present(folder), named \in SUBSET Pair :
          /\ named # {} => some = TS!Present(folder)
          /\ shard' = [shard EXCEPT ![home[r]] = folder, ![TS!Mirror] = TS!Copied(folder, some)]
          /\ side' = [side EXCEPT ![TS!Mirror] =
                        [q \in Pair |-> IF q \in named THEN TS!Read(r) ELSE side[TS!Mirror][q]]]
    BY <1>5, <1>6, <1>10 DEF TS!TerminatedWithMirror
  <2> HIDE DEF folder
  <2>2. /\ Grown /\ shard' \in [TS!Folders -> [Pair -> [TS!Steps -> Copies]]]
        /\ some = TS!Present(folder) => \A s \in TS!Steps : Whole(r, s) => Whole(TS!Mirror, s)'
    BY <1>1, <2>1, MirrorGrows DEF folder
  <2>3. /\ TS!Read(r) \in Sides
        /\ TS!Read(r).verified = side[r][r].verified
        /\ TS!Read(r).candidate = side[r][r].candidate
    BY <1>5, Reading, AtHome
  <2>4. /\ \A q \in Pair : side'[TS!Mirror][q] = IF q \in named THEN TS!Read(r) ELSE side[TS!Mirror][q]
        /\ \A f \in TS!Folders, q \in Pair : f # TS!Mirror => side'[f][q] = side[f][q]
        /\ side' \in [TS!Folders -> [Pair -> Sides]]
    BY <1>5, <1>6, <2>1, <2>3
  <2>5. Mirrored(r)
    <3>1. CASE named = {}
      <4>1. \A f \in TS!Folders, q \in Pair : side'[f][q] = side[f][q]
        BY <2>4, <3>1
      <4>2. \A f \in TS!Folders : side'[f] = side[f]
        BY <1>6, <2>4, <4>1
      <4>3. side' = side
        BY <1>6, <2>4, <4>2
      <4> QED BY <4>3 DEF Mirrored
    <3>2. CASE named # {}
      BY <1>2, <2>1, <2>2, <2>3, <2>4, <3>2 DEF Mirrored
    <3> QED BY <3>1, <3>2
  <2>6. ReadsInv'
    <3>1. \A q \in Pair : side'[q][TS!Peer(q)] = side[q][TS!Peer(q)]
      BY <1>5, <2>4, Pairs
    <3> QED BY <1>7, <3>1
  <2> QED BY <1>1, <1>2, <1>3, <1>4, <1>6, <2>2, <2>4, <2>5, <2>6, FirstApart
<1> QED BY <1>8, <1>9, <1>10

(* A promotion or a rejection in the first run.                            *)
LEMMA FirstStatus ==
  ASSUME SideTypes, ReadsInv, RotatingOnce, FirstInv, NEW r \in Pair, TS!WriteStatus(r),
         UNCHANGED <<setup, cycle, bad, on, loading, home, leaves>>
  PROVE  FirstInv'
<1>1. /\ \A q \in Pair : home[q] = q /\ q \in TS!Folders /\ q # TS!Mirror
      /\ TS!Mirror \in TS!Folders
      /\ writes \in [Pair -> Duties] /\ writes[r] # <<"activate">> /\ writes[r] # <<"clear">>
      /\ loading = "no"
      /\ SideOf(r).verified = side[r][r].verified /\ SideOf(r).candidate = side[r][r].candidate
  BY Pairs, AtHome DEF FirstInv, FirstShape, TS!Folders, SideTypes
<1>2. /\ slots' = slots /\ shard' = shard
      /\ \A f \in TS!Folders, q \in Pair : ~(f = r /\ q = r) => side'[f][q] = side[f][q]
      /\ side' \in [TS!Folders -> [Pair -> Sides]]
      /\ SideOf(r)'.verified = side'[r][r].verified /\ SideOf(r)'.candidate = side'[r][r].candidate
  <2>1. /\ slots' = slots /\ shard' = shard
        /\ \A f \in TS!Folders, q \in Pair : ~(f = r /\ q = r) => side'[f][q] = side[f][q]
        /\ side' \in [TS!Folders -> [Pair -> Sides]] /\ ReadsInv'
    BY <1>1, Turning
  <2> QED BY <1>1, <2>1, AtHomeLater
<1>3. PICK what \in {"promote", "reject"} : TS!Does(r, what) /\ Turned(r, what)
  <2>1. PICK what \in {"promote", "reject", "activate", "clear"} : TS!Does(r, what) /\ Turned(r, what)
    BY <1>1, Turning
  <2>2. writes[r] = <<what>>
    BY <1>1, <2>1, Duty
  <2> QED BY <1>1, <2>1, <2>2
<1>4. /\ writes[r] = <<what>> /\ writes'[r] = <<>>
      /\ \A q \in Pair : q # r => writes'[q] = writes[q]
  BY <1>1, <1>3, Duty
<1>5. /\ \A s : (Seen(s)' <=> Seen(s)) /\ (BadAt(s)' <=> BadAt(s))
      /\ \A f, s : Whole(f, s)' <=> Whole(f, s)
      /\ \A q : TS!Captures(q)' = TS!Captures(q)
      /\ Grown
  BY <1>2, SameFiles DEF FirstInv
<1>6. \A q \in Pair : Promotes(q)' => Promotes(q) /\ q # r
  BY <1>4, DutiesDiffer DEF Promotes
<1>7. /\ side[r][r].verified < cycle /\ side[r][r].candidate <= cycle
      /\ side[r][r].candidate # TS!NoStep => side[r][r].verified < side[r][r].candidate
      /\ \A s \in TS!Steps : s \in {side[r][r].verified, side[r][r].candidate} => Whole(r, s)
      /\ \A s \in TS!Steps : BadAt(s) => side[r][r].verified < s /\ side[r][r].candidate <= s
      /\ side[r][r].verified \in Pointers /\ side[r][r].candidate \in Pointers
  BY <1>1, SidePointers DEF FirstInv, FirstRoles, FirstBad
<1>8. /\ side'[r][r].verified < cycle /\ side'[r][r].candidate <= cycle
      /\ side'[r][r].candidate # TS!NoStep => side'[r][r].verified < side'[r][r].candidate
      /\ \A s \in TS!Steps : s \in {side'[r][r].verified, side'[r][r].candidate} => Whole(r, s)
      /\ \A s \in TS!Steps : BadAt(s) => side'[r][r].verified < s /\ side'[r][r].candidate <= s
  <2>1. CASE what = "promote"
    <3>1. Promotes(r)
      BY <1>4, <2>1 DEF Promotes
    <3>2. cycle \in TS!Steps /\ side[r][r].candidate < cycle /\ Whole(r, cycle)
      BY <1>1, <1>4, <2>1, <3>1 DEF FirstInv, FirstRoles, FirstFiles, SideTypes
    <3>3. /\ side'[r][r].verified = (IF side[r][r].candidate # TS!NoStep
                                     THEN side[r][r].candidate ELSE side[r][r].verified)
          /\ side'[r][r].candidate = cycle
      BY <1>1, <1>2, <1>3, <2>1 DEF Turned
    <3>4. \A s \in TS!Steps : BadAt(s) => s = cycle
      BY <3>1 DEF FirstInv, FirstBad
    <3>5. cycle \in Nat
      BY <3>2, SideNumbers
    <3> QED BY <1>7, <3>2, <3>3, <3>4, <3>5
  <2>2. CASE what = "reject"
    <3>1. side'[r][r].verified = side[r][r].verified /\ side'[r][r].candidate = TS!NoStep
      BY <1>1, <1>2, <1>3, <2>2 DEF Turned
    <3>2. TS!NoStep = -1 /\ TS!NoStep \notin TS!Steps /\ TS!Steps \subseteq Nat /\ cycle \in Nat
      BY SideNumbers DEF SideTypes
    <3>3. TS!NoStep <= cycle /\ \A s \in TS!Steps : TS!NoStep <= s
      BY <3>2
    <3>4. \A s \in TS!Steps : BadAt(s) => side'[r][r].verified < s /\ side'[r][r].candidate <= s
      BY <1>7, <3>1, <3>3
    <3>5. \A s \in TS!Steps : s \in {side'[r][r].verified, side'[r][r].candidate} => Whole(r, s)
      BY <1>7, <3>1, <3>2
    <3> QED BY <1>7, <3>1, <3>3, <3>4, <3>5
  <2> QED BY <1>3, <2>1, <2>2
<1>9. \A f \in TS!Folders, q \in Pair :
        /\ side'[f][q].verified < cycle /\ side'[f][q].candidate <= cycle
        /\ side'[f][q].candidate # TS!NoStep => side'[f][q].verified < side'[f][q].candidate
        /\ \A s \in TS!Steps : s \in {side'[f][q].verified, side'[f][q].candidate} => Whole(f, s)
        /\ \A s \in TS!Steps : BadAt(s) => side'[f][q].verified < s /\ side'[f][q].candidate <= s
  <2> SUFFICES ASSUME NEW f \in TS!Folders, NEW q \in Pair, ~(f = r /\ q = r)
               PROVE  /\ side[f][q].verified < cycle /\ side[f][q].candidate <= cycle
                      /\ side[f][q].candidate # TS!NoStep => side[f][q].verified < side[f][q].candidate
                      /\ \A s \in TS!Steps : s \in {side[f][q].verified, side[f][q].candidate} => Whole(f, s)
                      /\ \A s \in TS!Steps : BadAt(s) => side[f][q].verified < s /\ side[f][q].candidate <= s
    BY <1>2, <1>8
  <2> QED BY DEF FirstInv, FirstRoles, FirstBad
<1>10. FirstBad'
  BY <1>5, <1>6, <1>9, BadRemains
<1>11. FirstRoles'
  <2>1. \A q \in Pair : Promotes(q)' => side'[q][q].candidate < cycle
    BY <1>1, <1>2, <1>6 DEF FirstInv, FirstRoles
  <2> QED BY <1>5, <1>9, <2>1 DEF FirstRoles
<1>12. MirrorUsed' <=> MirrorUsed
  BY <1>1, <1>2 DEF MirrorUsed
<1>13. FirstShape'
  <2>1. \A q \in Pair : writes'[q] # <<"activate">> /\ writes'[q] # <<"clear">>
    BY <1>4, DutiesDiffer DEF FirstInv, FirstShape
  <2> QED BY <1>1, <1>2, <1>5, <1>12, <2>1 DEF FirstInv, FirstShape
<1>14. FirstFiles'
  <2>1. \A s \in TS!Steps : s < cycle /\ Seen(s)' =>
          (\A q \in Pair : Whole(q, s)') /\ (MirrorUsed' => Whole(TS!Mirror, s)')
    BY <1>5, <1>12 DEF FirstInv, FirstFiles
  <2>2. ASSUME NEW q \in Pair
        PROVE  /\ writes'[q] = <<"reject">> => ~Seen(cycle) /\ \A p \in Pair : ~Promotes(p)'
               /\ on[q] /\ writes'[q] = <<>> /\ (Seen(cycle) \/ \E p \in Pair : Promotes(p)') => Whole(q, cycle)
               /\ writes'[q] = <<"promote">> => Whole(q, cycle)
               /\ writes'[q] = FromPeer => shard[q][q][cycle] # TS!NoShard
               /\ HasCaptured(q)' => cycle \in TS!Captures(q)
    <3>1. /\ writes[q] = <<"reject">> => ~Seen(cycle) /\ \A p \in Pair : ~Promotes(p)
          /\ on[q] /\ writes[q] = <<>> /\ (Seen(cycle) \/ \E p \in Pair : Promotes(p)) => Whole(q, cycle)
          /\ writes[q] = <<"promote">> => Whole(q, cycle)
          /\ writes[q] = FromPeer => shard[q][q][cycle] # TS!NoShard
          /\ HasCaptured(q) => cycle \in TS!Captures(q)
      BY DEF FirstInv, FirstFiles
    <3>2. CASE q # r
      <4>1. writes'[q] = writes[q] /\ (HasCaptured(q)' => HasCaptured(q))
        BY <1>4, <3>2 DEF HasCaptured
      <4> QED BY <1>6, <3>1, <4>1
    <3>3. CASE q = r
      <4>1. writes'[q] = <<>> /\ (writes[q] = <<"promote">> \/ writes[q] = <<"reject">>)
        BY <1>4, <3>3
      <4>2. ~HasCaptured(q)' /\ writes'[q] # FromPeer
        BY <4>1, DutiesDiffer DEF HasCaptured
      <4> QED BY <1>6, <3>1, <4>1, <4>2, DutiesDiffer
    <3> QED BY <3>2, <3>3
  <2> QED BY <1>2, <1>5, <2>1, <2>2 DEF FirstFiles
<1> QED BY <1>10, <1>11, <1>13, <1>14 DEF FirstInv

(* A cycle begins in the first run: every rank is through with the last.   *)
LEMMA FirstCycle ==
  ASSUME SideTypes, ReadsInv, RotatingOnce, FirstInv, TS!Cycle
  PROVE  FirstInv'
<1>1. /\ \A r \in Pair : on[r] /\ writes[r] = <<>>
      /\ cycle \in 0 .. MaxCycle /\ cycle < MaxCycle /\ cycle' = cycle + 1
      /\ UNCHANGED <<setup, slots, on, loading, home, TS!files, leaves>>
      /\ shard' = shard /\ side' = side
  BY DEF TS!Cycle, TS!Running, SideTypes, TS!files
<1>2. cycle \in Nat /\ cycle' \in Nat /\ cycle < cycle' /\ cycle' \in TS!Steps
  BY <1>1, SideNumbers
<1>3. /\ \A s : (Seen(s)' <=> Seen(s)) /\ (BadAt(s)' <=> BadAt(s))
      /\ \A f, s : Whole(f, s)' <=> Whole(f, s)
      /\ Grown
  BY <1>1, SameFiles DEF FirstInv
<1>4. \/ writes' = [r \in Pair |-> <<"reject">>] /\ bad' \in {bad, TRUE}
      \/ writes' = [r \in Pair |-> Acceptance] /\ ~bad
  BY DEF TS!Cycle, TS!Unsafe, TS!Accepted, TS!EachDoes, Acceptance
<1>5. /\ \A r \in Pair : writes'[r] = <<"reject">> \/ writes'[r] = Acceptance
      /\ bad => bad' /\ \A r \in Pair : ~Promotes(r)'
      /\ \A r, q \in Pair : writes'[r] = <<"reject">> => ~Promotes(q)'
  <2>1. CASE writes' = [r \in Pair |-> <<"reject">>] /\ bad' \in {bad, TRUE}
    <3>1. \A r \in Pair : writes'[r] = <<"reject">>
      BY <2>1
    <3>2. \A r \in Pair : ~Promotes(r)'
      BY <3>1, DutiesDiffer DEF Promotes
    <3>3. bad => bad'
      BY <2>1
    <3> QED BY <3>1, <3>2, <3>3
  <2>2. CASE writes' = [r \in Pair |-> Acceptance] /\ ~bad
    <3>1. \A r \in Pair : writes'[r] = Acceptance
      BY <2>2
    <3> QED BY <2>2, <3>1, DutiesDiffer
  <2> QED BY <1>4, <2>1, <2>2
<1>6. ~MirrorUsed /\ ~MirrorUsed'
  BY <1>1 DEF FirstInv, FirstShape, MirrorUsed
<1>7. \A s \in TS!Steps : Seen(s) => s <= cycle
  BY DEF FirstInv, FirstShape
<1>8. ~Seen(cycle')
  BY <1>2, <1>7
<1>9. FirstShape'
  <2>1. \A r \in Pair : writes'[r] # <<"activate">> /\ writes'[r] # <<"clear">>
    BY <1>5, DutiesDiffer
  <2>2. \A s \in TS!Steps : Seen(s)' => s <= cycle'
    <3> SUFFICES ASSUME NEW s \in TS!Steps, Seen(s)
                 PROVE  s <= cycle'
      BY <1>3
    <3> QED BY <1>1, <1>2, <1>7, SideNumbers
  <2> QED BY <1>1, <1>3, <1>6, <2>1, <2>2 DEF FirstInv, FirstShape
<1>10. FirstBad'
  BY <1>1, <1>3, <1>5 DEF FirstInv, FirstBad
<1>11. FirstRoles'
  <2>1. \A f \in TS!Folders, q \in Pair :
          /\ side[f][q].verified < cycle' /\ side[f][q].candidate <= cycle'
          /\ side[f][q].candidate < cycle'
    <3> SUFFICES ASSUME NEW f \in TS!Folders, NEW q \in Pair
                 PROVE  /\ side[f][q].verified < cycle' /\ side[f][q].candidate <= cycle'
                        /\ side[f][q].candidate < cycle'
      OBVIOUS
    <3>1. side[f][q].verified < cycle /\ side[f][q].candidate <= cycle
      BY DEF FirstInv, FirstRoles
    <3>2. side[f][q].verified \in Int /\ side[f][q].candidate \in Int
      <4>1. side[f][q].verified \in Pointers /\ side[f][q].candidate \in Pointers
        BY SidePointers
      <4>2. Pointers \subseteq Int
        BY SideNumbers
      <4> QED BY <4>1, <4>2
    <3> QED BY <1>1, <1>2, <3>1, <3>2
  <2>2. \A r \in Pair : r \in TS!Folders
    BY DEF TS!Folders
  <2> QED BY <1>1, <1>3, <2>1, <2>2 DEF FirstInv, FirstRoles
<1>12. FirstFiles'
  <2>1. ASSUME NEW s \in TS!Steps, s < cycle', Seen(s)
        PROVE  \A r \in Pair : Whole(r, s)
    <3>1. s < cycle \/ s = cycle
      BY <1>1, <1>7, <2>1, SideNumbers
    <3> QED BY <1>1, <2>1, <3>1 DEF FirstInv, FirstFiles
  <2>2. \A r \in Pair : writes'[r] # <<>> /\ writes'[r] # FromPeer /\ ~HasCaptured(r)'
                       /\ writes'[r] # <<"promote">>
    BY <1>5, DutiesDiffer DEF HasCaptured
  <2>3. ~(Seen(cycle)')
    BY <1>3, <1>8
  <2> QED BY <1>3, <1>5, <1>6, <2>1, <2>2, <2>3 DEF FirstFiles
<1> QED BY <1>9, <1>10, <1>11, <1>12 DEF FirstInv

-----------------------------------------------------------------------------
(* After the restart, until the job has loaded: a rank has every           *)
(* generation that its sidecar names, and every older one of its peer.     *)
Covers(r, p) ==
  \A s \in TS!Steps :
    s = p \/ (s <= p /\ \E q \in Pair : Own(q, s) # TS!NoShard) => Own(r, s) # TS!NoShard

LoadInv ==
  /\ leaves = 1 /\ (\A r \in Pair : on[r])
  /\ loading \in Modes /\ cycle = 0 /\ bad = FALSE
  /\ \A r \in Pair : slots[r] = {} /\ writes[r] \in {<<"activate">>, <<>>}
  /\ \A q \in Pair, s \in TS!Steps : Own(q, s).life # 1
  /\ \A q \in Pair, s \in TS!Steps : Own(q, s).bad =>
       /\ \A r \in Pair : SideOf(r).verified < s /\ SideOf(r).candidate <= s
       /\ \A r \in Pair, t \in TS!Steps : Own(r, t) # TS!NoShard => t <= s
  /\ \A r \in Pair :
       /\ Covers(r, SideOf(r).verified) /\ Covers(r, SideOf(r).candidate)
       /\ writes[r] = <<>> /\ loading = "recovery_verified" => SideOf(r).candidate = TS!NoStep
       /\ \A q \in Pair, s \in TS!Steps :
            SideOf(r).verified # TS!NoStep /\ SideOf(q).verified = s => Own(r, s) # TS!NoShard

(* A rank comes back with an empty folder, with its own or with the        *)
(* mirror; it reads no pointers there, or those of a sidecar next to whose *)
(* folder holds every generation older than the last cycle.                *)
Returns(r) ==
  \/ /\ SideOf(r)'.verified = TS!NoStep /\ SideOf(r)'.candidate = TS!NoStep
     /\ \/ \A s \in TS!Steps : Own(r, s)' = TS!NoShard
        \/ \E f \in TS!Folders : \A s \in TS!Steps : Own(r, s)' = shard[f][r][s]
  \/ \E f \in TS!Folders, q \in Pair :
       /\ SideOf(r)'.verified = side[f][q].verified
       /\ SideOf(r)'.candidate \in {side[f][q].candidate, TS!NoStep}
       /\ \A s \in TS!Steps : Own(r, s)' = shard[f][r][s]
       /\ \A s \in TS!Steps : s < cycle /\ Seen(s) => Whole(f, s)

LEMMA RestartReturns ==
  ASSUME SideTypes, ReadsInv, RotatingOnce, FirstInv, leaves = 0,
         NEW mode \in setup.modes, NEW lost \in SUBSET Pair, NEW moved \in SUBSET Pair,
         TS!Restart(mode, lost, moved)
  PROVE  /\ \A r \in Pair : Returns(r)
         /\ ReadsInv' /\ SideTypes'
<1>1. /\ lost \cap moved = {} /\ (moved = {} \/ shard[TS!Mirror] # TS!EmptyFolder)
      /\ on' = [r \in Pair |-> TRUE] /\ leaves' = 1 /\ loading' = mode
      /\ writes' = [r \in Pair |-> <<"activate">>]
      /\ home' = [r \in Pair |-> IF r \in lost THEN r ELSE IF r \in moved THEN TS!Mirror ELSE home[r]]
      /\ shard' = [f \in TS!Folders |-> IF f \in lost THEN TS!EmptyFolder ELSE shard[f]]
      /\ side' = [f \in TS!Folders |-> IF f \in lost THEN [r \in Pair |-> TS!NoStatus] ELSE side[f]]
      /\ slots' = [r \in Pair |-> {}] /\ cycle' = 0 /\ bad' = FALSE /\ setup' = setup
  BY SMTT(30) DEF TS!Restart, TS!EachDoes
<1>2. /\ \A r \in Pair : home[r] = r /\ r \in TS!Folders /\ r # TS!Mirror /\ TS!Peer(r) \in Pair
      /\ TS!Mirror \in TS!Folders /\ TS!Mirror \notin lost
  BY Pairs DEF FirstInv, FirstShape, TS!Folders
<1>3. ASSUME NEW r \in Pair
      PROVE  Returns(r) /\ home'[r] \in {r, TS!Mirror} /\ side'[r][TS!Peer(r)] = TS!NoStatus
  <2>0. side'[r][TS!Peer(r)] = TS!NoStatus
    BY <1>1, <1>2 DEF ReadsInv
  <2> DEFINE f == home'[r]
             p == TS!Peer(r)
  <2>1. /\ side'[f][r] # TS!NoStatus =>
             SideOf(r)'.verified = side'[f][r].verified /\ SideOf(r)'.candidate = side'[f][r].candidate
        /\ side'[f][r] = TS!NoStatus =>
             SideOf(r)'.verified = side'[f][p].verified /\ SideOf(r)'.candidate = TS!NoStep
    BY Fallbacks DEF SideOf, TS!Read
  <2>2. CASE r \in lost
    <3>1. f = r
      BY <1>1, <2>2
    <3>2. side'[r][r] = TS!NoStatus /\ shard'[r] = TS!EmptyFolder
      BY <1>1, <1>2, <2>2
    <3>3. \A s \in TS!Steps : shard'[r][r][s] = TS!NoShard
      BY <3>2 DEF TS!EmptyFolder
    <3>4. SideOf(r)'.verified = TS!NoStep /\ SideOf(r)'.candidate = TS!NoStep
      BY <2>0, <2>1, <3>1, <3>2, Fallbacks
    <3> QED BY <2>0, <3>1, <3>3, <3>4 DEF Returns, Own
  <2>3. CASE r \notin lost
    <3>1. f \in {r, TS!Mirror} /\ f \in TS!Folders /\ f \notin lost
      BY <1>1, <1>2, <2>3
    <3>2. /\ side'[f][r] = side[f][r] /\ side'[f][p] = side[f][p] /\ p \in Pair
          /\ \A s \in TS!Steps : Own(r, s)' = shard[f][r][s]
      BY <1>1, <1>2, <3>1 DEF Own
    <3>3. ASSUME NEW q \in Pair, side[f][q] # TS!NoStatus
          PROVE  \A s \in TS!Steps : s < cycle /\ Seen(s) => Whole(f, s)
      BY <3>1, <3>3 DEF FirstInv, FirstFiles, MirrorUsed
    <3> HIDE DEF f, p
    <3>4. ASSUME NEW q \in Pair, side[f][q] # TS!NoStatus,
                 SideOf(r)'.verified = side[f][q].verified,
                 SideOf(r)'.candidate \in {side[f][q].candidate, TS!NoStep}
          PROVE  Returns(r)
      <4>1. \A s \in TS!Steps : s < cycle /\ Seen(s) => Whole(f, s)
        BY <3>3, <3>4
      <4> QED BY <3>1, <3>2, <3>4, <4>1 DEF Returns
    <3>5. ASSUME side[f][r] # TS!NoStatus
          PROVE  Returns(r)
      BY <2>1, <3>2, <3>4, <3>5
    <3>8. ASSUME side[f][r] = TS!NoStatus /\ side[f][p] # TS!NoStatus
          PROVE  Returns(r)
      BY <2>1, <3>2, <3>4, <3>8
    <3>6. ASSUME side[f][r] = TS!NoStatus /\ side[f][p] = TS!NoStatus
          PROVE  Returns(r)
      <4>1. SideOf(r)'.verified = TS!NoStep /\ SideOf(r)'.candidate = TS!NoStep
        BY <2>1, <3>2, <3>6, Fallbacks
      <4> QED BY <3>1, <3>2, <4>1 DEF Returns
    <3>7. Returns(r)
      BY <3>5, <3>8, <3>6
    <3> QED BY <2>0, <3>1, <3>7 DEF f
  <2> QED BY <2>2, <2>3
<1>4. ReadsInv'
  <2>1. mode # "no" /\ \A q \in Pair : ~Promotes(q)' /\ writes'[q] # <<>>
    BY <1>1, DutiesDiffer DEF Promotes, RotatingOnce, SideTypes, Modes
  <2>2. \A q \in Pair : PeerStays(q)'
    BY <1>1, <1>2, <2>1 DEF PeerStays
  <2> QED BY <1>3, <2>2 DEF ReadsInv
<1>5. SideTypes'
  <2>1. mode \in Modes
    BY DEF RotatingOnce, SideTypes
  <2>2. TS!EmptyFolder \in [Pair -> [TS!Steps -> Copies]]
    BY DEF TS!EmptyFolder, Copies
  <2>3. shard' \in [TS!Folders -> [Pair -> [TS!Steps -> Copies]]]
    BY <1>1, <2>2 DEF SideTypes
  <2>4. side' \in [TS!Folders -> [Pair -> Sides]]
    BY <1>1 DEF SideTypes, Sides
  <2>5. home' \in [Pair -> TS!Folders]
    BY <1>1 DEF SideTypes, TS!Folders
  <2>6. \A r \in Pair : ~Promotes(r)'
    BY <1>1, DutiesDiffer DEF Promotes
  <2>7. writes' \in [Pair -> Duties] /\ slots' \in [Pair -> SUBSET [step : TS!Steps, bad : BOOLEAN]]
        /\ on' \in [Pair -> BOOLEAN] /\ cycle' \in 0 .. MaxCycle /\ bad' \in BOOLEAN
    <3>1. writes' \in [Pair -> Duties]
      BY <1>1 DEF Duties
    <3>2. slots' \in [Pair -> SUBSET [step : TS!Steps, bad : BOOLEAN]]
      BY <1>1
    <3>3. cycle' \in 0 .. MaxCycle
      BY <1>1, SideNumbers
    <3> QED BY <1>1, <3>1, <3>2, <3>3
  <2> QED BY <1>1, <2>1, <2>3, <2>4, <2>5, <2>6, <2>7 DEF SideTypes
<1> QED BY <1>3, <1>4, <1>5

LEMMA FirstRestart ==
  ASSUME SideTypes, ReadsInv, RotatingOnce, FirstInv, leaves = 0,
         NEW mode \in setup.modes, NEW lost \in SUBSET Pair, NEW moved \in SUBSET Pair,
         TS!Restart(mode, lost, moved)
  PROVE  LoadInv'
<1>1. /\ \A r \in Pair : Returns(r)
  BY RestartReturns
<1>2. /\ \A r \in Pair : on'[r] /\ slots'[r] = {} /\ writes'[r] = <<"activate">>
      /\ leaves' = 1 /\ loading' = mode /\ mode \in Modes /\ cycle' = 0 /\ bad' = FALSE
  BY DEF TS!Restart, TS!EachDoes, RotatingOnce, SideTypes
<1>3. ASSUME NEW r \in Pair, NEW s \in TS!Steps
      PROVE  /\ Own(r, s)'.life # 1
             /\ Own(r, s)' # TS!NoShard => Seen(s)
             /\ Own(r, s)'.bad => BadAt(s)
             /\ s \in {SideOf(r)'.verified, SideOf(r)'.candidate} => Own(r, s)' # TS!NoShard
  <2>1. CASE Own(r, s)' = TS!NoShard /\ SideOf(r)'.verified = TS!NoStep /\ SideOf(r)'.candidate = TS!NoStep
    BY <2>1, SideNumbers
  <2>2. CASE \E f \in TS!Folders : Own(r, s)' = shard[f][r][s]
    <3>1. PICK f \in TS!Folders : Own(r, s)' = shard[f][r][s]
      BY <2>2
    <3>2. shard[f][r][s].life # 1
      BY DEF FirstInv, FirstShape
    <3>3. shard[f][r][s] # TS!NoShard => Seen(s)
      BY DEF Seen, Somewhere
    <3>4. shard[f][r][s].bad => BadAt(s)
      BY DEF BadAt
    <3>5. s \in {SideOf(r)'.verified, SideOf(r)'.candidate} => Own(r, s)' # TS!NoShard
      <4>1. CASE SideOf(r)'.verified = TS!NoStep /\ SideOf(r)'.candidate = TS!NoStep
        BY <4>1, SideNumbers
      <4>2. CASE \E g \in TS!Folders, q \in Pair :
                   /\ SideOf(r)'.verified = side[g][q].verified
                   /\ SideOf(r)'.candidate \in {side[g][q].candidate, TS!NoStep}
                   /\ Own(r, s)' = shard[g][r][s]
        BY <4>2, SideNumbers DEF FirstInv, FirstRoles, Whole
      <4> QED BY <1>1, <4>1, <4>2 DEF Returns
    <3> QED BY <3>1, <3>2, <3>3, <3>4, <3>5
  <2> QED BY <1>1, <2>1, <2>2 DEF Returns
<1>4. ASSUME NEW r \in Pair
      PROVE  /\ \A s \in TS!Steps : BadAt(s) => SideOf(r)'.verified < s /\ SideOf(r)'.candidate <= s
             /\ SideOf(r)'.verified < cycle \/ SideOf(r)'.verified = TS!NoStep
             /\ SideOf(r)'.candidate <= cycle \/ SideOf(r)'.candidate = TS!NoStep
             /\ SideOf(r)'.verified \in Pointers /\ SideOf(r)'.candidate \in Pointers
  <2>0. TS!NoStep \in Pointers /\ \A s \in TS!Steps : TS!NoStep < s /\ TS!NoStep <= s
    BY SideNumbers DEF Pointers
  <2>1. CASE SideOf(r)'.verified = TS!NoStep /\ SideOf(r)'.candidate = TS!NoStep
    BY <2>0, <2>1
  <2>2. CASE \E f \in TS!Folders, q \in Pair :
               /\ SideOf(r)'.verified = side[f][q].verified
               /\ SideOf(r)'.candidate \in {side[f][q].candidate, TS!NoStep}
    <3>1. PICK f \in TS!Folders, q \in Pair :
                 /\ SideOf(r)'.verified = side[f][q].verified
                 /\ SideOf(r)'.candidate \in {side[f][q].candidate, TS!NoStep}
      BY <2>2
    <3>2. /\ side[f][q].verified < cycle /\ side[f][q].candidate <= cycle
          /\ \A s \in TS!Steps : BadAt(s) => side[f][q].verified < s /\ side[f][q].candidate <= s
          /\ side[f][q].verified \in Pointers /\ side[f][q].candidate \in Pointers
      BY SidePointers DEF FirstInv, FirstBad, FirstRoles
    <3> QED BY <2>0, <3>1, <3>2
  <2> QED BY <1>1, <2>1, <2>2 DEF Returns
<1>5. ASSUME NEW r \in Pair, NEW s \in TS!Steps, s < cycle, Seen(s),
             SideOf(r)'.verified # TS!NoStep \/ SideOf(r)'.candidate # TS!NoStep
      PROVE  Own(r, s)' # TS!NoShard
  <2>1. PICK f \in TS!Folders, q \in Pair :
               /\ \A i \in TS!Steps : Own(r, i)' = shard[f][r][i]
               /\ \A i \in TS!Steps : i < cycle /\ Seen(i) => Whole(f, i)
    BY <1>1, <1>5 DEF Returns
  <2> QED BY <1>5, <2>1 DEF Whole
<1>6. ASSUME NEW r \in Pair
      PROVE  Covers(r, SideOf(r).verified)' /\ Covers(r, SideOf(r).candidate)'
  <2>1. ASSUME NEW p \in {SideOf(r)'.verified, SideOf(r)'.candidate}, NEW s \in TS!Steps,
               s = p \/ (s <= p /\ \E q \in Pair : Own(q, s)' # TS!NoShard)
        PROVE  Own(r, s)' # TS!NoShard
    <3>1. CASE s = p
      BY <1>3, <3>1
    <3>2. CASE s # p
      <4>1. s <= p /\ Seen(s)
        BY <1>3, <2>1, <3>2
      <4>2. p # TS!NoStep /\ p <= cycle /\ p \in Int /\ s \in Int /\ cycle \in Int
        <5>1. p \in Int /\ s \in Int /\ cycle \in Int /\ s > 0 /\ TS!NoStep = -1
          <6>1. p \in Pointers
            BY <1>4
          <6>2. cycle \in 0 .. MaxCycle
            BY DEF SideTypes
          <6>3. s \in 1 .. MaxCycle
            BY SideNumbers
          <6> QED BY <6>1, <6>2, <6>3, SideNumbers
        <5>2. p # TS!NoStep
          BY <4>1, <5>1
        <5>3. p <= cycle
          BY <1>4, <5>1, <5>2
        <5> QED BY <5>1, <5>2, <5>3
      <4>3. s < cycle
        BY <3>2, <4>1, <4>2
      <4> QED BY <1>5, <4>1, <4>2, <4>3
    <3> QED BY <3>1, <3>2
  <2> QED BY <2>1 DEF Covers
<1>7. ASSUME NEW r \in Pair, NEW q \in Pair, NEW s \in TS!Steps,
             SideOf(r)'.verified # TS!NoStep, SideOf(q)'.verified = s
      PROVE  Own(r, s)' # TS!NoShard
  <2>1. Own(q, s)' # TS!NoShard
    BY <1>3, <1>7
  <2>2. Seen(s)
    BY <1>3, <2>1
  <2>3. s < cycle
    BY <1>4, <1>7, SideNumbers
  <2> QED BY <1>5, <1>7, <2>2, <2>3
<1>8. ASSUME NEW q \in Pair, NEW s \in TS!Steps, Own(q, s)'.bad
      PROVE  /\ \A r \in Pair : SideOf(r)'.verified < s /\ SideOf(r)'.candidate <= s
             /\ \A r \in Pair, t \in TS!Steps : Own(r, t)' # TS!NoShard => t <= s
  <2>1. BadAt(s)
    BY <1>3, <1>8
  <2>2. \A t \in TS!Steps : Seen(t) => t <= s
    BY <2>1 DEF FirstInv, FirstBad
  <2> QED BY <1>3, <1>4, <2>1, <2>2
<1>9. \A r \in Pair : writes'[r] # <<>>
  BY <1>2, DutiesDiffer
<1> QED BY <1>2, <1>3, <1>6, <1>7, <1>8, <1>9 DEF LoadInv

-----------------------------------------------------------------------------
(* The votes, the generation they agree on, and the newest one that all    *)
(* have (_verified_disk_step, _collective_min_step, _consistent_step).     *)
LEMMA Votes ==
  ASSUME SideTypes, ReadsInv, NEW r \in Pair
  PROVE  /\ TS!VerifiedVote(r) \in Pointers
         /\ TS!VerifiedVote(r) # TS!NoStep =>
              /\ TS!VerifiedVote(r) = SideOf(r).verified /\ TS!VerifiedVote(r) \in TS!Steps
              /\ Own(r, TS!VerifiedVote(r)) # TS!NoShard
         /\ \A s \in TS!Steps : SideOf(r).verified = s /\ Own(r, s) # TS!NoShard => TS!VerifiedVote(r) = s
<1>1. TS!Read(r).verified = SideOf(r).verified /\ SideOf(r).verified \in Pointers
  BY Reading
<1>2. \A s : TS!HasRank(r, s) <=> Own(r, s) # TS!NoShard
  BY DEF TS!HasRank, Own
<1>3. TS!VerifiedVote(r) = IF SideOf(r).verified # TS!NoStep /\ Own(r, SideOf(r).verified) # TS!NoShard
                        THEN SideOf(r).verified ELSE TS!NoStep
  BY <1>1, <1>2 DEF TS!VerifiedVote
<1>4. TS!NoStep \in Pointers /\ TS!NoStep \notin TS!Steps /\ \A p \in Pointers : p # TS!NoStep => p \in TS!Steps
  BY SideNumbers DEF Pointers
<1> QED BY <1>1, <1>3, <1>4

LEMMA LeastVote ==
  ASSUME SideTypes, ReadsInv
  PROVE  \E w \in Pair :
           /\ TS!Min({TS!VerifiedVote(r) : r \in Pair}) = TS!VerifiedVote(w)
           /\ \A r \in Pair : TS!VerifiedVote(w) <= TS!VerifiedVote(r)
<1>1. \A r \in Pair : TS!VerifiedVote(r) \in Int
  <2>1. \A r \in Pair : TS!VerifiedVote(r) \in Pointers
    BY Votes
  <2> QED BY <2>1, SideNumbers
<1>2. PICK a \in Pair : TRUE
  BY Pairs
<1>3. \A r \in Pair : r = a \/ r = TS!Peer(a)
  BY Pairs
<1>4. TS!Peer(a) \in Pair
  BY Pairs
<1>5. PICK w \in Pair : \A r \in Pair : TS!VerifiedVote(w) <= TS!VerifiedVote(r)
  <2>1. CASE TS!VerifiedVote(a) <= TS!VerifiedVote(TS!Peer(a))
    BY <1>1, <1>3, <2>1
  <2>2. CASE TS!VerifiedVote(TS!Peer(a)) <= TS!VerifiedVote(a)
    BY <1>1, <1>3, <1>4, <2>2
  <2> QED BY <1>1, <1>4, <2>1, <2>2
<1> DEFINE S == {TS!VerifiedVote(r) : r \in Pair}
<1>6. TS!VerifiedVote(w) \in S /\ \A y \in S : TS!VerifiedVote(w) <= y
  BY <1>5
<1>7. \A x \in S : (\A y \in S : x <= y) => x = TS!VerifiedVote(w)
  <2> SUFFICES ASSUME NEW x \in S, \A y \in S : x <= y
               PROVE  x = TS!VerifiedVote(w)
    OBVIOUS
  <2>1. x <= TS!VerifiedVote(w) /\ TS!VerifiedVote(w) <= x /\ x \in Int /\ TS!VerifiedVote(w) \in Int
    BY <1>1, <1>6
  <2> QED BY <2>1
<1>8. TS!Min(S) = TS!VerifiedVote(w)
  <2> HIDE DEF S
  <2> QED BY <1>6, <1>7 DEF TS!Min
<1> QED BY <1>5, <1>8

LEMMA PickIs ==
  ASSUME SideTypes, ReadsInv
  PROVE  /\ TS!VerifiedPick \in Pointers
         /\ TS!VerifiedPick # TS!NoStep =>
              /\ TS!VerifiedPick \in TS!Steps
              /\ \A r \in Pair : Own(r, TS!VerifiedPick) # TS!NoShard /\ TS!VerifiedPick <= SideOf(r).verified
              /\ \A r \in Pair : TS!VerifiedPick <= TS!VerifiedVote(r) /\ TS!VerifiedVote(r) # TS!NoStep
              /\ \E r \in Pair : TS!VerifiedPick = TS!VerifiedVote(r)
         /\ \A s \in TS!Steps, w \in Pair :
              /\ TS!VerifiedVote(w) = s
              /\ \A r \in Pair : s <= TS!VerifiedVote(r) /\ Own(r, s) # TS!NoShard
              => TS!VerifiedPick = s
<1>1. PICK w \in Pair :
        /\ TS!Min({TS!VerifiedVote(r) : r \in Pair}) = TS!VerifiedVote(w)
        /\ \A r \in Pair : TS!VerifiedVote(w) <= TS!VerifiedVote(r)
  BY LeastVote
<1>2. \A r \in Pair : \A s : TS!HasRank(r, s) <=> Own(r, s) # TS!NoShard
  BY DEF TS!HasRank, Own
<1>3. TS!VerifiedPick = IF TS!VerifiedVote(w) # TS!NoStep /\ \A r \in Pair : Own(r, TS!VerifiedVote(w)) # TS!NoShard
                     THEN TS!VerifiedVote(w) ELSE TS!NoStep
  BY <1>1, <1>2 DEF TS!VerifiedPick
<1>4. \A r \in Pair : TS!VerifiedVote(r) \in Pointers /\ TS!VerifiedVote(r) \in Int
  <2>1. \A r \in Pair : TS!VerifiedVote(r) \in Pointers
    BY Votes
  <2> QED BY <2>1, SideNumbers
<1>5. TS!NoStep \in Pointers /\ TS!NoStep = -1 /\ \A s \in TS!Steps : s \in Int /\ s > TS!NoStep
  BY SideNumbers DEF Pointers
<1>6. ASSUME TS!VerifiedPick # TS!NoStep
      PROVE  /\ TS!VerifiedPick \in TS!Steps
             /\ \A r \in Pair : Own(r, TS!VerifiedPick) # TS!NoShard /\ TS!VerifiedPick <= SideOf(r).verified
             /\ \A r \in Pair : TS!VerifiedPick <= TS!VerifiedVote(r) /\ TS!VerifiedVote(r) # TS!NoStep
             /\ \E r \in Pair : TS!VerifiedPick = TS!VerifiedVote(r)
  <2>1. TS!VerifiedPick = TS!VerifiedVote(w) /\ \A r \in Pair : Own(r, TS!VerifiedPick) # TS!NoShard
    BY <1>3, <1>6
  <2>2. TS!VerifiedPick \in TS!Steps
    BY <1>4, <1>6, <2>1 DEF Pointers
  <2>3. \A r \in Pair : TS!VerifiedPick <= TS!VerifiedVote(r)
    BY <1>1, <2>1
  <2>4. ASSUME NEW r \in Pair
        PROVE  TS!VerifiedVote(r) # TS!NoStep
    <3>1. TS!VerifiedVote(r) \in Int /\ TS!VerifiedPick \in Int /\ TS!VerifiedPick > TS!NoStep /\ TS!VerifiedPick <= TS!VerifiedVote(r)
      BY <1>4, <1>5, <2>2, <2>3
    <3> QED BY <1>5, <3>1
  <2>5. \A r \in Pair : TS!VerifiedVote(r) = SideOf(r).verified
    BY <2>4, Votes
  <2> QED BY <2>1, <2>2, <2>3, <2>4, <2>5
<1>7. ASSUME NEW s \in TS!Steps, NEW v \in Pair, TS!VerifiedVote(v) = s,
             \A r \in Pair : s <= TS!VerifiedVote(r) /\ Own(r, s) # TS!NoShard
      PROVE  TS!VerifiedPick = s
  <2>1. TS!VerifiedVote(w) = s
    BY <1>1, <1>4, <1>5, <1>7
  <2> QED BY <1>3, <1>5, <1>7, <2>1
<1> QED BY <1>3, <1>4, <1>5, <1>6, <1>7

LEMMA LatestIs ==
  ASSUME SideTypes
  PROVE  /\ TS!LatestPick \in Pointers
         /\ TS!LatestPick # TS!NoStep => \A r \in Pair : Own(r, TS!LatestPick) # TS!NoShard
         /\ \A s \in TS!Steps : (\A r \in Pair : Own(r, s) # TS!NoShard) => s <= TS!LatestPick
<1> DEFINE S == {s \in TS!Steps : \A r \in Pair : TS!HasRank(r, s)}
           T == {TS!NoStep} \cup S
<1>1. \A s \in TS!Steps : s \in S <=> \A r \in Pair : Own(r, s) # TS!NoShard
  BY DEF TS!HasRank, Own
<1>2. T \in SUBSET (-1 .. MaxCycle) /\ T # {} /\ T \subseteq Pointers
  BY SideNumbers DEF Pointers
<1>3. MaxCycle \in Nat
  BY SideNumbers
<1>4. TS!LatestPick = TS!Max(T)
  BY DEF TS!LatestPick
<1>5. TS!Max(T) \in T /\ \A y \in T : y <= TS!Max(T)
  <2> HIDE DEF T
  <2>1. TS!Max(T) = Max(T)
    BY DEF TS!Max, Max
  <2> QED BY <1>2, <1>3, <2>1, Largest
<1>6. TS!LatestPick \in Pointers /\ (TS!LatestPick # TS!NoStep => TS!LatestPick \in S)
  BY <1>2, <1>4, <1>5
<1>7. \A s \in S : s <= TS!LatestPick
  BY <1>4, <1>5
<1>8. S \subseteq TS!Steps
  OBVIOUS
<1> HIDE DEF S, T
<1> QED BY <1>1, <1>6, <1>7, <1>8

-----------------------------------------------------------------------------
(* After the load.  base is the step that the job resumed from, w a rank   *)
(* whose pointers were not above it: a sidecar may name a newer generation *)
(* of the run before, but not both ranks' sidecars can.                    *)
New(q, s) == Own(q, s).life = 1
AllNew(s) == s \in TS!Steps /\ \A q \in Pair : New(q, s)
AllCaptured == \A q \in Pair : cycle \in TS!Captures(q)

(* 1: where each rank is, and how far the shards of this run go.           *)
RunShape(base) ==
  /\ leaves = 1 /\ (\A r \in Pair : on[r]) /\ loading = "no" /\ base <= cycle
  /\ \A r \in Pair :
       /\ writes[r] # <<"activate">>
       /\ Promotes(r) => base < cycle
       /\ \A s \in TS!Captures(r) : s <= cycle
       /\ writes[r] = FromOwn => cycle \in TS!Captures(r)
       /\ writes[r] \in {FromPeer, <<"promote">>} => AllCaptured
       /\ cycle \in TS!Captures(r) => New(r, cycle) \/ writes[r] \in {Acceptance, FromOwn}
  /\ \A q \in Pair, s \in TS!Steps : New(q, s) =>
       /\ base < s /\ s <= cycle
       /\ s < cycle => AllNew(s)
       /\ s = cycle => AllCaptured

(* 2: the pointers of w are to what both ranks have.                       *)
RunRoles(base, w) ==
  /\ SideOf(w).verified <= base \/ (SideOf(w).verified < cycle /\ AllNew(SideOf(w).verified))
  /\ \/ SideOf(w).candidate <= base
     \/ SideOf(w).candidate < cycle /\ AllNew(SideOf(w).candidate)
     \/ SideOf(w).candidate = cycle /\ base < cycle /\ AllCaptured
  /\ Promotes(w) => SideOf(w).candidate < cycle

(* 3: corruption of this run is not yet verified by w; corruption of the   *)
(* run before is verified by none while both ranks have it.                *)
RunBad(w) ==
  \A q \in Pair, s \in TS!Steps : Own(q, s).bad =>
    /\ New(q, s) => /\ bad /\ SideOf(w).verified < s
                    /\ \A r \in Pair : Promotes(r) => s = cycle
    /\ (\A r \in Pair : Own(r, s).life = 0) =>
         \A r \in Pair :
           /\ SideOf(r).verified # s
           /\ SideOf(r).candidate = s => bad /\ ~Promotes(r)

(* 4, with a durable coordinator, which drops the candidate of the run     *)
(* before: a rank's candidate is of this run and not below the pointer of  *)
(* w, and the ranks are at most one promotion or rejection apart.          *)
Fresh(base, r) ==
  /\ \/ SideOf(r).candidate = TS!NoStep
     \/ SideOf(r).candidate < cycle /\ AllNew(SideOf(r).candidate)
     \/ SideOf(r).candidate = cycle /\ base < cycle /\ AllCaptured
  /\ Promotes(r) => SideOf(r).candidate < cycle

Alongside(r, q) ==
  /\ Promotes(r) /\ Promotes(q) => SideOf(r).candidate = SideOf(q).candidate
  /\ Promotes(r) /\ ~Promotes(q) =>
       /\ writes[q] = <<>> /\ SideOf(q).candidate = cycle
       /\ SideOf(r).candidate # TS!NoStep => SideOf(q).verified = SideOf(r).candidate
  /\ writes[r] = <<"reject">> =>
       \/ writes[q] = <<"reject">>
       \/ writes[q] = <<>> /\ SideOf(q).candidate = TS!NoStep
  /\ writes[r] = <<"clear">> =>
       \/ writes[q] = <<"clear">>
       \/ writes[q] = <<>> /\ SideOf(q).candidate = TS!NoStep
  /\ writes[r] = <<>> /\ writes[q] = <<>> => SideOf(r).candidate = SideOf(q).candidate
  /\ SideOf(r).verified # TS!NoStep /\ SideOf(q).verified # TS!NoStep =>
       \/ Own(r, SideOf(q).verified) # TS!NoShard
       \/ Promotes(q) /\ SideOf(q).candidate = SideOf(r).verified

RunTrust(base, w) ==
  /\ \A r \in Pair :
       /\ SideOf(r).verified # TS!NoStep => Own(r, SideOf(r).verified) # TS!NoShard
       /\ writes[r] # <<"clear">> =>
            /\ Fresh(base, r)
            /\ SideOf(r).candidate # TS!NoStep => SideOf(w).verified <= SideOf(r).candidate
  /\ \A r, q \in Pair : r # q => Alongside(r, q)

RunAs(base, w) ==
  /\ RunShape(base) /\ RunRoles(base, w) /\ RunBad(w)
  /\ setup.durable => RunTrust(base, w)

RunInv == \E base \in 0 .. MaxCycle, w \in Pair : RunAs(base, w)

(* The files of a job that has loaded, or is loading, are those of ranks   *)
(* that run.                                                               *)
LEMMA SameOwn ==
  ASSUME shard' = shard, home' = home
  PROVE  \A q, s : Own(q, s)' = Own(q, s)
BY DEF Own

LEMMA OwnCopies ==
  ASSUME SideTypes
  PROVE  \A q \in Pair, s \in TS!Steps : Own(q, s) \in Copies
<1>1. /\ shard \in [TS!Folders -> [Pair -> [TS!Steps -> Copies]]]
      /\ home \in [Pair -> TS!Folders]
  BY DEF SideTypes
<1> QED BY <1>1 DEF Own

(* load: a rank records the mode.                                          *)
LEMMA LoadStatus ==
  ASSUME SideTypes, ReadsInv, RotatingOnce, LoadInv, NEW r \in Pair, TS!WriteStatus(r),
         UNCHANGED <<setup, cycle, bad, on, loading, home, leaves>>
  PROVE  LoadInv'
<1>1. /\ slots' = slots /\ shard' = shard
      /\ \A f \in TS!Folders, q \in Pair : ~(f = home[r] /\ q = r) => side'[f][q] = side[f][q]
      /\ home \in [Pair -> TS!Folders] /\ writes \in [Pair -> Duties]
      /\ loading # "no" /\ writes[r] \in {<<"activate">>, <<>>}
      /\ \A q \in Pair : q # r => SideOf(q)' = SideOf(q)
  <2>1. loading # "no" /\ writes[r] \in {<<"activate">>, <<>>}
    BY DEF LoadInv, Modes
  <2> QED BY <2>1, Turning DEF SideTypes
<1>2. PICK what \in {"promote", "reject", "activate", "clear"} : TS!Does(r, what) /\ Turned(r, what)
  BY <1>1, Turning
<1>3. /\ writes[r] = <<what>> /\ writes'[r] = <<>>
      /\ \A q \in Pair : q # r => writes'[q] = writes[q]
  BY <1>1, <1>2, Duty
<1>4. what = "activate"
  BY <1>3, DutiesDiffer DEF LoadInv
<1>5. /\ SideOf(r)'.verified = SideOf(r).verified
      /\ SideOf(r)'.candidate = (IF loading = "recovery_verified" THEN TS!NoStep ELSE SideOf(r).candidate)
      /\ \A q \in Pair : q # r => SideOf(q)' = SideOf(q)
  BY <1>1, <1>2, <1>4 DEF Turned
<1>6. \A q, s : Own(q, s)' = Own(q, s)
  BY <1>1, SameOwn
<1>7. \A q \in Pair :
        /\ SideOf(q)'.verified = SideOf(q).verified
        /\ SideOf(q)'.candidate = SideOf(q).candidate \/ SideOf(q)'.candidate = TS!NoStep
  BY <1>5
<1>8. ASSUME NEW q \in Pair
      PROVE  /\ Covers(q, SideOf(q).verified)' /\ Covers(q, SideOf(q).candidate)'
             /\ writes'[q] = <<>> /\ loading = "recovery_verified" => SideOf(q)'.candidate = TS!NoStep
             /\ \A p \in Pair, s \in TS!Steps :
                  SideOf(q)'.verified # TS!NoStep /\ SideOf(p)'.verified = s => Own(q, s)' # TS!NoShard
  <2>1. \A s \in TS!Steps : s # TS!NoStep /\ ~(s <= TS!NoStep)
    BY SideNumbers
  <2>2. Covers(q, SideOf(q).verified)' /\ Covers(q, SideOf(q).candidate)'
    BY <1>6, <1>7, <2>1 DEF LoadInv, Covers
  <2>3. writes'[q] = <<>> /\ loading = "recovery_verified" => SideOf(q)'.candidate = TS!NoStep
    BY <1>3, <1>5, <1>7 DEF LoadInv
  <2> QED BY <1>6, <1>7, <2>2, <2>3 DEF LoadInv
<1>9. ASSUME NEW q \in Pair, NEW s \in TS!Steps, Own(q, s).bad
      PROVE  /\ \A p \in Pair : SideOf(p)'.verified < s /\ SideOf(p)'.candidate <= s
             /\ \A p \in Pair, t \in TS!Steps : Own(p, t) # TS!NoShard => t <= s
  <2>1. TS!NoStep <= s
    BY SideNumbers
  <2> QED BY <1>7, <1>9, <2>1 DEF LoadInv
<1>10. \A q \in Pair : writes'[q] \in {<<"activate">>, <<>>}
  BY <1>3 DEF LoadInv
<1> QED BY <1>1, <1>6, <1>8, <1>9, <1>10 DEF LoadInv

(* What a verified recovery of a loading job would settle on.              *)
LEMMA LoadPick ==
  ASSUME SideTypes, ReadsInv, LoadInv
  PROVE  TS!PickIsClean /\ TS!PickIsOneRun
<1>1. SUFFICES ASSUME TS!VerifiedPick # TS!NoStep
               PROVE  \A r \in Pair : ~Own(r, TS!VerifiedPick).bad /\ Own(r, TS!VerifiedPick).life = 0
  BY DEF TS!PickIsClean, TS!PickIsOneRun, Own
<1>2. /\ TS!VerifiedPick \in TS!Steps
      /\ \A r \in Pair : Own(r, TS!VerifiedPick) # TS!NoShard /\ TS!VerifiedPick <= SideOf(r).verified
  BY <1>1, PickIs
<1>3. \A r \in Pair : Own(r, TS!VerifiedPick) \in Copies
  BY <1>2, OwnCopies
<1>4. ASSUME NEW r \in Pair
      PROVE  ~Own(r, TS!VerifiedPick).bad
  <2>1. TS!VerifiedPick \in Int /\ SideOf(r).verified \in Int
    <3>1. SideOf(r).verified \in Pointers
      BY Reading
    <3>2. TS!VerifiedPick \in Pointers
      BY PickIs
    <3> QED BY <3>1, <3>2, SideNumbers
  <2> QED BY <1>2, <2>1 DEF LoadInv
<1>5. \A r \in Pair : Own(r, TS!VerifiedPick).life = 0
  BY <1>2, <1>3, SideNumbers DEF LoadInv
<1> QED BY <1>4, <1>5

(* load settles on a generation: one of the ranks names none above it.     *)
Settled == IF loading = "latest" THEN TS!LatestPick ELSE TS!VerifiedPick
Base == IF Settled = TS!NoStep THEN 0 ELSE Settled

LEMMA WeakRank ==
  ASSUME SideTypes, ReadsInv, LoadInv, \A r \in Pair : writes[r] = <<>>
  PROVE  /\ Base \in 0 .. MaxCycle
         /\ \E w \in Pair : SideOf(w).verified <= Base /\ SideOf(w).candidate <= Base
<1>1. \A r \in Pair :
        /\ SideOf(r).verified \in Pointers /\ SideOf(r).candidate \in Pointers
        /\ SideOf(r).verified \in Int /\ SideOf(r).candidate \in Int
  <2>1. \A r \in Pair : SideOf(r).verified \in Pointers /\ SideOf(r).candidate \in Pointers
    BY Reading
  <2> QED BY <2>1, SideNumbers
<1>2. Settled \in Pointers /\ TS!LatestPick \in Pointers /\ TS!VerifiedPick \in Pointers
  BY PickIs, LatestIs DEF Settled
<1>3. Base \in 0 .. MaxCycle /\ Base \in Int /\ Settled \in Int /\ Settled <= Base /\ TS!NoStep < Base
  BY <1>2, SideNumbers DEF Base, Pointers
<1> DEFINE Top(r) == IF SideOf(r).verified >= SideOf(r).candidate
                     THEN SideOf(r).verified ELSE SideOf(r).candidate
<1>9. \A r \in Pair : Covers(r, SideOf(r).verified) /\ Covers(r, SideOf(r).candidate)
  BY DEF LoadInv
<1>4. ASSUME NEW r \in Pair
      PROVE  /\ Top(r) \in Int /\ Top(r) \in Pointers /\ Covers(r, Top(r))
             /\ SideOf(r).verified <= Top(r) /\ SideOf(r).candidate <= Top(r)
  <2>1. CASE SideOf(r).verified >= SideOf(r).candidate
    <3>1. Top(r) = SideOf(r).verified
      BY <2>1
    <3> HIDE DEF Top
    <3> QED BY <1>1, <1>9, <2>1, <3>1
  <2>2. CASE ~(SideOf(r).verified >= SideOf(r).candidate)
    <3>1. Top(r) = SideOf(r).candidate
      BY <2>2
    <3> HIDE DEF Top
    <3> QED BY <1>1, <1>9, <2>2, <3>1
  <2> QED BY <2>1, <2>2
<1>5. PICK w \in Pair : \A r \in Pair : Top(w) <= Top(r)
  <2>1. PICK a \in Pair : TS!Peer(a) \in Pair /\ \A r \in Pair : r = a \/ r = TS!Peer(a)
    BY Pairs
  <2>2. Top(a) \in Int /\ Top(TS!Peer(a)) \in Int
    BY <1>4, <2>1
  <2> HIDE DEF Top
  <2>3. CASE Top(a) <= Top(TS!Peer(a))
    BY <2>1, <2>2, <2>3
  <2>4. CASE Top(TS!Peer(a)) <= Top(a)
    BY <2>1, <2>2, <2>4
  <2> QED BY <2>2, <2>3, <2>4
<1>6. ASSUME Top(w) # TS!NoStep
      PROVE  Top(w) \in TS!Steps /\ \A r \in Pair : Own(r, Top(w)) # TS!NoShard
  <2>1. Top(w) \in TS!Steps
    BY <1>4, <1>6 DEF Pointers
  <2>2. Own(w, Top(w)) # TS!NoShard
    BY <1>4, <2>1 DEF Covers
  <2>3. \A r \in Pair : Top(w) <= Top(r) /\ Covers(r, Top(r))
    BY <1>4, <1>5
  <2> HIDE DEF Top
  <2> QED BY <2>1, <2>2, <2>3 DEF Covers
<1>7. Top(w) <= Base
  <2>1. CASE Top(w) = TS!NoStep
    BY <1>3, <2>1, SideNumbers
  <2>2. CASE Top(w) # TS!NoStep /\ loading = "latest"
    <3>1. Top(w) <= TS!LatestPick
      BY <1>6, <2>2, LatestIs
    <3> HIDE DEF Top
    <3> QED BY <1>3, <1>4, <2>2, <3>1 DEF Settled
  <2>3. CASE Top(w) # TS!NoStep /\ loading # "latest"
    <3>1. \A r \in Pair : SideOf(r).candidate = TS!NoStep
      BY <2>3 DEF LoadInv, Modes
    <3>2. \A r \in Pair : Top(r) = SideOf(r).verified \/ Top(r) = TS!NoStep
      BY <3>1
    <3>3. ASSUME NEW r \in Pair
          PROVE  Top(r) # TS!NoStep
      <4>1. Top(w) \in TS!Steps
        BY <1>6, <2>3
      <4>2. Top(w) \in Int /\ Top(w) > TS!NoStep /\ TS!NoStep \in Int
        BY <4>1, SideNumbers
      <4>3. Top(r) \in Int /\ Top(w) <= Top(r)
        BY <1>4, <1>5
      <4> HIDE DEF Top
      <4> QED BY <4>2, <4>3
    <3>4. \A r \in Pair : SideOf(r).verified = Top(r) /\ Top(r) \in TS!Steps /\ Own(r, Top(r)) # TS!NoShard
      <4>1. \A r \in Pair : SideOf(r).verified = Top(r) /\ Top(r) \in TS!Steps
        BY <1>4, <3>2, <3>3 DEF Pointers
      <4> HIDE DEF Top
      <4> QED BY <1>4, <4>1 DEF Covers
    <3>5. \A r \in Pair : TS!VerifiedVote(r) = Top(r)
      <4> HIDE DEF Top
      <4> QED BY <3>4, Votes
    <3>6. TS!VerifiedPick = Top(w)
      <4> HIDE DEF Top
      <4> QED BY <1>5, <1>6, <2>3, <3>4, <3>5, PickIs
    <3> HIDE DEF Top
    <3> QED BY <1>3, <2>3, <3>6 DEF Settled
  <2> QED BY <2>1, <2>2, <2>3
<1>8. SideOf(w).verified <= Base /\ SideOf(w).candidate <= Base
  <2>1. SideOf(w).verified <= Top(w) /\ SideOf(w).candidate <= Top(w) /\ Top(w) \in Int
    BY <1>4
  <2> HIDE DEF Top
  <2> QED BY <1>1, <1>3, <1>7, <2>1
<1> QED BY <1>3, <1>8

LEMMA Selecting ==
  ASSUME SideTypes, ReadsInv, LoadInv, TS!Select, NEW base, base = Base, NEW w \in Pair,
         SideOf(w).verified <= base, SideOf(w).candidate <= base
  PROVE  RunShape(base)' /\ RunRoles(base, w)' /\ RunBad(w)'
<1>1. /\ \A r \in Pair : on[r] /\ writes[r] = <<>>
      /\ loading' = "no" /\ cycle' = base
      /\ bad' = \E r \in Pair : Settled # TS!NoStep /\ shard[home[r]][r][Settled].bad
      /\ \A r \in Pair : writes'[r] = <<"clear">> \/ writes'[r] = <<>>
      /\ UNCHANGED <<setup, slots, on, home, TS!files, leaves>>
      /\ shard' = shard /\ side' = side
  BY DEF TS!Select, Base, Settled, TS!EachDoes, TS!files
<1>2. /\ \A q, s : Own(q, s)' = Own(q, s)
      /\ \A q : SideOf(q)' = SideOf(q)
      /\ \A q \in Pair : TS!Captures(q)' = {}
      /\ \A q \in Pair : ~Promotes(q)' /\ writes'[q] # <<"activate">>
             /\ ~HasCaptured(q)' /\ writes'[q] # Acceptance
  <2>1. \A q \in Pair : slots'[q] = {}
    BY <1>1 DEF LoadInv
  <2>2. \A q \in Pair : TS!Captures(q)' = {}
    BY <2>1 DEF TS!Captures
  <2>3. \A q, s : Own(q, s)' = Own(q, s)
    BY <1>1 DEF Own
  <2>4. \A q : SideOf(q)' = SideOf(q)
    BY <1>1 DEF SideOf, TS!Read
  <2> QED BY <1>1, <2>2, <2>3, <2>4, DutiesDiffer DEF Promotes, HasCaptured
<1>3. \A q \in Pair, s \in TS!Steps : ~New(q, s)'
  BY <1>2 DEF New, LoadInv
<1>4. base \in Int
  BY WeakRank, <1>1
<1>5. RunShape(base)'
  <2>1. \A q \in Pair : cycle' \notin TS!Captures(q)'
    BY <1>2
  <2> QED BY <1>1, <1>2, <1>3, <1>4, <2>1 DEF RunShape, LoadInv, HasCaptured
<1>6. RunRoles(base, w)'
  BY <1>2 DEF RunRoles
<1>7. ASSUME NEW q \in Pair, NEW s \in TS!Steps, Own(q, s).bad, \A r \in Pair : Own(r, s).life = 0,
             NEW r \in Pair
      PROVE  SideOf(r).verified # s /\ (SideOf(r).candidate = s => bad')
  <2>1. SideOf(r).verified < s /\ \A p \in Pair, t \in TS!Steps : Own(p, t) # TS!NoShard => t <= s
    BY <1>7 DEF LoadInv
  <2>2. SideOf(r).verified # s
    BY <2>1, SideNumbers
  <2>3. ASSUME SideOf(r).candidate = s
        PROVE  bad'
    <3>1. loading = "latest"
      BY <1>1, <2>3, SideNumbers DEF LoadInv, Modes
    <3>2. \A p \in Pair : Own(p, s) # TS!NoShard
      BY <1>7, SideNumbers
    <3>3. s <= TS!LatestPick
      BY <3>2, LatestIs
    <3>4. TS!LatestPick \in Pointers /\ TS!LatestPick \in Int /\ s \in Int /\ s > TS!NoStep /\ TS!NoStep \in Int
      <4>1. TS!LatestPick \in Pointers
        BY LatestIs
      <4> QED BY <4>1, SideNumbers
    <3>5. TS!LatestPick # TS!NoStep /\ TS!LatestPick \in TS!Steps
      BY <3>3, <3>4 DEF Pointers
    <3>6. TS!LatestPick <= s
      BY <2>1, <3>5, LatestIs
    <3>7. Settled = s
      BY <3>1, <3>3, <3>4, <3>6 DEF Settled
    <3> QED BY <1>1, <1>7, <3>5, <3>7, SideNumbers DEF Own
  <2> QED BY <2>2, <2>3
<1>8. RunBad(w)'
  BY <1>2, <1>3, <1>7 DEF RunBad
<1> QED BY <1>5, <1>6, <1>8

(* A cycle begins after the restart: every rank is through with the last,  *)
(* so the shards of its step, if there are any, are there on both.         *)
LEMMA RunCycle ==
  ASSUME SideTypes, NEW base \in 0 .. MaxCycle, NEW w \in Pair,
         RunShape(base), RunRoles(base, w), RunBad(w), TS!Cycle
  PROVE  RunShape(base)' /\ RunRoles(base, w)' /\ RunBad(w)'
<1>1. /\ \A r \in Pair : on[r] /\ writes[r] = <<>>
      /\ cycle \in 0 .. MaxCycle /\ cycle < MaxCycle /\ cycle' = cycle + 1
      /\ UNCHANGED <<setup, slots, on, loading, home, TS!files, leaves>>
      /\ shard' = shard /\ side' = side
  BY DEF TS!Cycle, TS!Running, SideTypes, TS!files
<1>2. cycle \in Nat /\ cycle' \in Nat /\ cycle < cycle' /\ base \in Nat
  BY <1>1, SideNumbers
<1>3. /\ \A q, s : Own(q, s)' = Own(q, s) /\ New(q, s)' = New(q, s)
      /\ \A s : AllNew(s)' = AllNew(s)
      /\ \A q : SideOf(q)' = SideOf(q) /\ TS!Captures(q)' = TS!Captures(q)
  <2>1. \A q, s : Own(q, s)' = Own(q, s)
    BY <1>1 DEF Own
  <2>2. \A q : SideOf(q)' = SideOf(q) /\ TS!Captures(q)' = TS!Captures(q)
    BY <1>1 DEF SideOf, TS!Read, TS!Captures
  <2> QED BY <2>1, <2>2 DEF New, AllNew
<1>4. \/ /\ \A r \in Pair : writes'[r] = <<"reject">> /\ ~Promotes(r)'
         /\ bad => bad'
      \/ (\A r \in Pair : writes'[r] = Acceptance) /\ ~bad
  <2>1. CASE TS!Unsafe
    <3>1. \A r \in Pair : writes'[r] = <<"reject">>
      BY <2>1 DEF TS!Unsafe, TS!EachDoes
    <3> QED BY <2>1, <3>1, DutiesDiffer DEF Promotes, TS!Unsafe
  <2>2. CASE TS!Accepted
    BY <2>2 DEF TS!Accepted, TS!EachDoes, Acceptance
  <2> QED BY <2>1, <2>2 DEF TS!Cycle
<1>5. /\ \A r \in Pair : writes'[r] # <<"activate">> /\ ~HasCaptured(r)'
      /\ bad => bad' /\ \A r \in Pair : ~Promotes(r)'
  BY <1>4, DutiesDiffer DEF HasCaptured
<1>6. \A r \in Pair : cycle \in TS!Captures(r) => New(r, cycle)
  BY <1>1, DutiesDiffer DEF RunShape
<1>7. AllCaptured /\ cycle \in TS!Steps => AllNew(cycle)
  BY <1>6 DEF AllCaptured, AllNew
<1>8. ASSUME NEW q \in Pair, NEW s \in TS!Captures(q)
      PROVE  s \in Nat /\ s < cycle'
  <2>1. s <= cycle
    BY DEF RunShape
  <2>2. s \in TS!Steps
    BY DEF SideTypes, TS!Captures
  <2> QED BY <1>2, <2>1, <2>2, SideNumbers
<1>9. ASSUME NEW q \in Pair, NEW s \in TS!Steps, New(q, s)
      PROVE  base < s /\ s < cycle' /\ AllNew(s)
  <2>1. /\ base < s /\ s <= cycle /\ (s < cycle => AllNew(s)) /\ (s = cycle => AllCaptured)
    BY <1>9 DEF RunShape
  <2>2. s \in Nat
    BY SideNumbers
  <2> QED BY <1>2, <1>7, <2>1, <2>2
<1>10. RunShape(base)'
  <2>1. \A q \in Pair : cycle' \notin TS!Captures(q)
    BY <1>2, <1>8
  <2>2. base <= cycle'
    BY <1>2 DEF RunShape
  <2>3. \A q \in Pair : Promotes(q)' => base < cycle'
    BY <1>2 DEF RunShape
  <2>4. \A q \in Pair : \A s \in TS!Captures(q) : s <= cycle'
    <3> TAKE q \in Pair
    <3> TAKE s \in TS!Captures(q)
    <3>1. s \in Nat /\ s < cycle'
      BY <1>8
    <3> QED BY <1>2, <3>1
  <2>5. \A q \in Pair, s \in TS!Steps : New(q, s) => s <= cycle' /\ s # cycle'
    BY <1>2, <1>9, SideNumbers
  <2> QED BY <1>1, <1>3, <1>5, <1>9, <2>1, <2>2, <2>3, <2>4, <2>5 DEF RunShape, HasCaptured
<1>11. RunRoles(base, w)'
  <2>1. SideOf(w).verified <= base \/ (SideOf(w).verified < cycle' /\ AllNew(SideOf(w).verified))
    <3>1. CASE SideOf(w).verified < cycle /\ AllNew(SideOf(w).verified)
      BY <1>2, <3>1, SideNumbers DEF AllNew
    <3> QED BY <3>1 DEF RunRoles
  <2>2. \/ SideOf(w).candidate <= base
        \/ SideOf(w).candidate < cycle' /\ AllNew(SideOf(w).candidate)
    <3>1. CASE SideOf(w).candidate < cycle /\ AllNew(SideOf(w).candidate)
      BY <1>2, <3>1, SideNumbers DEF AllNew
    <3>2. CASE SideOf(w).candidate = cycle /\ base < cycle /\ AllCaptured
      <4>1. cycle \in TS!Steps
        BY <1>1, <1>2, <3>2, SideNumbers
      <4> QED BY <1>2, <1>7, <3>2, <4>1
    <3> QED BY <3>1, <3>2 DEF RunRoles
  <2>3. SideOf(w).candidate < cycle'
    <3>1. SideOf(w).candidate \in Int
      <4>1. SideOf(w).candidate \in Pointers
        BY Reading
      <4> QED BY <4>1, SideNumbers
    <3> QED BY <1>2, <2>2, <3>1 DEF RunShape
  <2> QED BY <1>3, <2>1, <2>2, <2>3 DEF RunRoles
<1>12. RunBad(w)'
  <2> SUFFICES ASSUME NEW q \in Pair, NEW s \in TS!Steps, Own(q, s).bad
               PROVE  /\ New(q, s) => /\ bad' /\ SideOf(w).verified < s
                                      /\ \A r \in Pair : Promotes(r)' => s = cycle'
                      /\ (\A r \in Pair : Own(r, s).life = 0) =>
                           \A r \in Pair :
                             /\ SideOf(r).verified # s
                             /\ SideOf(r).candidate = s => bad' /\ ~Promotes(r)'
    BY <1>3 DEF RunBad
  <2> QED BY <1>5 DEF RunBad
<1> QED BY <1>10, <1>11, <1>12

(* A new capture after the restart.                                        *)
LEMMA RunCapture ==
  ASSUME SideTypes, NEW base \in 0 .. MaxCycle, NEW w \in Pair,
         RunShape(base), RunRoles(base, w), RunBad(w), NEW r \in Pair, TS!Capture(r),
         UNCHANGED <<setup, cycle, bad, on, loading, home, leaves>>
  PROVE  RunShape(base)' /\ RunRoles(base, w)' /\ RunBad(w)'
<1>1. TS!Does(r, "capture") /\ writes \in [Pair -> Duties] /\ cycle \in 0 .. MaxCycle
  BY DEF TS!Capture, SideTypes
<1>2. /\ writes'[r] = FromOwn
      /\ \A q \in Pair : q # r => writes'[q] = writes[q]
  BY <1>1, Duty
<1>3. /\ Promotes(r) /\ cycle \in TS!Steps /\ shard' = shard /\ side' = side
      /\ \A q \in Pair : q # r => TS!Captures(q)' = TS!Captures(q)
      /\ cycle \in TS!Captures(r)' /\ \A s \in TS!Captures(r)' : s \in TS!Captures(r) \/ s = cycle
  BY Capturing
<1>4. /\ \A q, s : Own(q, s)' = Own(q, s) /\ New(q, s)' = New(q, s)
      /\ \A s : AllNew(s)' = AllNew(s)
      /\ \A q : SideOf(q)' = SideOf(q)
  <2>1. \A q, s : Own(q, s)' = Own(q, s)
    BY <1>3 DEF Own
  <2>2. \A q : SideOf(q)' = SideOf(q)
    BY <1>3 DEF SideOf, TS!Read
  <2> QED BY <2>1, <2>2 DEF New, AllNew
<1>5. AllCaptured => AllCaptured'
  BY <1>3 DEF AllCaptured
<1>6. \A q \in Pair : Promotes(q)' => Promotes(q)
  BY <1>2, <1>3 DEF Promotes
<1>7. RunShape(base)'
  <2>1. ASSUME NEW q \in Pair
        PROVE  /\ writes'[q] # <<"activate">>
               /\ Promotes(q)' => base < cycle
               /\ \A s \in TS!Captures(q)' : s <= cycle
               /\ writes'[q] = FromOwn => cycle \in TS!Captures(q)'
               /\ writes'[q] \in {FromPeer, <<"promote">>} => AllCaptured'
               /\ cycle \in TS!Captures(q)' => New(q, cycle)' \/ writes'[q] \in {Acceptance, FromOwn}
    <3>1. CASE q = r
      <4>1. \A s \in TS!Captures(q)' : s <= cycle
        BY <1>1, <1>3, <3>1 DEF RunShape
      <4>2. base < cycle
        BY <1>3 DEF RunShape
      <4> QED BY <1>2, <1>3, <3>1, <4>1, <4>2, DutiesDiffer
    <3>2. CASE q # r
      <4>1. writes'[q] = writes[q] /\ TS!Captures(q)' = TS!Captures(q)
        BY <1>2, <1>3, <3>2
      <4> QED BY <1>4, <1>5, <1>6, <4>1 DEF RunShape
    <3> QED BY <3>1, <3>2
  <2>2. /\ leaves = 1 /\ (\A q \in Pair : on[q]) /\ loading = "no" /\ base <= cycle
        /\ \A q \in Pair, s \in TS!Steps : New(q, s) =>
             /\ base < s /\ s <= cycle
             /\ s < cycle => AllNew(s)
             /\ s = cycle => AllCaptured
    BY DEF RunShape
  <2> QED BY <1>4, <1>5, <2>1, <2>2 DEF RunShape
<1>8. RunRoles(base, w)'
  BY <1>4, <1>5, <1>6 DEF RunRoles
<1>9. RunBad(w)'
  BY <1>4, <1>6 DEF RunBad
<1> QED BY <1>7, <1>8, <1>9

(* A shard of a boundary after the restart: in the mirror, if both ranks   *)
(* run from it, it is also the one that the peer itself writes.            *)
LEMMA RunShards ==
  ASSUME SideTypes, NEW base \in 0 .. MaxCycle, NEW w \in Pair,
         RunShape(base), RunRoles(base, w), RunBad(w), NEW r \in Pair, TS!WriteShard(r),
         UNCHANGED <<setup, cycle, bad, on, loading, home, leaves>>
  PROVE  RunShape(base)' /\ RunRoles(base, w)' /\ RunBad(w)'
<1>1. home \in [Pair -> TS!Folders] /\ leaves = 1
  BY DEF SideTypes, RunShape
<1>2. /\ slots' = slots /\ side' = side /\ cycle \in TS!Steps /\ Promotes(r) /\ HasCaptured(r)
      /\ \A q \in Pair : q # r => writes'[q] = writes[q]
      /\ TS!Now.bad = bad /\ TS!Now.life = 1
  BY <1>1, ShardWritten
<1>3. PICK owner \in Pair :
        /\ \/ /\ owner = r /\ writes[r] = FromOwn /\ writes'[r] = FromPeer
              /\ \A q \in Pair : cycle \in TS!Captures(q)
           \/ owner # r /\ writes[r] = FromPeer /\ writes'[r] = <<"promote">>
        /\ \A f \in TS!Folders, q \in Pair, s \in TS!Steps :
             shard'[f][q][s] = IF f = home[r] /\ q = owner /\ s = cycle
                               THEN TS!Now ELSE shard[f][q][s]
  BY ShardWritten
<1>31. \A q \in Pair : cycle \in TS!Captures(q)
  BY <1>3 DEF RunShape, AllCaptured
<1>4. /\ \A q : SideOf(q)' = SideOf(q) /\ TS!Captures(q)' = TS!Captures(q)
      /\ AllCaptured /\ AllCaptured' /\ base < cycle
  <2>1. \A q : SideOf(q)' = SideOf(q)
    BY <1>2 DEF SideOf, TS!Read
  <2>2. \A q : TS!Captures(q)' = TS!Captures(q)
    BY <1>2 DEF TS!Captures
  <2> QED BY <1>2, <1>31, <2>1, <2>2 DEF AllCaptured, RunShape
<1>5. ASSUME NEW q \in Pair, NEW s \in TS!Steps
      PROVE  /\ Own(q, s)' = Own(q, s) \/ (s = cycle /\ Own(q, s)' = TS!Now)
             /\ q = r /\ q = owner /\ s = cycle => Own(q, s)' = TS!Now
  <2>1. Own(q, s)' = shard'[home[q]][q][s] /\ home[q] \in TS!Folders
    BY <1>1 DEF Own
  <2> QED BY <1>3, <2>1 DEF Own
<1>6. /\ \A q \in Pair, s \in TS!Steps : New(q, s) => New(q, s)'
      /\ \A q \in Pair, s \in TS!Steps : New(q, s)' => New(q, s) \/ s = cycle
      /\ New(r, cycle)'
  <2>1. /\ \A q \in Pair, s \in TS!Steps : New(q, s) => New(q, s)'
        /\ \A q \in Pair, s \in TS!Steps : New(q, s)' => New(q, s) \/ s = cycle
    BY <1>2, <1>5 DEF New
  <2>2. CASE owner = r
    BY <1>2, <1>5, <2>1, <2>2 DEF New
  <2>3. CASE owner # r
    <3>1. writes[r] = FromPeer
      BY <1>3, <2>3
    <3>2. New(r, cycle)
      BY <1>31, <3>1, DutiesDiffer DEF RunShape
    <3> QED BY <1>2, <2>1, <3>2
  <2> QED BY <2>1, <2>2, <2>3
<1>7. \A s : AllNew(s) => AllNew(s)'
  BY <1>6 DEF AllNew
<1>8. \A q \in Pair : Promotes(q)' => Promotes(q)
  BY <1>2 DEF Promotes
<1>9. RunShape(base)'
  <2>1. ASSUME NEW q \in Pair
        PROVE  /\ writes'[q] # <<"activate">>
               /\ Promotes(q)' => base < cycle
               /\ \A s \in TS!Captures(q) : s <= cycle
               /\ writes'[q] = FromOwn => cycle \in TS!Captures(q)
               /\ cycle \in TS!Captures(q) => New(q, cycle)' \/ writes'[q] \in {Acceptance, FromOwn}
    <3>1. CASE q = r
      BY <1>3, <1>4, <1>6, <3>1, DutiesDiffer DEF RunShape
    <3>2. CASE q # r
      <4>1. writes'[q] = writes[q]
        BY <1>2, <3>2
      <4> QED BY <1>2, <1>4, <1>6, <1>8, <4>1 DEF RunShape
    <3> QED BY <3>1, <3>2
  <2>2. ASSUME NEW q \in Pair, NEW s \in TS!Steps, New(q, s)'
        PROVE  base < s /\ s <= cycle /\ (s < cycle => AllNew(s)')
    <3>1. CASE New(q, s)
      BY <1>7, <3>1 DEF RunShape
    <3>2. CASE s = cycle
      BY <1>4, <3>2, SideNumbers
    <3> QED BY <1>6, <2>2, <3>1, <3>2
  <2>3. leaves = 1 /\ (\A q \in Pair : on[q]) /\ loading = "no" /\ base <= cycle
    BY DEF RunShape
  <2> QED BY <1>4, <2>1, <2>2, <2>3 DEF RunShape
<1>10. RunRoles(base, w)'
  BY <1>4, <1>7, <1>8 DEF RunRoles
<1>11. SideOf(w).verified < cycle
  <2>1. SideOf(w).verified \in Int /\ cycle \in Int /\ base \in Int
    <3>1. SideOf(w).verified \in Pointers
      BY Reading
    <3>2. cycle \in Int /\ base \in Int
      BY <1>2, SideNumbers
    <3> QED BY <3>1, <3>2, SideNumbers
  <2> QED BY <1>4, <2>1 DEF RunRoles
<1>12. RunBad(w)'
  <2>1. ASSUME NEW q \in Pair, NEW s \in TS!Steps, Own(q, s)'.bad
        PROVE  /\ New(q, s)' => /\ bad /\ SideOf(w).verified < s
                                /\ \A p \in Pair : Promotes(p)' => s = cycle
               /\ (\A p \in Pair : Own(p, s)'.life = 0) =>
                    \A p \in Pair :
                      /\ SideOf(p).verified # s
                      /\ SideOf(p).candidate = s => bad /\ ~Promotes(p)'
    <3>1. CASE s = cycle /\ Own(q, s)' = TS!Now
      BY <1>2, <1>11, <2>1, <3>1
    <3>2. CASE Own(q, s)' = Own(q, s)
      <4>1. New(q, s)' = New(q, s)
        BY <3>2 DEF New
      <4>2. \A p \in Pair : Own(p, s)'.life = 0 => Own(p, s).life = 0
        <5>1. \A p \in Pair : Own(p, s)' = Own(p, s) \/ Own(p, s)' = TS!Now
          BY <1>5
        <5> QED BY <1>2, <5>1
      <4> QED BY <1>8, <2>1, <3>2, <4>1, <4>2 DEF RunBad
    <3> QED BY <1>5, <3>1, <3>2
  <2> QED BY <1>4, <2>1 DEF RunBad
<1> QED BY <1>9, <1>10, <1>12

(* A promotion, a rejection or the removal of a candidate after the        *)
(* restart.                                                                *)
LEMMA RunStatus ==
  ASSUME SideTypes, ReadsInv, RotatingOnce, NEW base \in 0 .. MaxCycle, NEW w \in Pair,
         RunShape(base), RunRoles(base, w), RunBad(w), NEW r \in Pair, TS!WriteStatus(r),
         UNCHANGED <<setup, cycle, bad, on, loading, home, leaves>>
  PROVE  RunShape(base)' /\ RunRoles(base, w)' /\ RunBad(w)'
<1>1. /\ writes[r] # <<"activate">> /\ writes \in [Pair -> Duties] /\ home \in [Pair -> TS!Folders]
      /\ (\A q \in Pair : home[q] \in TS!Folders) /\ loading = "no"
  BY DEF RunShape, SideTypes
<1>2. /\ slots' = slots /\ shard' = shard
      /\ \A q \in Pair : q # r => SideOf(q)' = SideOf(q)
  BY <1>1, Turning
<1>3. PICK what \in {"promote", "reject", "clear"} : TS!Does(r, what) /\ Turned(r, what)
  <2>1. PICK what \in {"promote", "reject", "activate", "clear"} : TS!Does(r, what) /\ Turned(r, what)
    BY <1>1, Turning
  <2>2. writes[r] = <<what>>
    BY <1>1, <2>1, Duty
  <2> QED BY <1>1, <2>1, <2>2
<1>4. /\ writes[r] = <<what>> /\ writes'[r] = <<>>
      /\ \A q \in Pair : q # r => writes'[q] = writes[q]
  BY <1>1, <1>3, Duty
<1>5. /\ \A q, s : Own(q, s)' = Own(q, s) /\ New(q, s)' = New(q, s)
      /\ \A s : AllNew(s)' = AllNew(s)
      /\ \A q : TS!Captures(q)' = TS!Captures(q)
      /\ AllCaptured' = AllCaptured
      /\ \A q \in Pair : q # r => SideOf(q)' = SideOf(q)
  <2>1. \A q, s : Own(q, s)' = Own(q, s)
    BY <1>2 DEF Own
  <2>2. \A q : TS!Captures(q)' = TS!Captures(q)
    BY <1>2 DEF TS!Captures
  <2> QED BY <1>2, <2>1, <2>2 DEF New, AllNew, AllCaptured
<1>6. \A q \in Pair : Promotes(q)' => Promotes(q) /\ q # r
  BY <1>4, DutiesDiffer DEF Promotes
<1>7. cycle \in TS!Captures(r) => New(r, cycle)
  BY <1>4, DutiesDiffer DEF RunShape
<1>8. \/ /\ writes[r] = <<"promote">> /\ Promotes(r) /\ AllCaptured /\ base < cycle /\ New(r, cycle)
         /\ SideOf(r)'.verified = (IF SideOf(r).candidate # TS!NoStep
                                   THEN SideOf(r).candidate ELSE SideOf(r).verified)
         /\ SideOf(r)'.candidate = cycle
      \/ SideOf(r)'.verified = SideOf(r).verified /\ SideOf(r)'.candidate = TS!NoStep
  <2>1. CASE what = "promote"
    <3>1. Promotes(r) /\ AllCaptured /\ base < cycle
      BY <1>4, <2>1 DEF RunShape, Promotes
    <3>2. New(r, cycle)
      BY <1>7, <3>1 DEF AllCaptured
    <3> QED BY <1>3, <1>4, <2>1, <3>1, <3>2 DEF Turned
  <2>2. CASE what \in {"reject", "clear"}
    BY <1>3, <2>2 DEF Turned
  <2> QED BY <1>3, <2>1, <2>2
<1>9. /\ TS!NoStep = -1 /\ base \in Nat /\ cycle \in Nat
      /\ \A s \in TS!Steps : s \in Nat /\ s # TS!NoStep
      /\ \A q \in Pair : SideOf(q).candidate \in Int /\ SideOf(q).verified \in Int
  <2>1. \A q \in Pair : SideOf(q).candidate \in Pointers /\ SideOf(q).verified \in Pointers
    BY Reading
  <2>2. cycle \in 0 .. MaxCycle /\ MaxCycle \in Nat
    BY SideNumbers DEF SideTypes
  <2>3. cycle \in Nat /\ base \in Nat
    BY <2>2
  <2> QED BY <2>1, <2>3, SideNumbers
<1>10. RunShape(base)'
  <2>1. ASSUME NEW q \in Pair
        PROVE  /\ writes'[q] # <<"activate">>
               /\ Promotes(q)' => base < cycle
               /\ \A s \in TS!Captures(q) : s <= cycle
               /\ writes'[q] = FromOwn => cycle \in TS!Captures(q)
               /\ writes'[q] \in {FromPeer, <<"promote">>} => AllCaptured
               /\ cycle \in TS!Captures(q) => New(q, cycle) \/ writes'[q] \in {Acceptance, FromOwn}
    <3>1. CASE q = r
      BY <1>4, <1>6, <1>7, <3>1, DutiesDiffer DEF RunShape
    <3>2. CASE q # r
      <4>1. writes'[q] = writes[q]
        BY <1>4, <3>2
      <4> QED BY <1>6, <4>1 DEF RunShape
    <3> QED BY <3>1, <3>2
  <2>2. /\ leaves = 1 /\ (\A q \in Pair : on[q]) /\ loading = "no" /\ base <= cycle
        /\ \A q \in Pair, s \in TS!Steps : New(q, s) =>
             /\ base < s /\ s <= cycle
             /\ s < cycle => AllNew(s)
             /\ s = cycle => AllCaptured
    BY DEF RunShape
  <2> QED BY <1>5, <2>1, <2>2 DEF RunShape
<1>11. RunRoles(base, w)'
  <2>1. CASE w # r
    BY <1>5, <1>6, <2>1 DEF RunRoles
  <2>2. CASE w = r /\ SideOf(r)'.verified = SideOf(r).verified /\ SideOf(r)'.candidate = TS!NoStep
    <3>1. TS!NoStep <= base /\ ~Promotes(w)'
      BY <1>6, <1>9, <2>2
    <3> QED BY <1>5, <2>2, <3>1 DEF RunRoles
  <2>3. CASE /\ w = r /\ Promotes(r) /\ AllCaptured /\ base < cycle
             /\ SideOf(r)'.verified = (IF SideOf(r).candidate # TS!NoStep
                                       THEN SideOf(r).candidate ELSE SideOf(r).verified)
             /\ SideOf(r)'.candidate = cycle
    <3>1. SideOf(r).candidate < cycle /\ ~Promotes(w)'
      BY <1>6, <2>3 DEF RunRoles
    <3>2. SideOf(r).candidate <= base \/ (SideOf(r).candidate < cycle /\ AllNew(SideOf(r).candidate))
      BY <1>9, <2>3, <3>1 DEF RunRoles
    <3> QED BY <1>5, <2>3, <3>1, <3>2 DEF RunRoles
  <2> QED BY <1>8, <2>1, <2>2, <2>3
<1>12. RunBad(w)'
  <2>1. ASSUME NEW q \in Pair, NEW s \in TS!Steps, Own(q, s).bad
        PROVE  /\ New(q, s) => /\ bad /\ SideOf(w)'.verified < s
                               /\ \A p \in Pair : Promotes(p)' => s = cycle
               /\ (\A p \in Pair : Own(p, s).life = 0) =>
                    \A p \in Pair :
                      /\ SideOf(p)'.verified # s
                      /\ SideOf(p)'.candidate = s => bad /\ ~Promotes(p)'
    <3>1. /\ New(q, s) => /\ bad /\ SideOf(w).verified < s
                          /\ \A p \in Pair : Promotes(p) => s = cycle
          /\ (\A p \in Pair : Own(p, s).life = 0) =>
               \A p \in Pair :
                 /\ SideOf(p).verified # s
                 /\ SideOf(p).candidate = s => bad /\ ~Promotes(p)
      BY <2>1 DEF RunBad
    <3>2. ASSUME New(q, s)
          PROVE  SideOf(w)'.verified < s
      <4>1. CASE w # r \/ SideOf(r)'.verified = SideOf(r).verified
        BY <1>5, <3>1, <3>2, <4>1
      <4>2. CASE w = r /\ Promotes(r) /\ SideOf(r)'.verified = SideOf(r).candidate
        BY <3>1, <3>2, <4>2 DEF RunRoles
      <4> QED BY <1>8, <4>1, <4>2
    <3>3. ASSUME \A p \in Pair : Own(p, s).life = 0, NEW p \in Pair
          PROVE  SideOf(p)'.verified # s /\ (SideOf(p)'.candidate = s => bad /\ ~Promotes(p)')
      <4>4. \A x \in Pair :
              /\ SideOf(x).verified # s
              /\ SideOf(x).candidate = s => bad /\ ~Promotes(x)
        BY <3>1, <3>3
      <4>1. CASE p # r
        BY <1>5, <1>6, <4>1, <4>4
      <4>2. CASE p = r /\ SideOf(r)'.verified = SideOf(r).verified /\ SideOf(r)'.candidate = TS!NoStep
        BY <1>9, <4>2, <4>4
      <4>3. CASE /\ p = r /\ Promotes(r) /\ New(r, cycle)
                 /\ SideOf(r)'.verified = (IF SideOf(r).candidate # TS!NoStep
                                           THEN SideOf(r).candidate ELSE SideOf(r).verified)
                 /\ SideOf(r)'.candidate = cycle
        <5>1. s # cycle
          <6>1. CASE s = cycle
            <7>1. Own(r, cycle).life = 0 /\ Own(r, cycle).life = 1
              BY <3>3, <4>3, <6>1 DEF New
            <7> QED BY <7>1
          <6> QED BY <6>1
        <5>2. SideOf(r).candidate # s /\ SideOf(r).verified # s
          BY <4>3, <4>4
        <5> QED BY <4>3, <5>1, <5>2
      <4> QED BY <1>8, <4>1, <4>2, <4>3
    <3> QED BY <1>6, <3>1, <3>2, <3>3
  <2> QED BY <1>5, <2>1 DEF RunBad
<1> QED BY <1>10, <1>11, <1>12

(* What a verified recovery would settle on, before the first stop and     *)
(* after the load.                                                         *)
LEMMA FirstPick ==
  ASSUME SideTypes, ReadsInv, FirstInv
  PROVE  TS!PickIsClean /\ TS!PickIsOneRun
<1>1. SUFFICES ASSUME TS!VerifiedPick # TS!NoStep
               PROVE  \A r \in Pair : ~Own(r, TS!VerifiedPick).bad /\ Own(r, TS!VerifiedPick).life = 0
  BY DEF TS!PickIsClean, TS!PickIsOneRun, Own
<1>2. /\ TS!VerifiedPick \in TS!Steps
      /\ \A r \in Pair : Own(r, TS!VerifiedPick) # TS!NoShard /\ TS!VerifiedPick <= SideOf(r).verified
  BY <1>1, PickIs
<1>3. ASSUME NEW r \in Pair
      PROVE  ~Own(r, TS!VerifiedPick).bad /\ Own(r, TS!VerifiedPick).life = 0
  <2>1. Own(r, TS!VerifiedPick) \in Copies /\ home[r] \in TS!Folders
    BY <1>2, OwnCopies DEF SideTypes
  <2>2. Own(r, TS!VerifiedPick).life = 0
    BY <1>2, <2>1, SideNumbers DEF FirstInv, FirstShape, Own
  <2>3. ASSUME Own(r, TS!VerifiedPick).bad
        PROVE  FALSE
    <3>1. BadAt(TS!VerifiedPick)
      BY <2>1, <2>3 DEF BadAt, Own
    <3>2. SideOf(r).verified < TS!VerifiedPick
      <4>1. home[r] = r
        BY DEF FirstInv, FirstShape
      <4>2. SideOf(r).verified = side[r][r].verified
        BY <4>1, AtHome
      <4> QED BY <1>2, <2>1, <3>1, <4>1, <4>2 DEF FirstInv, FirstBad
    <3>3. SideOf(r).verified \in Pointers /\ TS!VerifiedPick \in Pointers
      BY Reading, PickIs
    <3>4. SideOf(r).verified \in Int /\ TS!VerifiedPick \in Int
      BY <3>3, SideNumbers
    <3> QED BY <1>2, <3>2, <3>4
  <2> QED BY <2>2, <2>3
<1> QED BY <1>3

LEMMA RunPick ==
  ASSUME SideTypes, ReadsInv, NEW base \in 0 .. MaxCycle, NEW w \in Pair,
         RunShape(base), RunRoles(base, w), RunBad(w)
  PROVE  TS!PickIsClean /\ TS!PickIsOneRun
<1>1. SUFFICES ASSUME TS!VerifiedPick # TS!NoStep
               PROVE  \/ \A r \in Pair : ~Own(r, TS!VerifiedPick).bad /\ Own(r, TS!VerifiedPick).life = 0
                      \/ \A r \in Pair : ~Own(r, TS!VerifiedPick).bad /\ Own(r, TS!VerifiedPick).life = 1
  BY DEF TS!PickIsClean, TS!PickIsOneRun, Own
<1>2. /\ TS!VerifiedPick \in TS!Steps
      /\ \A r \in Pair : Own(r, TS!VerifiedPick) # TS!NoShard /\ TS!VerifiedPick <= SideOf(r).verified
  BY <1>1, PickIs
<1>3. PICK v \in Pair : TS!VerifiedPick = SideOf(v).verified
  <2>1. PICK v \in Pair : TS!VerifiedPick = TS!VerifiedVote(v)
    BY <1>1, PickIs
  <2>2. TS!VerifiedPick = SideOf(v).verified
    BY <1>1, <2>1, Votes
  <2> QED BY <2>2
<1>4. \A r \in Pair : Own(r, TS!VerifiedPick).life \in {0, 1} /\ Own(r, TS!VerifiedPick).bad \in BOOLEAN
  <2>1. \A r \in Pair : Own(r, TS!VerifiedPick) \in Copies
    BY <1>2, OwnCopies
  <2> QED BY <1>2, <2>1, SideNumbers
<1>5. TS!VerifiedPick \in Int /\ SideOf(w).verified \in Int /\ base \in Int /\ cycle \in Int
  <2>1. SideOf(w).verified \in Pointers /\ TS!VerifiedPick \in Pointers /\ cycle \in 0 .. MaxCycle
    BY Reading, PickIs DEF SideTypes
  <2>2. MaxCycle \in Nat
    BY SideNumbers
  <2>3. base \in Int /\ cycle \in Int
    BY <2>1, <2>2
  <2> QED BY <2>1, <2>3, SideNumbers
<1>6. CASE \E q \in Pair : New(q, TS!VerifiedPick)
  <2>1. base < TS!VerifiedPick /\ (TS!VerifiedPick < cycle => AllNew(TS!VerifiedPick))
    BY <1>2, <1>6 DEF RunShape
  <2>2. TS!VerifiedPick <= SideOf(w).verified
    BY <1>2
  <2>3. SideOf(w).verified < cycle
    BY <1>5, <2>1, <2>2 DEF RunRoles
  <2>4. AllNew(TS!VerifiedPick)
    BY <1>5, <2>1, <2>2, <2>3
  <2>5. ASSUME NEW r \in Pair, Own(r, TS!VerifiedPick).bad
        PROVE  FALSE
    <3>1. New(r, TS!VerifiedPick)
      BY <2>4 DEF AllNew
    <3>2. SideOf(w).verified < TS!VerifiedPick
      BY <1>2, <2>5, <3>1 DEF RunBad
    <3> QED BY <1>5, <2>2, <3>2
  <2> QED BY <2>4, <2>5 DEF AllNew, New
<1>7. CASE ~ \E q \in Pair : New(q, TS!VerifiedPick)
  <2>1. \A r \in Pair : Own(r, TS!VerifiedPick).life = 0
    BY <1>4, <1>7 DEF New
  <2>2. ASSUME NEW r \in Pair, Own(r, TS!VerifiedPick).bad
        PROVE  FALSE
    <3>1. SideOf(v).verified # TS!VerifiedPick
      BY <1>2, <2>1, <2>2 DEF RunBad
    <3> QED BY <1>3, <3>1
  <2> QED BY <2>1, <2>2
<1> QED BY <1>6, <1>7

-----------------------------------------------------------------------------
SideInv ==
  /\ SideTypes /\ ReadsInv
  /\ leaves = 0 => FirstInv
  /\ leaves = 1 => LoadInv \/ RunInv

(* The types after each kind of step.                                      *)
LEMMA SideInit ==
  ASSUME RotatingOnce, TS!Init
  PROVE  SideInv
<1>1. /\ setup \in Setups /\ cycle = 0 /\ bad = FALSE /\ slots = [r \in Pair |-> {}]
      /\ writes = [r \in Pair |-> <<>>] /\ on = [r \in Pair |-> TRUE] /\ loading = "no"
      /\ home = [r \in Pair |-> r] /\ shard = [f \in TS!Folders |-> TS!EmptyFolder]
      /\ side = [f \in TS!Folders |-> [r \in Pair |-> TS!NoStatus]] /\ leaves = 0
  BY DEF TS!Init
<1>2. /\ \A f \in TS!Folders, q \in Pair : side[f][q] = TS!NoStatus
      /\ \A f \in TS!Folders, q \in Pair, s \in TS!Steps : shard[f][q][s] = TS!NoShard
      /\ \A r \in Pair : writes[r] = <<>> /\ home[r] = r /\ r \in TS!Folders /\ TS!Peer(r) \in Pair
      /\ TS!Mirror \in TS!Folders
      /\ TS!NoStatus.verified = TS!NoStep /\ TS!NoStatus.candidate = TS!NoStep
  BY <1>1, Pairs DEF TS!Folders, TS!EmptyFolder, TS!NoStatus
<1>3. \A r \in Pair : ~Promotes(r) /\ ~HasCaptured(r) /\ ~ReadsPeers(r)
  BY <1>2, Pairs, DutiesDiffer DEF Promotes, HasCaptured, ReadsPeers
<1>4. SideTypes
  <2>1. cycle \in 0 .. MaxCycle
    BY <1>1, SideNumbers
  <2>2. TS!EmptyFolder \in [Pair -> [TS!Steps -> Copies]]
    BY DEF TS!EmptyFolder, Copies
  <2>3. shard \in [TS!Folders -> [Pair -> [TS!Steps -> Copies]]]
    BY <1>1, <2>2
  <2>4. side \in [TS!Folders -> [Pair -> Sides]]
    BY <1>1 DEF Sides
  <2>5. home \in [Pair -> TS!Folders]
    BY <1>1 DEF TS!Folders
  <2>6. writes \in [Pair -> Duties]
    BY <1>1 DEF Duties
  <2> QED BY <1>1, <1>3, <2>1, <2>3, <2>4, <2>5, <2>6 DEF SideTypes
<1>5. ReadsInv
  BY <1>2, <1>3, Pairs DEF ReadsInv
<1>6. /\ \A q \in Pair : TS!Captures(q) = {} /\ slots[q] = {}
      /\ \A s \in TS!Steps : ~Seen(s) /\ ~BadAt(s)
      /\ ~MirrorUsed
  <2>1. \A q \in Pair : TS!Captures(q) = {} /\ slots[q] = {}
    BY <1>1 DEF TS!Captures
  <2>2. \A s \in TS!Steps : ~Seen(s) /\ ~BadAt(s)
    BY <1>2, <2>1, SideNumbers DEF Seen, Somewhere, BadAt
  <2> QED BY <1>2, <2>1, <2>2 DEF MirrorUsed
<1>7. ~Seen(cycle)
  BY <1>1, <1>6, SideNumbers DEF Seen, Somewhere
<1>8. FirstShape
  BY <1>1, <1>2, <1>6, DutiesDiffer, SideNumbers DEF FirstShape
<1>9. FirstBad /\ FirstFiles
  BY <1>1, <1>2, <1>3, <1>6, <1>7, DutiesDiffer DEF FirstBad, FirstFiles
<1>10. FirstRoles
  BY <1>1, <1>2, <1>3, SideNumbers DEF FirstRoles
<1> QED BY <1>1, <1>4, <1>5, <1>8, <1>9, <1>10 DEF SideInv, FirstInv

(* A rank that goes on towards a promotion reads what it read.             *)
LEMMA ReadsOnward ==
  ASSUME ReadsInv, side' = side, home' = home, loading' = loading,
         \A q \in Pair : Promotes(q)' <=> Promotes(q),
         \A q \in Pair : writes'[q] = writes[q] \/ Promotes(q)'
  PROVE  ReadsInv'
<1>1. \A q \in Pair : Promotes(q)' => writes'[q] # <<>> /\ writes'[q] # <<"clear">>
  BY DutiesDiffer DEF Promotes
<1>2. \A q \in Pair : SideOf(q)' = SideOf(q) /\ TS!Peer(q) \in Pair
  BY Pairs DEF SideOf, TS!Read
<1>3. \A q \in Pair : ReadsPeers(q)' <=> ReadsPeers(q)
  BY DEF ReadsPeers
<1>4. ASSUME NEW q \in Pair, PeerStays(q)
      PROVE  PeerStays(q)'
  BY <1>1, <1>2, <1>4 DEF PeerStays
<1> QED BY <1>3, <1>4 DEF ReadsInv

LEMMA CycleTypes ==
  ASSUME SideTypes, ReadsInv, TS!Cycle
  PROVE  SideTypes' /\ ReadsInv'
<1>1. /\ cycle \in 0 .. MaxCycle /\ cycle < MaxCycle /\ cycle' = cycle + 1 /\ MaxCycle \in Nat
      /\ UNCHANGED <<setup, slots, on, loading, home, TS!files, leaves>>
      /\ shard' = shard /\ side' = side
  BY SideNumbers DEF TS!Cycle, SideTypes, TS!files
<1>2. bad' \in BOOLEAN /\ writes' \in [Pair -> Duties]
  <2>1. CASE TS!Unsafe
    BY <2>1 DEF TS!Unsafe, TS!EachDoes, Duties, SideTypes
  <2>2. CASE TS!Accepted
    BY <2>2 DEF TS!Accepted, TS!EachDoes, Duties, Acceptance, SideTypes
  <2> QED BY <2>1, <2>2 DEF TS!Cycle
<1>3. cycle' \in 0 .. MaxCycle /\ cycle' \in TS!Steps
  BY <1>1, SideNumbers
<1>4. SideTypes'
  BY <1>1, <1>2, <1>3 DEF SideTypes
<1>5. ReadsInv'
  <2>1. loading = "no" /\ \A q \in Pair : writes[q] = <<>>
    BY DEF TS!Cycle, TS!Running
  <2>2. \/ \A q \in Pair : ~Promotes(q)' /\ writes'[q] = <<"reject">>
        \/ \A q \in Pair : Promotes(q)' /\ writes'[q] = Acceptance
    <3>1. CASE TS!Unsafe
      <4>1. \A q \in Pair : writes'[q] = <<"reject">>
        BY <3>1 DEF TS!Unsafe, TS!EachDoes
      <4> QED BY <4>1, DutiesDiffer DEF Promotes
    <3>2. CASE TS!Accepted
      <4>1. \A q \in Pair : writes'[q] = Acceptance
        BY <3>2 DEF TS!Accepted, TS!EachDoes, Acceptance
      <4> QED BY <4>1 DEF Promotes
    <3> QED BY <3>1, <3>2 DEF TS!Cycle
  <2>3. \A q \in Pair : writes'[q] # <<>> /\ writes'[q] # <<"clear">>
    BY <2>2, DutiesDiffer
  <2>4. \A q \in Pair : SideOf(q)' = SideOf(q) /\ TS!Peer(q) \in Pair
    BY <1>1, Pairs DEF SideOf, TS!Read
  <2>5. \A q \in Pair : ReadsPeers(q)' <=> ReadsPeers(q)
    BY <1>1 DEF ReadsPeers
  <2>6. ASSUME NEW q \in Pair, PeerStays(q)
        PROVE  PeerStays(q)'
    <3>1. SideOf(TS!Peer(q)).candidate = TS!NoStep
      BY <2>1, <2>6 DEF PeerStays
    <3> QED BY <2>2, <2>3, <2>4, <3>1 DEF PeerStays
  <2> QED BY <1>1, <2>5, <2>6 DEF ReadsInv
<1> QED BY <1>4, <1>5

LEMMA WriteTypes ==
  ASSUME SideTypes, ReadsInv, RotatingOnce, NEW r \in Pair, TS!Write(r),
         loading = "no" => writes[r] # <<"activate">>,
         loading # "no" => writes[r] \in {<<"activate">>, <<>>}
  PROVE  SideTypes' /\ ReadsInv'
<1>1. /\ UNCHANGED <<setup, cycle, bad, on, loading, home, leaves>>
      /\ TS!Capture(r) \/ TS!WriteShard(r) \/ TS!WriteStatus(r)
  BY DEF TS!Write
<1>2. /\ slots \in [Pair -> SUBSET [step : TS!Steps, bad : BOOLEAN]]
      /\ shard \in [TS!Folders -> [Pair -> [TS!Steps -> Copies]]]
      /\ side \in [TS!Folders -> [Pair -> Sides]]
      /\ writes \in [Pair -> Duties]
      /\ \A q \in Pair : Promotes(q) => cycle \in TS!Steps
  BY DEF SideTypes
<1>3. \E what : TS!Does(r, what)
  BY <1>1 DEF TS!Capture, TS!WriteShard, TS!WriteStatus
<1>4. writes' \in [Pair -> Duties] /\ \A q \in Pair : Promotes(q)' => Promotes(q)
  <2>1. PICK what : TS!Does(r, what)
    BY <1>3
  <2>2. writes' \in [Pair -> Duties] /\ \A q \in Pair : q # r => writes'[q] = writes[q]
    BY <1>2, <2>1, Duty
  <2>3. Promotes(r)' => Promotes(r)
    <3>1. writes[r] \in {Acceptance, FromOwn, FromPeer} \/ writes'[r] = <<>>
      BY <1>2, <2>1, Duty
    <3> QED BY <3>1, DutiesDiffer DEF Promotes
  <2> QED BY <2>2, <2>3 DEF Promotes
<1>5. /\ slots' \in [Pair -> SUBSET [step : TS!Steps, bad : BOOLEAN]]
      /\ shard' \in [TS!Folders -> [Pair -> [TS!Steps -> Copies]]]
      /\ side' \in [TS!Folders -> [Pair -> Sides]]
      /\ ReadsInv'
  <2>1. CASE TS!Capture(r)
    <3>1. /\ slots' \in [Pair -> SUBSET [step : TS!Steps, bad : BOOLEAN]]
          /\ shard' = shard /\ side' = side /\ Promotes(r)
      BY <2>1, Capturing
    <3>2. writes'[r] = FromOwn /\ \A q \in Pair : q # r => writes'[q] = writes[q]
      BY <1>2, <2>1, Duty DEF TS!Capture
    <3>3. /\ \A q \in Pair : Promotes(q)' <=> Promotes(q)
          /\ \A q \in Pair : writes'[q] = writes[q] \/ Promotes(q)'
      BY <3>1, <3>2 DEF Promotes
    <3> QED BY <1>1, <1>2, <3>1, <3>3, ReadsOnward
  <2>2. CASE TS!WriteShard(r)
    <3>1. /\ shard' \in [TS!Folders -> [Pair -> [TS!Steps -> Copies]]]
          /\ slots' = slots /\ side' = side /\ Promotes(r)
          /\ writes'[r] \in {FromPeer, <<"promote">>}
          /\ \A q \in Pair : q # r => writes'[q] = writes[q]
      BY <2>2, ShardWritten
    <3>2. /\ \A q \in Pair : Promotes(q)' <=> Promotes(q)
          /\ \A q \in Pair : writes'[q] = writes[q] \/ Promotes(q)'
      BY <3>1 DEF Promotes
    <3> QED BY <1>1, <1>2, <3>1, <3>2, ReadsOnward
  <2>3. CASE TS!WriteStatus(r)
    <3>1. /\ slots' = slots /\ shard' = shard
          /\ side' \in [TS!Folders -> [Pair -> Sides]]
          /\ ReadsInv'
      BY <1>1, <2>3, Turning
    <3> QED BY <1>2, <3>1
  <2> QED BY <1>1, <2>1, <2>2, <2>3
<1>6. SideTypes'
  BY <1>1, <1>2, <1>4, <1>5 DEF SideTypes
<1> QED BY <1>5, <1>6

(* With a durable coordinator: the ranks keep together what they trust.    *)
LEMMA PointerNumbers ==
  ASSUME SideTypes, ReadsInv, NEW base \in 0 .. MaxCycle
  PROVE  /\ TS!NoStep = -1 /\ base \in Int /\ cycle \in Int /\ TS!NoStep < cycle
         /\ \A s \in TS!Steps : s \in Int /\ s # TS!NoStep
         /\ \A q \in Pair :
              /\ SideOf(q).candidate \in Int /\ SideOf(q).verified \in Int
              /\ SideOf(q).verified # TS!NoStep => SideOf(q).verified \in TS!Steps
              /\ SideOf(q).candidate # TS!NoStep => SideOf(q).candidate \in TS!Steps
<1>1. \A q \in Pair : SideOf(q).candidate \in Pointers /\ SideOf(q).verified \in Pointers
  BY Reading
<1>2. cycle \in 0 .. MaxCycle /\ MaxCycle \in Nat
  BY SideNumbers DEF SideTypes
<1>3. cycle \in Nat /\ base \in Nat
  BY <1>2
<1>4. \A x \in Pointers : x # TS!NoStep => x \in TS!Steps
  BY DEF Pointers
<1>5. TS!NoStep = -1 /\ \A s \in TS!Steps : s \in Int /\ s # TS!NoStep
  BY SideNumbers
<1>6. \A q \in Pair : SideOf(q).candidate \in Int /\ SideOf(q).verified \in Int
  BY <1>1, SideNumbers
<1> QED BY <1>1, <1>3, <1>4, <1>5, <1>6

LEMMA TrustSelect ==
  ASSUME SideTypes, ReadsInv, RotatingOnce, LoadInv, setup.durable, TS!Select,
         NEW base \in 0 .. MaxCycle, NEW w \in Pair
  PROVE  RunTrust(base, w)'
<1>1. /\ writes' = [r \in Pair |-> <<"clear">>] /\ UNCHANGED <<home, TS!files>>
      /\ shard' = shard /\ side' = side
  BY DEF TS!Select, TS!EachDoes, TS!files
<1>2. /\ \A r \in Pair : writes'[r] = <<"clear">> /\ ~Promotes(r)'
      /\ \A q, s : Own(q, s)' = Own(q, s)
      /\ \A q : SideOf(q)' = SideOf(q)
  <2>1. \A q : SideOf(q)' = SideOf(q)
    BY <1>1 DEF SideOf, TS!Read
  <2> QED BY <1>1, <2>1, DutiesDiffer DEF Promotes, Own
<1>3. ASSUME NEW r \in Pair, NEW q \in Pair,
             SideOf(r).verified # TS!NoStep, SideOf(q).verified # TS!NoStep
      PROVE  Own(r, SideOf(q).verified) # TS!NoShard
  BY <1>3, PointerNumbers DEF LoadInv
<1>4. \A r \in Pair : SideOf(r).verified # TS!NoStep => Own(r, SideOf(r).verified) # TS!NoShard
  BY <1>3
<1>5. \A r, q \in Pair : Alongside(r, q)'
  BY <1>2, <1>3, DutiesDiffer DEF Alongside
<1> QED BY <1>2, <1>4, <1>5 DEF RunTrust

LEMMA TrustCycle ==
  ASSUME SideTypes, ReadsInv, NEW base \in 0 .. MaxCycle, NEW w \in Pair,
         RunShape(base), RunRoles(base, w), RunTrust(base, w), TS!Cycle
  PROVE  RunTrust(base, w)'
<1>1. /\ \A r \in Pair : on[r] /\ writes[r] = <<>>
      /\ cycle' = cycle + 1
      /\ UNCHANGED <<setup, slots, on, loading, home, TS!files, leaves>>
      /\ shard' = shard /\ side' = side
  BY DEF TS!Cycle, TS!Running, TS!files
<1>2. /\ \A q, s : Own(q, s)' = Own(q, s)
      /\ \A s : AllNew(s)' = AllNew(s)
      /\ \A q : SideOf(q)' = SideOf(q)
  <2>1. \A q, s : Own(q, s)' = Own(q, s)
    BY <1>1 DEF Own
  <2>2. \A q : SideOf(q)' = SideOf(q)
    BY <1>1 DEF SideOf, TS!Read
  <2> QED BY <2>1, <2>2 DEF New, AllNew
<1>3. \/ \A r \in Pair : writes'[r] = <<"reject">> /\ ~Promotes(r)'
      \/ \A r \in Pair : writes'[r] = Acceptance /\ Promotes(r)'
  <2>1. CASE TS!Unsafe
    <3>1. \A r \in Pair : writes'[r] = <<"reject">>
      BY <2>1 DEF TS!Unsafe, TS!EachDoes
    <3> QED BY <3>1, DutiesDiffer DEF Promotes
  <2>2. CASE TS!Accepted
    BY <2>2 DEF TS!Accepted, TS!EachDoes, Acceptance, Promotes
  <2> QED BY <2>1, <2>2 DEF TS!Cycle
<1>4. \A r \in Pair : ~Promotes(r) /\ writes[r] # <<"clear">>
  BY <1>1, DutiesDiffer DEF Promotes
<1>5. AllCaptured /\ cycle \in TS!Steps => AllNew(cycle)
  BY <1>1, DutiesDiffer DEF AllCaptured, AllNew, RunShape
<1>6. ASSUME NEW r \in Pair
      PROVE  /\ SideOf(r).candidate = TS!NoStep \/ (SideOf(r).candidate < cycle' /\ AllNew(SideOf(r).candidate))
             /\ SideOf(r).candidate < cycle'
  <2>1. \/ SideOf(r).candidate = TS!NoStep
        \/ SideOf(r).candidate < cycle /\ AllNew(SideOf(r).candidate)
        \/ SideOf(r).candidate = cycle /\ base < cycle /\ AllCaptured
    BY <1>4 DEF RunTrust, Fresh
  <2>2. SideOf(r).candidate = cycle /\ SideOf(r).candidate # TS!NoStep => cycle \in TS!Steps
    BY PointerNumbers
  <2>3. cycle < cycle' /\ TS!NoStep < cycle' /\ cycle \in Int /\ cycle' \in Int /\ SideOf(r).candidate \in Int
    BY <1>1, PointerNumbers
  <2> QED BY <1>5, <2>1, <2>2, <2>3
<1>7. ASSUME NEW r \in Pair
      PROVE  Fresh(base, r)'
  BY <1>2, <1>6 DEF Fresh
<1>8. \A r \in Pair :
        /\ SideOf(r).verified # TS!NoStep => Own(r, SideOf(r).verified) # TS!NoShard
        /\ SideOf(r).candidate # TS!NoStep => SideOf(w).verified <= SideOf(r).candidate
  BY <1>4 DEF RunTrust
<1>9. ASSUME NEW r \in Pair, NEW q \in Pair, r # q
      PROVE  Alongside(r, q)'
  <2>1. Alongside(r, q)
    BY <1>9 DEF RunTrust
  <2>2. /\ SideOf(r).candidate = SideOf(q).candidate
        /\ SideOf(r).verified # TS!NoStep /\ SideOf(q).verified # TS!NoStep =>
             Own(r, SideOf(q).verified) # TS!NoShard
    BY <1>1, <1>4, <2>1 DEF Alongside
  <2> QED BY <1>2, <1>3, <2>2, DutiesDiffer DEF Alongside
<1> QED BY <1>2, <1>7, <1>8, <1>9 DEF RunTrust

(* A capture, or a shard: the rank stays on its way to a promotion.        *)
LEMMA TrustGoesOn ==
  ASSUME SideTypes, ReadsInv, NEW base \in 0 .. MaxCycle, NEW w \in Pair,
         RunTrust(base, w), NEW r \in Pair, Promotes(r), Promotes(r)',
         UNCHANGED <<setup, cycle, bad, on, loading, home, leaves>>, side' = side,
         \A q \in Pair : q # r => writes'[q] = writes[q],
         AllCaptured => AllCaptured',
         \A q \in Pair, s \in TS!Steps : New(q, s) => New(q, s)',
         \A q \in Pair, s \in TS!Steps : Own(q, s) # TS!NoShard => Own(q, s)' # TS!NoShard
  PROVE  RunTrust(base, w)'
<1>1. /\ \A q : SideOf(q)' = SideOf(q)
      /\ \A s : AllNew(s) => AllNew(s)'
  BY DEF SideOf, TS!Read, AllNew
<1>2. \A q \in Pair : Promotes(q)' <=> Promotes(q)
  BY DEF Promotes
<1>3. /\ writes[r] # <<>> /\ writes[r] # <<"clear">> /\ writes[r] # <<"reject">>
      /\ writes'[r] # <<>> /\ writes'[r] # <<"clear">> /\ writes'[r] # <<"reject">>
  BY DutiesDiffer DEF Promotes
<1>4. \A q \in Pair : Fresh(base, q) => Fresh(base, q)'
  BY <1>1, <1>2 DEF Fresh
<1>5. ASSUME NEW q \in Pair
      PROVE  /\ SideOf(q).verified # TS!NoStep => Own(q, SideOf(q).verified)' # TS!NoShard
             /\ writes'[q] # <<"clear">> =>
                  /\ Fresh(base, q)'
                  /\ SideOf(q).candidate # TS!NoStep => SideOf(w).verified <= SideOf(q).candidate
  <2>1. writes'[q] # <<"clear">> => writes[q] # <<"clear">>
    BY <1>3
  <2>2. SideOf(q).verified # TS!NoStep =>
          Own(q, SideOf(q).verified) # TS!NoShard /\ SideOf(q).verified \in TS!Steps
    BY PointerNumbers DEF RunTrust
  <2>3. \A s \in TS!Steps : s = SideOf(q).verified => (Own(q, s) # TS!NoShard => Own(q, SideOf(q).verified)' # TS!NoShard)
    BY <1>1
  <2> QED BY <1>4, <2>1, <2>2, <2>3 DEF RunTrust
<1>6. ASSUME NEW p \in Pair, NEW q \in Pair, p # q
      PROVE  Alongside(p, q)'
  <2>1. Alongside(p, q) /\ (p = r \/ q = r)
    BY <1>6, Pairs DEF RunTrust
  <2>2. SideOf(q).verified # TS!NoStep => SideOf(q).verified \in TS!Steps
    BY PointerNumbers
  <2>3. \A s \in TS!Steps : s = SideOf(q).verified => (Own(p, s) # TS!NoShard => Own(p, SideOf(q).verified)' # TS!NoShard)
    BY <1>1
  <2>4. SideOf(p).verified # TS!NoStep /\ SideOf(q).verified # TS!NoStep =>
          \/ Own(p, SideOf(q).verified)' # TS!NoShard
          \/ Promotes(q)' /\ SideOf(q).candidate = SideOf(p).verified
    BY <1>2, <2>1, <2>2, <2>3 DEF Alongside
  <2>5. CASE p = r
    BY <1>1, <1>2, <1>3, <1>6, <2>1, <2>4, <2>5 DEF Alongside
  <2>6. CASE q = r
    BY <1>1, <1>2, <1>3, <1>6, <2>1, <2>4, <2>6 DEF Alongside
  <2> QED BY <2>1, <2>5, <2>6
<1> QED BY <1>1, <1>5, <1>6 DEF RunTrust

(* A promotion, a rejection or the removal of a candidate.                 *)
LEMMA TrustStatus ==
  ASSUME SideTypes, ReadsInv, RotatingOnce, NEW base \in 0 .. MaxCycle, NEW w \in Pair,
         RunShape(base), RunRoles(base, w), RunTrust(base, w), NEW r \in Pair, TS!WriteStatus(r),
         UNCHANGED <<setup, cycle, bad, on, loading, home, leaves>>
  PROVE  RunTrust(base, w)'
<1>1. /\ writes[r] # <<"activate">> /\ writes \in [Pair -> Duties] /\ home \in [Pair -> TS!Folders]
      /\ loading = "no"
  BY DEF RunShape, SideTypes
<1>2. /\ slots' = slots /\ shard' = shard
      /\ \A q \in Pair : q # r => SideOf(q)' = SideOf(q)
  BY <1>1, Turning
<1>3. PICK what \in {"promote", "reject", "clear"} : TS!Does(r, what) /\ Turned(r, what)
  <2>1. PICK what \in {"promote", "reject", "activate", "clear"} : TS!Does(r, what) /\ Turned(r, what)
    BY <1>1, Turning
  <2>2. writes[r] = <<what>>
    BY <1>1, <2>1, Duty
  <2> QED BY <1>1, <2>1, <2>2
<1>4. /\ writes[r] = <<what>> /\ writes'[r] = <<>>
      /\ \A q \in Pair : q # r => writes'[q] = writes[q]
  BY <1>1, <1>3, Duty
<1>5. /\ \A q, s : Own(q, s)' = Own(q, s)
      /\ \A s : AllNew(s)' = AllNew(s)
      /\ AllCaptured' = AllCaptured
      /\ \A q \in Pair : q # r => SideOf(q)' = SideOf(q)
  <2>1. \A q, s : Own(q, s)' = Own(q, s)
    BY <1>2 DEF Own
  <2>2. AllCaptured' = AllCaptured
    BY <1>2 DEF AllCaptured, TS!Captures
  <2> QED BY <1>2, <2>1, <2>2 DEF New, AllNew
<1>6. /\ ~Promotes(r)' /\ writes'[r] # <<"clear">> /\ writes'[r] # <<"reject">>
      /\ writes[r] # <<>>
      /\ \A q \in Pair : q # r => Promotes(q)' = Promotes(q)
  BY <1>4, DutiesDiffer DEF Promotes
<1>7. ASSUME NEW q \in Pair, q # r
      PROVE  Alongside(q, r) /\ Alongside(r, q)
  BY <1>7 DEF RunTrust
<1>8. \A p \in Pair : SideOf(p).verified # TS!NoStep => Own(p, SideOf(p).verified) # TS!NoShard
  BY DEF RunTrust
<1>9. ASSUME NEW q \in Pair, q # r
      PROVE  /\ Fresh(base, q) => Fresh(base, q)'
             /\ writes'[q] = writes[q] /\ SideOf(q)' = SideOf(q) /\ Promotes(q)' = Promotes(q)
  BY <1>4, <1>5, <1>6, <1>9 DEF Fresh
<1>11. CASE what = "promote"
  <2>1. Promotes(r) /\ AllCaptured /\ base < cycle /\ writes[r] # <<"clear">>
    BY <1>4, <1>11, DutiesDiffer DEF RunShape, Promotes
  <2>2. /\ SideOf(r)'.verified = (IF SideOf(r).candidate # TS!NoStep
                                  THEN SideOf(r).candidate ELSE SideOf(r).verified)
        /\ SideOf(r)'.candidate = cycle
    BY <1>3, <1>11 DEF Turned
  <2>3. Fresh(base, r) /\ SideOf(r).candidate < cycle
    BY <2>1 DEF RunTrust, Fresh
  <2>4. SideOf(r).candidate # TS!NoStep => AllNew(SideOf(r).candidate)
    BY <2>3, PointerNumbers DEF Fresh
  <2>5. \A q \in Pair : \A s : AllNew(s) => Own(q, s) # TS!NoShard
    BY SideNumbers DEF AllNew, New
  <2>6. ASSUME NEW q \in Pair
        PROVE  SideOf(q)'.verified # TS!NoStep => Own(q, SideOf(q).verified)' # TS!NoShard
    <3>1. CASE q = r
      BY <1>5, <1>8, <2>2, <2>4, <2>5, <3>1
    <3>2. CASE q # r
      BY <1>5, <1>8, <3>2
    <3> QED BY <3>1, <3>2
  <2>7. SideOf(w)'.verified < cycle
    <3>1. SideOf(w).verified < cycle
      BY <2>1, PointerNumbers DEF RunRoles
    <3> QED BY <1>5, <2>2, <2>3, <3>1
  <2>8. ASSUME NEW q \in Pair, writes'[q] # <<"clear">>
        PROVE  Fresh(base, q)' /\ (SideOf(q)'.candidate # TS!NoStep => SideOf(w)'.verified <= SideOf(q)'.candidate)
    <3>1. CASE q = r
      <4>1. Fresh(base, r)'
        BY <1>5, <1>6, <2>1, <2>2 DEF Fresh
      <4>2. SideOf(w)'.verified \in Int /\ cycle \in Int
        BY <1>5, <2>2, PointerNumbers
      <4> QED BY <2>2, <2>7, <3>1, <4>1, <4>2
    <3>2. CASE q # r
      <4>1. Fresh(base, q) /\ (SideOf(q).candidate # TS!NoStep => SideOf(w).verified <= SideOf(q).candidate)
        BY <1>9, <2>8, <3>2 DEF RunTrust
      <4>2. CASE SideOf(w)'.verified = SideOf(w).verified
        BY <1>9, <3>2, <4>1, <4>2
      <4>3. CASE w = r /\ SideOf(r)'.verified = SideOf(r).candidate /\ SideOf(r).candidate # TS!NoStep
        <5>1. SideOf(q).candidate = SideOf(r).candidate \/ SideOf(q).candidate = cycle
          BY <1>7, <2>1, <3>2 DEF Alongside
        <5>2. SideOf(r).candidate <= SideOf(q).candidate
          BY <2>3, <5>1, PointerNumbers
        <5> QED BY <1>9, <3>2, <4>1, <4>3, <5>2
      <4> QED BY <1>5, <2>2, <4>2, <4>3
    <3> QED BY <3>1, <3>2
  <2>9. ASSUME NEW q \in Pair, q # r
        PROVE  Alongside(q, r)' /\ Alongside(r, q)'
    <3>1. Promotes(q) => SideOf(q).candidate = SideOf(r).candidate
      BY <1>7, <2>1, <2>9 DEF Alongside
    <3>2. ~Promotes(q) => /\ writes[q] = <<>> /\ SideOf(q).candidate = cycle
                          /\ SideOf(r).candidate # TS!NoStep => SideOf(q).verified = SideOf(r).candidate
      BY <1>7, <2>1, <2>9 DEF Alongside
    <3>3. writes[q] # <<"reject">> /\ writes[q] # <<"clear">>
      BY <3>2, DutiesDiffer DEF Promotes
    <3>4. SideOf(r)'.verified # TS!NoStep /\ SideOf(q).verified # TS!NoStep =>
            \/ Own(r, SideOf(q).verified) # TS!NoShard
            \/ Promotes(q) /\ SideOf(q).candidate = SideOf(r)'.verified
      <4>1. CASE SideOf(r).candidate # TS!NoStep
        BY <2>2, <2>4, <2>5, <3>1, <3>2, <4>1
      <4>2. CASE SideOf(r).candidate = TS!NoStep
        <5>1. SideOf(r)'.verified = SideOf(r).verified
          BY <2>2, <4>2
        <5> QED BY <1>7, <2>9, <5>1 DEF Alongside
      <4> QED BY <4>1, <4>2
    <3>5. SideOf(q).verified # TS!NoStep /\ SideOf(r)'.verified # TS!NoStep =>
            \A s \in TS!Steps : s = SideOf(r)'.verified => Own(q, s) # TS!NoShard
      <4>1. CASE SideOf(r).candidate # TS!NoStep
        BY <2>2, <2>4, <2>5, <4>1
      <4>2. CASE SideOf(r).candidate = TS!NoStep
        <5>1. SideOf(r)'.verified = SideOf(r).verified
          BY <2>2, <4>2
        <5> QED BY <1>7, <2>9, <4>2, <5>1 DEF Alongside
      <4> QED BY <4>1, <4>2
    <3>6. SideOf(r)'.verified # TS!NoStep => SideOf(r)'.verified \in TS!Steps
      BY <2>2, PointerNumbers
    <3>7. SideOf(q).verified # TS!NoStep /\ SideOf(r)'.verified # TS!NoStep => Own(q, SideOf(r)'.verified) # TS!NoShard
      BY <3>5, <3>6
    <3>10. /\ \A s : Own(r, s)' = Own(r, s) /\ Own(q, s)' = Own(q, s)
           /\ ~Promotes(r)' /\ (Promotes(q)' <=> Promotes(q))
           /\ writes'[r] = <<>> /\ writes'[q] = writes[q]
           /\ SideOf(r)'.candidate = cycle /\ cycle' = cycle
           /\ SideOf(q)'.verified = SideOf(q).verified /\ SideOf(q)'.candidate = SideOf(q).candidate
      BY <1>4, <1>5, <1>6, <1>9, <2>2, <2>9
    <3>11. SideOf(r).candidate # TS!NoStep => SideOf(r)'.verified = SideOf(r).candidate
      BY <2>2
    <3>12. Promotes(q) /\ SideOf(q).candidate # TS!NoStep => SideOf(r)'.verified = SideOf(q).candidate
      BY <3>1, <3>11
    <3>13. /\ SideOf(q)'.verified # TS!NoStep /\ SideOf(r)'.verified # TS!NoStep =>
                Own(q, SideOf(r).verified)' # TS!NoShard
           /\ SideOf(r)'.verified # TS!NoStep /\ SideOf(q)'.verified # TS!NoStep =>
                \/ Own(r, SideOf(q).verified)' # TS!NoShard
                \/ Promotes(q)' /\ SideOf(q)'.candidate = SideOf(r)'.verified
      BY <3>4, <3>7, <3>10
    <3>14. writes[q] = <<>> => SideOf(q).candidate = cycle
      BY <3>2, DutiesDiffer DEF Promotes
    <3>8. Alongside(q, r)'
      BY <1>6, <3>3, <3>10, <3>12, <3>13, <3>14 DEF Alongside
    <3>9. Alongside(r, q)'
      BY <1>6, <3>3, <3>10, <3>13, <3>14 DEF Alongside
    <3> QED BY <3>8, <3>9
  <2>10. \A p, q \in Pair : p # q => Alongside(p, q)'
    BY <2>9, Pairs
  <2> QED BY <2>6, <2>8, <2>10 DEF RunTrust
<1>12. CASE what \in {"reject", "clear"}
  <2>1. SideOf(r)'.verified = SideOf(r).verified /\ SideOf(r)'.candidate = TS!NoStep
    BY <1>3, <1>12 DEF Turned
  <2>2. \A q \in Pair : SideOf(q)'.verified = SideOf(q).verified
    BY <1>5, <2>1
  <2>3. writes[r] = <<"reject">> \/ writes[r] = <<"clear">>
    BY <1>4, <1>12
  <2>4. ~Promotes(r)
    BY <2>3, DutiesDiffer DEF Promotes
  <2>5. Fresh(base, r)'
    BY <1>6, <2>1 DEF Fresh
  <2>6. ASSUME NEW q \in Pair
        PROVE  /\ SideOf(q)'.verified # TS!NoStep => Own(q, SideOf(q).verified)' # TS!NoShard
               /\ writes'[q] # <<"clear">> =>
                    /\ Fresh(base, q)'
                    /\ SideOf(q)'.candidate # TS!NoStep => SideOf(w)'.verified <= SideOf(q)'.candidate
    <3>1. CASE q = r
      BY <1>5, <1>8, <2>1, <2>2, <2>5, <3>1
    <3>2. CASE q # r
      BY <1>5, <1>8, <1>9, <2>2, <3>2 DEF RunTrust
    <3> QED BY <3>1, <3>2
  <2>7. ASSUME NEW q \in Pair, q # r
        PROVE  Alongside(q, r)' /\ Alongside(r, q)'
    <3>1. writes[q] = writes[r] \/ (writes[q] = <<>> /\ SideOf(q).candidate = TS!NoStep)
      BY <1>7, <2>3, <2>7 DEF Alongside
    <3>2. ~Promotes(q)
      BY <2>3, <3>1, DutiesDiffer DEF Promotes
    <3>3. SideOf(r).verified # TS!NoStep /\ SideOf(q).verified # TS!NoStep =>
            Own(r, SideOf(q).verified) # TS!NoShard /\ Own(q, SideOf(r).verified) # TS!NoShard
      BY <1>7, <2>4, <2>7, <3>2 DEF Alongside
    <3>6. /\ \A s : Own(r, s)' = Own(r, s) /\ Own(q, s)' = Own(q, s)
          /\ ~Promotes(r)' /\ ~Promotes(q)' /\ writes'[r] = <<>> /\ writes'[q] = writes[q]
          /\ SideOf(r)'.verified = SideOf(r).verified /\ SideOf(r)'.candidate = TS!NoStep
          /\ SideOf(q)'.verified = SideOf(q).verified /\ SideOf(q)'.candidate = SideOf(q).candidate
      BY <1>4, <1>5, <1>6, <1>9, <2>1, <2>7, <3>2
    <3>7. \/ writes[q] = <<>> /\ SideOf(q).candidate = TS!NoStep
          \/ writes[q] # <<>>
      BY <2>3, <3>1, DutiesDiffer
    <3>4. Alongside(q, r)'
      BY <1>6, <3>3, <3>6, <3>7 DEF Alongside
    <3>5. Alongside(r, q)'
      BY <1>6, <3>3, <3>6, <3>7 DEF Alongside
    <3> QED BY <3>4, <3>5
  <2>8. \A p, q \in Pair : p # q => Alongside(p, q)'
    BY <2>7, Pairs
  <2> QED BY <2>6, <2>8 DEF RunTrust
<1> QED BY <1>3, <1>11, <1>12

LEMMA SelectTypes ==
  ASSUME SideTypes, ReadsInv, RotatingOnce, LoadInv, TS!Select
  PROVE  SideTypes' /\ ReadsInv' /\ RunInv' /\ leaves' = leaves
<1>1. /\ \A r \in Pair : on[r] /\ writes[r] = <<>>
      /\ loading' = "no" /\ cycle' = Base
      /\ bad' = \E r \in Pair : Settled # TS!NoStep /\ shard[home[r]][r][Settled].bad
      /\ writes' = [r \in Pair |-> IF setup.durable THEN <<"clear">> ELSE <<>>]
      /\ UNCHANGED <<setup, slots, on, home, TS!files, leaves>>
      /\ shard' = shard /\ side' = side
  BY DEF TS!Select, Base, Settled, TS!EachDoes, TS!files
<1>2. PICK w \in Pair : SideOf(w).verified <= Base /\ SideOf(w).candidate <= Base
  BY <1>1, WeakRank
<1>3. Base \in 0 .. MaxCycle
  BY <1>1, WeakRank
<1>4. PICK base \in 0 .. MaxCycle : base = Base
  BY <1>3
<1>5. RunInv'
  <2>1. RunShape(base)' /\ RunRoles(base, w)' /\ RunBad(w)'
    BY <1>2, <1>4, Selecting
  <2>2. setup.durable => RunTrust(base, w)'
    BY TrustSelect
  <2> QED BY <1>1, <2>1, <2>2 DEF RunInv, RunAs
<1>6. \A r \in Pair : ~Promotes(r)'
  BY <1>1, DutiesDiffer DEF Promotes
<1>7. SideTypes'
  <2>1. writes' \in [Pair -> Duties] /\ bad' \in BOOLEAN
    BY <1>1 DEF Duties
  <2> QED BY <1>1, <1>3, <1>6, <2>1 DEF SideTypes
<1>8. ReadsInv'
  <2>1. \A q \in Pair : SideOf(q)' = SideOf(q) /\ TS!Peer(q) \in Pair /\ TS!Peer(TS!Peer(q)) = q
    BY <1>1, Pairs DEF SideOf, TS!Read
  <2>2. \A q \in Pair : ReadsPeers(q)' <=> ReadsPeers(q)
    BY <1>1 DEF ReadsPeers
  <2>3. ASSUME NEW q \in Pair, ReadsPeers(q), PeerStays(q)
        PROVE  SideOf(TS!Peer(q)).candidate = TS!NoStep
    <3> DEFINE p == TS!Peer(q)
    <3>1. CASE loading = "latest"
      <4>1. /\ side[TS!Mirror][p] = TS!NoStatus /\ side[TS!Mirror][q] = TS!NoStatus
            /\ home[p] = TS!Mirror /\ TS!Peer(p) = q
        BY <1>1, <2>1, <2>3, <3>1 DEF PeerStays, ReadsPeers
      <4>2. TS!Read(p).candidate = TS!NoStep
        BY <4>1, Fallbacks DEF TS!Read
      <4> QED BY <4>2 DEF SideOf
    <3>2. CASE loading = "recovery_verified"
      BY <1>1, <2>1, <3>2 DEF LoadInv
    <3> QED BY <3>1, <3>2 DEF LoadInv, Modes
  <2>4. ASSUME NEW q \in Pair, ReadsPeers(q), PeerStays(q)
        PROVE  PeerStays(q)'
    BY <1>1, <1>6, <2>1, <2>3, <2>4 DEF PeerStays
  <2> QED BY <1>1, <2>2, <2>4 DEF ReadsInv
<1> QED BY <1>1, <1>5, <1>7, <1>8

LEMMA LeaveTypes ==
  ASSUME SideTypes, ReadsInv, FirstInv, leaves = 0, NEW r \in Pair,
         TS!Killed(r) \/ TS!Terminated(r) \/ TS!TerminatedWithMirror(r)
  PROVE  SideTypes' /\ leaves' = 0
<1>1. /\ on' = [on EXCEPT ![r] = FALSE] /\ writes' = [writes EXCEPT ![r] = <<>>]
      /\ UNCHANGED <<setup, cycle, bad, slots, loading, home, leaves>>
  BY DEF TS!Killed, TS!Terminated, TS!TerminatedWithMirror, TS!Leave
<1>2. writes' \in [Pair -> Duties] /\ on' \in [Pair -> BOOLEAN]
  BY <1>1 DEF SideTypes, Duties
<1>3. /\ shard' \in [TS!Folders -> [Pair -> [TS!Steps -> Copies]]]
      /\ side' \in [TS!Folders -> [Pair -> Sides]]
  BY FirstLeaves
<1>4. \A q \in Pair : Promotes(q)' => Promotes(q)
  <2>1. writes'[r] = <<>> /\ \A q \in Pair : q # r => writes'[q] = writes[q]
    BY <1>1 DEF SideTypes
  <2> QED BY <2>1, DutiesDiffer DEF Promotes
<1> QED BY <1>1, <1>2, <1>3, <1>4 DEF SideTypes

(* Before the first stop.                                                  *)
LEMMA FirstNext ==
  ASSUME SideTypes, ReadsInv, RotatingOnce, FirstInv, leaves = 0, TS!Next
  PROVE  SideInv'
<1>1. CASE TS!Cycle
  <2>1. leaves' = 0
    BY <1>1 DEF TS!Cycle
  <2> QED BY <1>1, <2>1, FirstCycle, CycleTypes DEF SideInv
<1>2. CASE TS!Select
  BY <1>2 DEF TS!Select, FirstInv, FirstShape
<1>3. ASSUME NEW r \in Pair, TS!Write(r)
      PROVE  SideInv'
  <2>1. UNCHANGED <<setup, cycle, bad, on, loading, home, leaves>>
    BY <1>3 DEF TS!Write
  <2>2. FirstInv'
    BY <1>3, <2>1, FirstCapture, FirstShards, FirstStatus DEF TS!Write
  <2>3. SideTypes' /\ ReadsInv'
    BY <1>3, WriteTypes DEF FirstInv, FirstShape
  <2> QED BY <2>1, <2>2, <2>3 DEF SideInv
<1>4. ASSUME NEW r \in Pair, TS!Killed(r) \/ TS!Terminated(r) \/ TS!TerminatedWithMirror(r)
      PROVE  SideInv'
  <2>1. FirstInv' /\ ReadsInv'
    BY <1>4, FirstLeaves
  <2>2. SideTypes' /\ leaves' = 0
    BY <1>4, LeaveTypes
  <2> QED BY <2>1, <2>2 DEF SideInv
<1>5. ASSUME NEW mode \in setup.modes, NEW lost \in SUBSET Pair, NEW moved \in SUBSET Pair,
             TS!Restart(mode, lost, moved)
      PROVE  SideInv'
  <2>1. leaves' = 1
    BY <1>5 DEF TS!Restart
  <2>2. LoadInv'
    BY <1>5, FirstRestart
  <2>3. SideTypes' /\ ReadsInv'
    BY <1>5, RestartReturns
  <2> QED BY <2>1, <2>2, <2>3 DEF SideInv
<1> QED BY <1>1, <1>2, <1>3, <1>4, <1>5 DEF TS!Next

(* After the restart, in which no rank leaves any more.                    *)
LEMMA RunWrite ==
  ASSUME SideTypes, ReadsInv, RotatingOnce, NEW base \in 0 .. MaxCycle, NEW w \in Pair,
         RunAs(base, w), NEW r \in Pair, TS!Write(r)
  PROVE  RunAs(base, w)'
<1>1. /\ UNCHANGED <<setup, cycle, bad, on, loading, home, leaves>>
      /\ TS!Capture(r) \/ TS!WriteShard(r) \/ TS!WriteStatus(r)
  BY DEF TS!Write
<1>2. RunShape(base) /\ RunRoles(base, w) /\ RunBad(w) /\ writes \in [Pair -> Duties]
  BY DEF RunAs, SideTypes
<1>3. RunShape(base)' /\ RunRoles(base, w)' /\ RunBad(w)'
  BY <1>1, <1>2, RunCapture, RunShards, RunStatus
<1>4. ASSUME RunTrust(base, w)
      PROVE  RunTrust(base, w)'
  <2>1. CASE TS!Capture(r)
    <3>1. /\ writes'[r] = FromOwn
          /\ \A q \in Pair : q # r => writes'[q] = writes[q]
      BY <1>2, <2>1, Duty DEF TS!Capture
    <3>2. /\ Promotes(r) /\ shard' = shard /\ side' = side
          /\ \A q \in Pair : q # r => TS!Captures(q)' = TS!Captures(q)
          /\ cycle \in TS!Captures(r)'
      BY <2>1, Capturing
    <3>3. Promotes(r)'
      BY <3>1 DEF Promotes
    <3>4. AllCaptured => AllCaptured'
      BY <1>1, <3>2 DEF AllCaptured
    <3>5. \A q, s : Own(q, s)' = Own(q, s) /\ New(q, s)' = New(q, s)
      BY <1>1, <3>2 DEF Own, New
    <3> QED BY <1>1, <1>4, <3>1, <3>2, <3>3, <3>4, <3>5, TrustGoesOn
  <2>2. CASE TS!WriteShard(r)
    <3>1. /\ slots' = slots /\ side' = side /\ Promotes(r)
          /\ writes'[r] \in {FromPeer, <<"promote">>}
          /\ \A q \in Pair : q # r => writes'[q] = writes[q]
          /\ TS!Now.life = leaves /\ TS!Now # TS!NoShard
      BY <2>2, ShardWritten
    <3>2. \A f \in TS!Folders, q \in Pair, s \in TS!Steps :
            shard'[f][q][s] = TS!Now \/ shard'[f][q][s] = shard[f][q][s]
      BY <2>2, ShardWritten
    <3>3. Promotes(r)'
      BY <3>1 DEF Promotes
    <3>4. AllCaptured => AllCaptured'
      BY <1>1, <3>1 DEF AllCaptured, TS!Captures
    <3>5. ASSUME NEW q \in Pair, NEW s \in TS!Steps
          PROVE  Own(q, s)' = Own(q, s) \/ Own(q, s)' = TS!Now
      BY <1>1, <3>2 DEF Own, SideTypes
    <3>6. leaves = 1
      BY <1>2 DEF RunShape
    <3> QED BY <1>1, <1>4, <3>1, <3>3, <3>4, <3>5, <3>6, TrustGoesOn DEF New
  <2>3. CASE TS!WriteStatus(r)
    BY <1>1, <1>2, <1>4, <2>3, TrustStatus
  <2> QED BY <1>1, <2>1, <2>2, <2>3
<1> QED BY <1>1, <1>3, <1>4 DEF RunAs

LEMMA SecondNext ==
  ASSUME SideTypes, ReadsInv, RotatingOnce, LoadInv \/ RunInv, TS!Next
  PROVE  SideInv' /\ leaves' = 1
<1>1. /\ leaves = 1 /\ \A r \in Pair : on[r]
      /\ \E r \in Pair : TRUE
      /\ \A r \in Pair : loading = "no" => writes[r] # <<"activate">>
      /\ \A r \in Pair : loading # "no" => writes[r] \in {<<"activate">>, <<>>}
  BY Pairs DEF LoadInv, RunInv, RunAs, RunShape, Modes
<1>2. \A r \in Pair : ~(TS!Killed(r) \/ TS!Terminated(r) \/ TS!TerminatedWithMirror(r))
  BY <1>1 DEF TS!Killed, TS!Terminated, TS!TerminatedWithMirror, TS!Leave, RotatingOnce
<1>3. ~ \E mode \in setup.modes, lost, moved \in SUBSET Pair : TS!Restart(mode, lost, moved)
  BY <1>1 DEF TS!Restart
<1>4. CASE TS!Cycle
  <2>1. RunInv /\ leaves' = leaves /\ setup' = setup
    BY <1>4 DEF TS!Cycle, TS!Running, LoadInv, Modes
  <2>2. RunInv'
    <3>1. PICK base \in 0 .. MaxCycle, w \in Pair : RunAs(base, w)
      BY <2>1 DEF RunInv
    <3>2. RunShape(base)' /\ RunRoles(base, w)' /\ RunBad(w)'
      BY <1>4, <3>1, RunCycle DEF RunAs
    <3>3. RunTrust(base, w) => RunTrust(base, w)'
      BY <1>4, <3>1, TrustCycle DEF RunAs
    <3> QED BY <2>1, <3>1, <3>2, <3>3 DEF RunInv, RunAs
  <2> QED BY <1>1, <1>4, <2>1, <2>2, CycleTypes DEF SideInv
<1>5. CASE TS!Select
  <2>1. LoadInv
    BY <1>5 DEF TS!Select, RunInv, RunAs, RunShape
  <2> QED BY <1>1, <1>5, <2>1, SelectTypes DEF SideInv
<1>6. ASSUME NEW r \in Pair, TS!Write(r)
      PROVE  SideInv' /\ leaves' = 1
  <2>1. /\ UNCHANGED <<setup, cycle, bad, on, loading, home, leaves>>
        /\ TS!Capture(r) \/ TS!WriteShard(r) \/ TS!WriteStatus(r)
    BY <1>6 DEF TS!Write
  <2>2. ASSUME LoadInv
        PROVE  LoadInv'
    <3>1. writes \in [Pair -> Duties] /\ (writes[r] = <<"activate">> \/ writes[r] = <<>>)
      BY <2>2 DEF LoadInv, SideTypes
    <3>2. ~TS!Does(r, "capture") /\ ~TS!Does(r, "own") /\ ~TS!Does(r, "peer")
      BY <3>1, Duty, DutiesDiffer
    <3>3. TS!WriteStatus(r)
      BY <2>1, <3>2 DEF TS!Capture, TS!WriteShard
    <3> QED BY <2>1, <2>2, <3>3, LoadStatus
  <2>3. RunInv => RunInv'
    BY <1>6, RunWrite DEF RunInv
  <2>4. SideTypes' /\ ReadsInv'
    BY <1>1, <1>6, WriteTypes
  <2> QED BY <1>1, <2>1, <2>2, <2>3, <2>4 DEF SideInv
<1> QED BY <1>2, <1>3, <1>4, <1>5, <1>6 DEF TS!Next

LEMMA SideStutters ==
  ASSUME SideInv, UNCHANGED TS!vars
  PROVE  SideInv'
<1>1. UNCHANGED <<setup, cycle, bad, slots, writes, on, loading, home, shard, side, leaves>>
  BY DEF TS!vars, TS!files
<1>3. /\ \A q, s : Own(q, s)' = Own(q, s) /\ New(q, s)' = New(q, s)
      /\ \A s : AllNew(s)' = AllNew(s)
      /\ \A q : /\ SideOf(q)' = SideOf(q) /\ TS!Captures(q)' = TS!Captures(q)
               /\ Promotes(q)' = Promotes(q) /\ HasCaptured(q)' = HasCaptured(q)
      /\ AllCaptured' = AllCaptured
      /\ \A f, s : Whole(f, s)' = Whole(f, s)
      /\ \A s : Somewhere(s)' = Somewhere(s) /\ BadAt(s)' = BadAt(s)
      /\ MirrorUsed' = MirrorUsed
  BY <1>1 DEF Own, New, AllNew, SideOf, TS!Read, TS!Captures, AllCaptured, Whole, Somewhere, BadAt,
     MirrorUsed, Promotes, HasCaptured
<1>2. SideTypes' /\ ReadsInv'
  <2>1. SideTypes'
    BY <1>1, <1>3 DEF SideInv, SideTypes
  <2>2. ReadsInv'
    BY <1>1, <1>3, ReadsOnward DEF SideInv
  <2> QED BY <2>1, <2>2
<1>4. \A s : Seen(s)' = Seen(s)
  BY <1>3 DEF Seen
<1>5. FirstInv => FirstInv'
  BY <1>1, <1>3, <1>4 DEF FirstInv, FirstShape, FirstBad, FirstRoles, FirstFiles
<1>6. LoadInv => LoadInv'
  BY <1>1, <1>3 DEF LoadInv, Covers
<1>7. \A base : \A w \in Pair : RunTrust(base, w) => RunTrust(base, w)'
  BY <1>1, <1>3 DEF RunTrust, Alongside, Fresh
<1>8. RunInv => RunInv'
  BY <1>1, <1>3, <1>7 DEF RunInv, RunAs, RunShape, RunRoles, RunBad
<1> QED BY <1>1, <1>2, <1>5, <1>6, <1>8 DEF SideInv

LEMMA SideNext ==
  ASSUME RotatingOnce, SideInv, [TS!Next]_(TS!vars)
  PROVE  SideInv'
<1>1. CASE TS!Next
  <2>1. leaves = 0 \/ leaves = 1
    BY DEF SideInv, SideTypes
  <2> QED BY <1>1, <2>1, FirstNext, SecondNext DEF SideInv
<1> QED BY <1>1, SideStutters

LEMMA SidePick ==
  ASSUME SideInv
  PROVE  TS!PickIsClean /\ TS!PickIsOneRun
<1>1. SideTypes /\ ReadsInv /\ (FirstInv \/ LoadInv \/ RunInv)
  BY DEF SideInv, SideTypes
<1> QED BY <1>1, FirstPick, LoadPick, RunPick DEF RunInv, RunAs

(* What a verified recovery would settle on, at any moment at which the    *)
(* job might die, is clean on every rank and from one run of the job       *)
(* (_persist_boundary, reject_candidate, load, flush_for_restart, and      *)
(* _verified_disk_step with the ranks' MIN): for every number of cycles,   *)
(* with one stop and a rotating catalog.                                   *)
THEOREM PickIsSoundAlways ==
  ASSUME RotatingOnce
  PROVE  TS!Spec => []PickIsSound
<1>1. TS!Init => SideInv
  BY SideInit
<1>2. SideInv /\ [TS!Next]_(TS!vars) => SideInv'
  BY SideNext
<1>3. SideInv => PickIsSound
  BY SidePick DEF PickIsSound
<1> QED BY <1>1, <1>2, <1>3, PTL DEF TS!Spec

-----------------------------------------------------------------------------
(* What the pointers say of the generation that a verified recovery would  *)
(* settle on, in both directions.                                          *)
SettlesOn(s) ==
  \E w \in Pair :
    /\ SideOf(w).verified = s
    /\ \A r \in Pair :
         /\ s <= SideOf(r).verified
         /\ Own(r, SideOf(r).verified) # TS!NoShard /\ Own(r, s) # TS!NoShard

LEMMA Settling ==
  ASSUME SideTypes, ReadsInv
  PROVE  /\ TS!VerifiedPick \in Pointers
         /\ \A s \in TS!Steps : SettlesOn(s) => TS!VerifiedPick = s
         /\ TS!VerifiedPick # TS!NoStep => SettlesOn(TS!VerifiedPick)
<1>1. \A r \in Pair : SideOf(r).verified \in Pointers
  BY Reading
<1>2. ASSUME NEW s \in TS!Steps, SettlesOn(s)
      PROVE  TS!VerifiedPick = s
  <2>1. PICK w \in Pair :
          /\ SideOf(w).verified = s
          /\ \A r \in Pair :
               /\ s <= SideOf(r).verified
               /\ Own(r, SideOf(r).verified) # TS!NoShard /\ Own(r, s) # TS!NoShard
    BY <1>2 DEF SettlesOn
  <2>2. ASSUME NEW r \in Pair
        PROVE  TS!VerifiedVote(r) = SideOf(r).verified
    <3>1. s \in Int /\ s > TS!NoStep /\ TS!NoStep \in Int
      BY SideNumbers
    <3>2. SideOf(r).verified # TS!NoStep
      BY <2>1, <3>1
    <3>3. SideOf(r).verified \in TS!Steps
      BY <1>1, <3>2 DEF Pointers
    <3> QED BY <2>1, <3>3, Votes
  <2> QED BY <2>1, <2>2, PickIs
<1>3. ASSUME TS!VerifiedPick # TS!NoStep
      PROVE  SettlesOn(TS!VerifiedPick)
  <2>1. /\ TS!VerifiedPick \in TS!Steps
        /\ \A r \in Pair : Own(r, TS!VerifiedPick) # TS!NoShard /\ TS!VerifiedPick <= SideOf(r).verified
        /\ \A r \in Pair : TS!VerifiedVote(r) # TS!NoStep
    BY <1>3, PickIs
  <2>2. PICK w \in Pair : TS!VerifiedPick = TS!VerifiedVote(w)
    BY <1>3, PickIs
  <2>3. \A r \in Pair : TS!VerifiedVote(r) = SideOf(r).verified /\ Own(r, TS!VerifiedVote(r)) # TS!NoShard
    BY <2>1, Votes
  <2>4. \A r \in Pair : Own(r, SideOf(r).verified) # TS!NoShard
    BY <2>3
  <2>5. SideOf(w).verified = TS!VerifiedPick
    BY <2>2, <2>3
  <2> QED BY <2>1, <2>4, <2>5 DEF SettlesOn
<1> QED BY <1>2, <1>3, PickIs

(* The same after a step.                                                  *)
LEMMA SettlingLater ==
  (SideTypes /\ ReadsInv =>
     /\ TS!VerifiedPick \in Pointers
     /\ \A s \in TS!Steps : SettlesOn(s) => TS!VerifiedPick = s
     /\ \A r \in Pair : SideOf(r).verified \in Pointers)'
<1>1. SideTypes /\ ReadsInv =>
        /\ TS!VerifiedPick \in Pointers
        /\ \A s \in TS!Steps : SettlesOn(s) => TS!VerifiedPick = s
        /\ \A r \in Pair : SideOf(r).verified \in Pointers
  BY Settling, Reading
<1> QED BY <1>1, PTL

(* A step after which no pointer is below the generation that the ranks    *)
(* would have settled on, and each has what the other names below its own. *)
LEMMA PickRises ==
  ASSUME SideTypes, ReadsInv, SideTypes', ReadsInv', TS!VerifiedPick # TS!NoStep,
         \A r \in Pair :
           /\ TS!VerifiedPick <= SideOf(r)'.verified
           /\ \A q \in Pair :
                SideOf(r)'.verified <= SideOf(q)'.verified => Own(q, SideOf(r).verified)' # TS!NoShard
  PROVE  TS!VerifiedPick' >= TS!VerifiedPick
<1>1. TS!VerifiedPick \in TS!Steps /\ TS!VerifiedPick \in Int /\ TS!VerifiedPick > TS!NoStep /\ TS!NoStep \in Int
  <2>1. TS!VerifiedPick \in TS!Steps
    BY PickIs
  <2> QED BY <2>1, SideNumbers
<1>2. \A r \in Pair : SideOf(r)'.verified \in Pointers
  BY SettlingLater
<1>3. \A r \in Pair : SideOf(r)'.verified \in Int
  BY <1>2, SideNumbers
<1>4. PICK w \in Pair : \A r \in Pair : SideOf(w)'.verified <= SideOf(r)'.verified
  <2>1. PICK a \in Pair : TS!Peer(a) \in Pair /\ \A r \in Pair : r = a \/ r = TS!Peer(a)
    BY Pairs
  <2>2. CASE SideOf(a)'.verified <= SideOf(TS!Peer(a))'.verified
    BY <1>3, <2>1, <2>2
  <2>3. CASE SideOf(TS!Peer(a))'.verified <= SideOf(a)'.verified
    BY <1>3, <2>1, <2>3
  <2> QED BY <1>3, <2>1, <2>2, <2>3
<1>5. PICK s \in TS!Steps : s = SideOf(w)'.verified
  <2>1. SideOf(w)'.verified # TS!NoStep
    BY <1>1, <1>3
  <2> QED BY <1>2, <2>1 DEF Pointers
<1>6. \A r \in Pair : SideOf(r)'.verified <= SideOf(r)'.verified
  BY <1>3
<1>7. SettlesOn(s)'
  <2>1. \A r \in Pair : Own(r, SideOf(r).verified)' # TS!NoShard
    BY <1>6
  <2>2. \A r \in Pair : Own(r, SideOf(w).verified)' # TS!NoShard
    BY <1>4
  <2>3. \A r \in Pair : Own(r, s)' # TS!NoShard
    BY <1>5, <2>2
  <2> QED BY <1>4, <1>5, <2>1, <2>3 DEF SettlesOn
<1>8. TS!VerifiedPick' = s
  BY <1>7, SettlingLater
<1> QED BY <1>5, <1>8

(* In the first run each rank has what the other names.                    *)
LEMMA FirstOwn ==
  ASSUME SideTypes, ReadsInv, FirstInv
  PROVE  \A r, q \in Pair : SideOf(r).verified # TS!NoStep => Own(q, SideOf(r).verified) # TS!NoShard
<1> SUFFICES ASSUME NEW r \in Pair, NEW q \in Pair, SideOf(r).verified # TS!NoStep
             PROVE  Own(q, SideOf(r).verified) # TS!NoShard
  OBVIOUS
<1>1. home[r] = r /\ home[q] = q /\ r \in TS!Folders /\ SideOf(r).verified = side[r][r].verified
  BY AtHome DEF FirstInv, FirstShape, TS!Folders
<1>2. side[r][r].verified \in TS!Steps
  <2>1. side[r][r].verified \in Pointers
    BY <1>1, SidePointers
  <2> QED BY <1>1, <2>1 DEF Pointers
<1>3. Whole(r, side[r][r].verified) /\ side[r][r].verified < cycle
  BY <1>1, <1>2 DEF FirstInv, FirstRoles
<1>4. Seen(side[r][r].verified)
  BY <1>1, <1>2, <1>3 DEF Seen, Somewhere, Whole
<1>5. Whole(q, side[r][r].verified)
  BY <1>2, <1>3, <1>4 DEF FirstInv, FirstFiles
<1> QED BY <1>1, <1>5 DEF Whole, Own

LEMMA FirstOwnLater ==
  (SideTypes /\ ReadsInv /\ FirstInv =>
     \A r, q \in Pair : SideOf(r).verified # TS!NoStep => Own(q, SideOf(r).verified) # TS!NoShard)'
<1>1. SideTypes /\ ReadsInv /\ FirstInv =>
        \A r, q \in Pair : SideOf(r).verified # TS!NoStep => Own(q, SideOf(r).verified) # TS!NoShard
  BY FirstOwn
<1> QED BY <1>1, PTL

-----------------------------------------------------------------------------
(* No step but a promotion moves a verified pointer, and none but a        *)
(* restart takes shards from a rank.                                       *)
LEMMA Pointing ==
  ASSUME SideTypes, ReadsInv, RotatingOnce, TS!Cycle \/ TS!Select \/ \E r \in Pair : TS!Write(r),
         \A r \in Pair : loading = "no" => writes[r] # <<"activate">>,
         \A r \in Pair : loading # "no" => writes[r] \in {<<"activate">>, <<>>}
  PROVE  /\ \A q \in Pair, s \in TS!Steps : Own(q, s) # TS!NoShard => Own(q, s)' # TS!NoShard
         /\ \/ \A q \in Pair : SideOf(q)'.verified = SideOf(q).verified
            \/ \E r \in Pair :
                 /\ writes[r] = <<"promote">> /\ SideOf(r).candidate # TS!NoStep
                 /\ SideOf(r)'.verified = SideOf(r).candidate
                 /\ \A q \in Pair : q # r => SideOf(q)'.verified = SideOf(q).verified
<1>1. CASE home' = home /\ shard' = shard /\ side' = side
  BY <1>1 DEF Own, SideOf, TS!Read
<1>2. ASSUME NEW r \in Pair, TS!WriteShard(r), home' = home
      PROVE  /\ \A q \in Pair, s \in TS!Steps : Own(q, s) # TS!NoShard => Own(q, s)' # TS!NoShard
             /\ \A q \in Pair : SideOf(q)'.verified = SideOf(q).verified
  <2>1. /\ side' = side /\ TS!Now # TS!NoShard
        /\ \A f \in TS!Folders, q \in Pair, s \in TS!Steps :
             shard'[f][q][s] = TS!Now \/ shard'[f][q][s] = shard[f][q][s]
    BY <1>2, ShardWritten
  <2>2. \A q \in Pair : home[q] \in TS!Folders
    BY DEF SideTypes
  <2>3. \A q \in Pair : SideOf(q)' = SideOf(q)
    BY <1>2, <2>1 DEF SideOf, TS!Read
  <2> QED BY <1>2, <2>1, <2>2, <2>3 DEF Own
<1>3. ASSUME NEW r \in Pair, TS!WriteStatus(r), home' = home, loading' = loading
      PROVE  /\ \A q \in Pair, s \in TS!Steps : Own(q, s) # TS!NoShard => Own(q, s)' # TS!NoShard
             /\ \/ SideOf(r)'.verified = SideOf(r).verified
                \/ /\ writes[r] = <<"promote">> /\ SideOf(r).candidate # TS!NoStep
                   /\ SideOf(r)'.verified = SideOf(r).candidate
             /\ \A q \in Pair : q # r => SideOf(q)'.verified = SideOf(q).verified
  <2>1. /\ shard' = shard /\ writes \in [Pair -> Duties]
        /\ \A q \in Pair : q # r => SideOf(q)' = SideOf(q)
    BY <1>3, Turning DEF SideTypes
  <2>2. PICK what \in {"promote", "reject", "activate", "clear"} : TS!Does(r, what) /\ Turned(r, what)
    BY <1>3, Turning
  <2>3. writes[r] = <<what>>
    BY <2>1, <2>2, Duty
  <2>4. \/ SideOf(r)'.verified = SideOf(r).verified
        \/ /\ writes[r] = <<"promote">> /\ SideOf(r).candidate # TS!NoStep
           /\ SideOf(r)'.verified = SideOf(r).candidate
    BY <2>2, <2>3 DEF Turned
  <2>6. \A q, s : Own(q, s)' = Own(q, s)
    BY <1>3, <2>1 DEF Own
  <2> QED BY <2>1, <2>4, <2>6
<1>4. CASE TS!Cycle \/ TS!Select
  BY <1>1, <1>4 DEF TS!Cycle, TS!Select, TS!files
<1>5. ASSUME NEW r \in Pair, TS!Write(r)
      PROVE  home' = home /\ loading' = loading /\ (TS!Capture(r) \/ TS!WriteShard(r) \/ TS!WriteStatus(r))
  BY <1>5 DEF TS!Write
<1>6. ASSUME NEW r \in Pair, TS!Capture(r), home' = home
      PROVE  home' = home /\ shard' = shard /\ side' = side
  BY <1>6 DEF TS!Capture, TS!files
<1> QED BY <1>1, <1>2, <1>3, <1>4, <1>5, <1>6

(* Pointers that stay where they are, over shards that stay.               *)
LEMMA PickStays ==
  ASSUME SideTypes, ReadsInv, SideTypes', ReadsInv', TS!VerifiedPick # TS!NoStep,
         \A q \in Pair, s \in TS!Steps : Own(q, s) # TS!NoShard => Own(q, s)' # TS!NoShard,
         \A q \in Pair : SideOf(q)'.verified = SideOf(q).verified
  PROVE  TS!VerifiedPick' >= TS!VerifiedPick
<1>1. TS!VerifiedPick \in TS!Steps /\ SettlesOn(TS!VerifiedPick)
  BY Settling, PickIs
<1>2. PICK s \in TS!Steps : s = TS!VerifiedPick
  BY <1>1
<1>3. PICK w \in Pair :
        /\ SideOf(w).verified = s
        /\ \A r \in Pair :
             /\ s <= SideOf(r).verified
             /\ Own(r, SideOf(r).verified) # TS!NoShard /\ Own(r, s) # TS!NoShard
  BY <1>1, <1>2 DEF SettlesOn
<1>4. \A r \in Pair : SideOf(r).verified \in TS!Steps
  <2>1. \A r \in Pair : SideOf(r).verified \in Pointers
    BY Reading
  <2>2. \A r \in Pair : SideOf(r).verified # TS!NoStep
    BY <1>3, <2>1, SideNumbers
  <2> QED BY <2>1, <2>2 DEF Pointers
<1>5. \A q \in Pair : Own(q, s)' # TS!NoShard
  BY <1>3
<1>6. ASSUME NEW r \in Pair
      PROVE  Own(r, SideOf(r).verified)' # TS!NoShard
  <2>1. PICK t \in TS!Steps : t = SideOf(r).verified
    BY <1>4
  <2>2. Own(r, t)' # TS!NoShard
    BY <1>3, <2>1
  <2> QED BY <2>1, <2>2
<1>7. SettlesOn(s)'
  BY <1>3, <1>5, <1>6 DEF SettlesOn
<1>8. TS!VerifiedPick' = s
  BY <1>7, SettlingLater
<1> QED BY <1>2, <1>8, SideNumbers

(* Nothing is lost while a verified recovery has no generation to load.    *)
LEMMA FromNone ==
  ASSUME SideTypes', ReadsInv', TS!VerifiedPick = TS!NoStep
  PROVE  TS!VerifiedPick' >= TS!VerifiedPick
<1>1. TS!VerifiedPick' \in Pointers
  BY SettlingLater
<1>2. TS!VerifiedPick' \in -1 .. MaxCycle /\ TS!NoStep = -1 /\ MaxCycle \in Nat
  BY <1>1, SideNumbers
<1> QED BY <1>2

(* Before the first stop a pointer only rises, and to what both ranks have. *)
LEMMA FirstRises ==
  ASSUME SideTypes, ReadsInv, RotatingOnce, FirstInv, leaves = 0, TS!Next, leaves' = leaves,
         SideInv', TS!VerifiedPick # TS!NoStep
  PROVE  TS!VerifiedPick' >= TS!VerifiedPick
<1>1. SideTypes' /\ ReadsInv' /\ FirstInv'
  BY DEF SideInv
<1>2. \A r \in Pair :
        /\ home[r] = r /\ r \in TS!Folders /\ r # TS!Mirror /\ writes[r] # <<"activate">>
        /\ SideOf(r).verified \in Int /\ SideOf(r).candidate \in Int
        /\ SideOf(r).candidate # TS!NoStep => SideOf(r).verified < SideOf(r).candidate
  <2> TAKE r \in Pair
  <2>1. home[r] = r /\ r \in TS!Folders /\ r # TS!Mirror /\ writes[r] # <<"activate">>
    BY Pairs DEF FirstInv, FirstShape, TS!Folders
  <2>2. SideOf(r).verified = side[r][r].verified /\ SideOf(r).candidate = side[r][r].candidate
    BY <2>1, AtHome
  <2>3. side[r][r].candidate # TS!NoStep => side[r][r].verified < side[r][r].candidate
    BY <2>1 DEF FirstInv, FirstRoles
  <2>4. SideOf(r).verified \in Pointers /\ SideOf(r).candidate \in Pointers
    BY Reading
  <2>5. SideOf(r).verified \in Int /\ SideOf(r).candidate \in Int
    BY <2>4, SideNumbers
  <2> QED BY <2>1, <2>2, <2>3, <2>5
<1>11. loading = "no"
  BY DEF FirstInv, FirstShape
<1>3. \A r \in Pair : SideOf(r).verified <= SideOf(r)'.verified
  <2>1. CASE TS!Cycle \/ TS!Select \/ \E r \in Pair : TS!Write(r)
    <3>1. \/ \A q \in Pair : SideOf(q)'.verified = SideOf(q).verified
          \/ \E r \in Pair :
               /\ writes[r] = <<"promote">> /\ SideOf(r).candidate # TS!NoStep
               /\ SideOf(r)'.verified = SideOf(r).candidate
               /\ \A q \in Pair : q # r => SideOf(q)'.verified = SideOf(q).verified
      BY <1>2, <1>11, <2>1, Pointing
    <3> QED BY <1>2, <3>1
  <2>2. ASSUME NEW r \in Pair, TS!Killed(r) \/ TS!Terminated(r) \/ TS!TerminatedWithMirror(r)
        PROVE  \A q \in Pair : SideOf(q)' = SideOf(q)
    <3>1. home' = home /\ (side' = side \/ \E new : side' = [side EXCEPT ![TS!Mirror] = new])
      BY <2>2 DEF TS!Killed, TS!Terminated, TS!TerminatedWithMirror, TS!Leave, TS!files
    <3>2. side \in [TS!Folders -> [Pair -> Sides]]
      BY DEF SideTypes
    <3>3. \A q \in Pair : side'[q] = side[q]
      BY <1>2, <3>1, <3>2
    <3> QED BY <1>2, <3>1, <3>3, SameReading
  <2>3. ~ \E mode \in setup.modes : \E lost, moved \in SUBSET Pair : TS!Restart(mode, lost, moved)
    BY DEF TS!Restart
  <2>4. \A r \in Pair : SideOf(r)' = SideOf(r) => SideOf(r).verified <= SideOf(r)'.verified
    BY <1>2
  <2> QED BY <2>1, <2>2, <2>3, <2>4 DEF TS!Next
<1>4. \A r \in Pair : SideOf(r)'.verified \in Int
  <2>1. \A r \in Pair : SideOf(r)'.verified \in Pointers
    BY <1>1, SettlingLater
  <2> QED BY <2>1, SideNumbers
<1>5. TS!VerifiedPick \in Int /\ TS!VerifiedPick > TS!NoStep /\ TS!NoStep \in Int
  <2>1. TS!VerifiedPick \in TS!Steps
    BY PickIs
  <2> QED BY <2>1, SideNumbers
<1>6. \A r \in Pair : TS!VerifiedPick <= SideOf(r).verified
  BY PickIs
<1>7. ASSUME NEW r \in Pair
      PROVE  TS!VerifiedPick <= SideOf(r)'.verified /\ SideOf(r)'.verified # TS!NoStep
  <2>1. TS!VerifiedPick <= SideOf(r)'.verified
    BY <1>2, <1>3, <1>4, <1>5, <1>6
  <2> QED BY <1>4, <1>5, <2>1
<1>8. \A r, q \in Pair : Own(q, SideOf(r).verified)' # TS!NoShard
  BY <1>1, <1>7, FirstOwnLater
<1> QED BY <1>1, <1>7, <1>8, PickRises

(* With a durable coordinator a rank promotes a generation of this run,    *)
(* which both ranks have, and has what the other still trusts.             *)
LEMMA PromotionRises ==
  ASSUME SideTypes, ReadsInv, SideTypes', ReadsInv', TS!VerifiedPick # TS!NoStep,
         NEW base \in 0 .. MaxCycle, NEW w \in Pair, RunTrust(base, w),
         NEW r \in Pair, writes[r] = <<"promote">>, SideOf(r).candidate # TS!NoStep,
         SideOf(r)'.verified = SideOf(r).candidate,
         \A q \in Pair : q # r => SideOf(q)'.verified = SideOf(q).verified,
         \A q \in Pair, s \in TS!Steps : Own(q, s) # TS!NoShard => Own(q, s)' # TS!NoShard
  PROVE  TS!VerifiedPick' >= TS!VerifiedPick
<1>1. Promotes(r) /\ writes[r] # <<"clear">>
  BY DutiesDiffer DEF Promotes
<1>2. /\ AllNew(SideOf(r).candidate)
      /\ SideOf(w).verified <= SideOf(r).candidate
  <2>1. Fresh(base, r) /\ SideOf(w).verified <= SideOf(r).candidate
    BY <1>1 DEF RunTrust
  <2>2. SideOf(r).candidate < cycle /\ SideOf(r).candidate \in Int /\ cycle \in Int
    BY <1>1, <2>1, PointerNumbers DEF Fresh
  <2> QED BY <2>1, <2>2 DEF Fresh
<1>3. PICK c \in TS!Steps : c = SideOf(r).candidate
  BY <1>2 DEF AllNew
<1>4. \A q \in Pair : Own(q, c)' # TS!NoShard
  <2>1. \A q \in Pair : New(q, c)
    BY <1>2, <1>3 DEF AllNew
  <2>2. \A q \in Pair : Own(q, c) # TS!NoShard
    BY <2>1, SideNumbers DEF New
  <2> QED BY <2>2
<1>5. \A q \in Pair : TS!VerifiedPick <= SideOf(q).verified /\ Own(q, TS!VerifiedPick) # TS!NoShard
  BY PickIs
<1>6. /\ TS!VerifiedPick \in Int /\ TS!NoStep < TS!VerifiedPick /\ TS!NoStep \in Int /\ c \in Int
      /\ \A q \in Pair : SideOf(q).verified \in Int
  <2>1. TS!VerifiedPick \in TS!Steps
    BY PickIs
  <2> QED BY <2>1, SideNumbers, PointerNumbers
<1>7. TS!VerifiedPick <= c
  BY <1>2, <1>3, <1>5, <1>6
<1>8. ASSUME NEW q \in Pair
      PROVE  SideOf(q).verified \in TS!Steps /\ SideOf(q).verified # TS!NoStep
  <2>1. SideOf(q).verified # TS!NoStep
    BY <1>5, <1>6
  <2> QED BY <2>1, PointerNumbers
<1>9. CASE SideOf(r)'.verified = SideOf(r).verified
  BY <1>9, PickStays
<1>10. CASE SideOf(r)'.verified # SideOf(r).verified
  <2>1. ASSUME NEW p \in Pair
        PROVE  TS!VerifiedPick <= SideOf(p)'.verified
    BY <1>3, <1>5, <1>7
  <2>2. ASSUME NEW q \in Pair, q # r
        PROVE  Own(r, SideOf(q).verified)' # TS!NoShard /\ Own(q, SideOf(q).verified)' # TS!NoShard
    <3>1. PICK v \in TS!Steps : v = SideOf(q).verified
      BY <1>8
    <3>2. Own(q, v) # TS!NoShard
      BY <1>8, <3>1 DEF RunTrust
    <3>3. Own(r, v) # TS!NoShard
      <4>1. Alongside(r, q)
        BY <2>2 DEF RunTrust
      <4>2. \/ Own(r, SideOf(q).verified) # TS!NoShard
            \/ Promotes(q) /\ SideOf(q).candidate = SideOf(r).verified
        BY <1>8, <4>1 DEF Alongside
      <4>3. Promotes(q) => SideOf(r).candidate = SideOf(q).candidate
        BY <1>1, <4>1 DEF Alongside
      <4> QED BY <1>10, <3>1, <4>2, <4>3
    <3>4. Own(q, v)' # TS!NoShard /\ Own(r, v)' # TS!NoShard
      BY <3>2, <3>3
    <3> QED BY <2>2, <3>1, <3>4
  <2>3. ASSUME NEW p \in Pair, NEW q \in Pair
        PROVE  Own(q, SideOf(p).verified)' # TS!NoShard
    <3>1. CASE p = r
      BY <1>3, <1>4, <3>1
    <3>2. CASE p # r
      <4>1. q = r \/ q = p
        BY <3>2, Pairs
      <4> QED BY <2>2, <3>2, <4>1
    <3> QED BY <3>1, <3>2
  <2> QED BY <2>1, <2>3, PickRises
<1> QED BY <1>9, <1>10

LEMMA SecondRises ==
  ASSUME SideTypes, ReadsInv, RotatingOnce, LoadInv \/ RunInv, setup.durable, TS!Next,
         SideTypes', ReadsInv', TS!VerifiedPick # TS!NoStep
  PROVE  TS!VerifiedPick' >= TS!VerifiedPick
<1>1. /\ leaves = 1 /\ \A r \in Pair : on[r]
      /\ \A r \in Pair : loading = "no" => writes[r] # <<"activate">>
      /\ \A r \in Pair : loading # "no" => writes[r] \in {<<"activate">>, <<>>}
  BY DEF LoadInv, RunInv, RunAs, RunShape, Modes
<1>2. \A r \in Pair : ~(TS!Killed(r) \/ TS!Terminated(r) \/ TS!TerminatedWithMirror(r))
  BY <1>1 DEF TS!Killed, TS!Terminated, TS!TerminatedWithMirror, TS!Leave, RotatingOnce
<1>3. ~ \E mode \in setup.modes, lost, moved \in SUBSET Pair : TS!Restart(mode, lost, moved)
  <2>1. \E r \in Pair : TRUE
    BY Pairs
  <2> QED BY <1>1, <2>1 DEF TS!Restart
<1>4. TS!Cycle \/ TS!Select \/ \E r \in Pair : TS!Write(r)
  BY <1>2, <1>3 DEF TS!Next
<1>5. /\ \A q \in Pair, s \in TS!Steps : Own(q, s) # TS!NoShard => Own(q, s)' # TS!NoShard
      /\ \/ \A q \in Pair : SideOf(q)'.verified = SideOf(q).verified
         \/ \E r \in Pair :
              /\ writes[r] = <<"promote">> /\ SideOf(r).candidate # TS!NoStep
              /\ SideOf(r)'.verified = SideOf(r).candidate
              /\ \A q \in Pair : q # r => SideOf(q)'.verified = SideOf(q).verified
  BY <1>1, <1>4, Pointing
<1>6. CASE \A q \in Pair : SideOf(q)'.verified = SideOf(q).verified
  BY <1>5, <1>6, PickStays
<1>7. ASSUME NEW r \in Pair, writes[r] = <<"promote">>, SideOf(r).candidate # TS!NoStep,
             SideOf(r)'.verified = SideOf(r).candidate,
             \A q \in Pair : q # r => SideOf(q)'.verified = SideOf(q).verified
      PROVE  TS!VerifiedPick' >= TS!VerifiedPick
  <2>1. ~LoadInv
    BY <1>7, DutiesDiffer DEF LoadInv
  <2>2. PICK base \in 0 .. MaxCycle, w \in Pair : RunAs(base, w)
    BY <2>1 DEF RunInv
  <2> QED BY <1>5, <1>7, <2>2, PromotionRises DEF RunAs
<1> QED BY <1>5, <1>6, <1>7

(* What a verified recovery would settle on does not fall while the ranks  *)
(* keep their folders: in no step before the first stop, and in none after *)
(* it with a durable coordinator, whichever rank is ahead with its files.  *)
THEOREM PickNeverRecedesAlways ==
  ASSUME RotatingOnce
  PROVE  TS!Spec => PickNeverRecedes
<1>1. TS!Init => SideInv
  BY SideInit
<1>2. SideInv /\ [TS!Next]_(TS!vars) => SideInv'
  BY SideNext
<1>3. ASSUME SideInv, SideInv', [TS!Next]_(TS!vars)
      PROVE  [TS!FilesChange /\ (leaves = 0 \/ setup.durable) => TS!VerifiedPick' >= TS!VerifiedPick]_(TS!vars)
  <2> SUFFICES ASSUME ~ UNCHANGED TS!vars, leaves' = leaves, leaves = 0 \/ setup.durable
               PROVE  TS!VerifiedPick' >= TS!VerifiedPick
    BY DEF TS!FilesChange
  <2>1. TS!Next /\ SideTypes /\ ReadsInv /\ SideTypes' /\ ReadsInv' /\ leaves \in {0, 1}
    BY <1>3 DEF SideInv, SideTypes
  <2>2. CASE TS!VerifiedPick = TS!NoStep
    BY <2>1, <2>2, FromNone
  <2>3. CASE TS!VerifiedPick # TS!NoStep /\ leaves = 0
    BY <1>3, <2>1, <2>3, FirstRises DEF SideInv
  <2>4. CASE TS!VerifiedPick # TS!NoStep /\ leaves = 1
    BY <1>3, <2>1, <2>4, SecondRises DEF SideInv
  <2> QED BY <2>1, <2>2, <2>3, <2>4
<1> QED BY <1>1, <1>2, <1>3, PTL DEF TS!Spec, PickNeverRecedes, TS!PickNeverRecedes
=============================================================================
