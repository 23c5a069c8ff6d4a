--------------------------- MODULE RecoverySelect ---------------------------
(***************************************************************************)
(* How the ranks of a restarted job agree on the checkpoint to load:       *)
(* InMemoryCheckpointManager.load / load_tensors and find_latest           *)
(* (checkpointing/manager.py) over one rank's files (DiskSerializer) and   *)
(* status sidecar (CheckpointStatusStore, checkpointing/disk.py).          *)
(*                                                                         *)
(* There is no coordinator.  Every rank runs the same code and each        *)
(* decision is a MIN-reduction of one integer per rank.  The reductions    *)
(* carry no tag, so the n-th reduction of one rank meets the n-th of every *)
(* other whatever each of them is asking: a round is one reduction of all  *)
(* ranks, and each rank goes on by its own program counter.  A rank that   *)
(* has returned joins no further round.                                    *)
(*                                                                         *)
(* What the ranks hold does not change while they decide, except that a    *)
(* load first writes the chosen mode into the rank's status.               *)
(***************************************************************************)
EXTENDS Integers, FiniteSets, FiniteSetsExt

CONSTANTS
    Ranks,          \* the ranks of the checkpoint process group
    MaxStep,        \* checkpoints are labelled 1 .. MaxStep
    Calls,          \* the calls made: a subset of {"load", "find", "exact"}
    Asks,           \* mode arguments: of Modes, or "status" for mode=None
    ExactSteps      \* the steps a manager may ask for in load(step=)

ASSUME SelectAssumption ==
    /\ Ranks # {} /\ MaxStep \in Nat
    /\ Calls \subseteq {"load", "find", "exact"}
    /\ Asks \subseteq {"latest", "recovery_verified", "status"}
    /\ ExactSteps \subseteq 1 .. MaxStep

VARIABLES
    mem,            \* mem[r]: steps complete in the rank's own slots
    files,          \* files[r]: steps with a file of this rank's shard
    valid,          \* valid[r]: those whose file passes DiskSerializer.load
    status,         \* status[r]: the rank's CheckpointStatus
    call,           \* which of load(), find_latest() and load(step=) runs
    asked,          \* the mode argument, or "status" for mode=None
    want,           \* want[r]: the step argument of load(step=)
    st              \* st[r]: where the rank is and what it has learnt

held == <<mem, files, valid, call, asked, want>>
vars == <<held, status, st>>

Steps == 1 .. MaxStep
Modes == {"latest", "recovery_verified"}
NoStep == -1
Unbounded == MaxStep + 1        \* before_step = None
OwnSlots == 2                   \* own_current and own_previous

\* CheckpointStatus.__post_init__: the verified pointer is a verified step.
Statuses ==
    {s \in [mode : Modes, candidate : BOOLEAN,
            verified : Steps \cup {NoStep}, history : SUBSET Steps] :
        s.verified # NoStep => s.verified \in s.history}

Newest(steps) == Max(steps \cup {NoStep})
Below(steps, bound) == {s \in steps : s < bound}

(***************************************************************************)
(* A rank's program counter `at` names the collective it waits in, with    *)
(*   cand    the step in question, or the result once it is done,          *)
(*   before  the bound of the search for an older generation,              *)
(*   memory  the step agreed on for the memory tier,                       *)
(*   older   whether an invalid generation was already passed over,        *)
(*   ok      its vote on its own activation of an exact request.           *)
(***************************************************************************)
Collectives == {"memory", "memory_has", "newest", "exact", "valid",
                "verified", "activated", "eligible", "held"}
Places == Collectives \cup {"idle", "agree", "activate", "done", "raised"}

Idle == [at |-> "idle", cand |-> NoStep, before |-> Unbounded,
         memory |-> NoStep, older |-> FALSE, ok |-> FALSE]

\* _resolved_recovery_mode: the argument, or what the rank's own status says.
Resolved(r) == IF asked = "status" THEN status[r].mode ELSE asked

\* set_recovery_mode, as _activate_recovery_mode calls it.
Activated(r, mode) ==
    [status[r] EXCEPT !.mode = mode,
                      !.candidate = @ /\ mode # "recovery_verified"]

Done(s, step) == [s EXCEPT !.at = "done", !.cand = step]

\* find_latest reports the better tier; load returns what it loaded.
Finish(s, disk) ==
    Done(s, IF call = "find" THEN Newest({s.memory, disk}) ELSE disk)

\* The tiers are compared once the disk step is known; an older generation
\* taken after an invalid one goes straight to its own validation.
Chosen(s, disk) ==
    IF ~s.older /\ s.memory > 0 /\ s.memory >= disk THEN Done(s, s.memory)
    ELSE IF disk <= 0 THEN Finish(s, NoStep)
    ELSE [s EXCEPT !.at = "valid", !.cand = disk]

(***************************************************************************)
(* What a rank contributes to the reduction it waits in.                   *)
(***************************************************************************)
\* Mutant: a rank without the step gives up.
ExactVoteOrNone(r) == IF st[r].cand \in files[r] THEN st[r].cand ELSE NoStep

\* _consistent_step: a rank without the step offers its newest older one.
ExactVote(r) ==
    IF st[r].cand \in files[r] THEN st[r].cand
    ELSE Newest(Below(files[r], st[r].cand))

Flag(b) == IF b THEN 1 ELSE 0

Vote(r) ==
    LET s == st[r] IN
    CASE s.at = "memory"     -> Newest(mem[r])
      [] s.at = "memory_has" -> Flag(s.cand \in mem[r])
      [] s.at = "newest"     -> Newest(Below(files[r], s.before))
      [] s.at = "exact"      -> ExactVote(r)
      [] s.at = "valid"      -> Flag(s.cand \in valid[r])
      [] s.at = "verified"   -> Newest({status[r].verified} \cap files[r])
      [] s.at = "activated"  -> Flag(s.ok)
      [] s.at = "eligible"   -> Flag(want[r] \in status[r].history \cap files[r])
      [] s.at = "held"       -> Flag(want[r] \in mem[r] \cup valid[r])

(***************************************************************************)
(* What a rank does with the reduced value m.                              *)
(***************************************************************************)
AfterMemory(s, m) ==
    IF m > 0 THEN [s EXCEPT !.at = "memory_has", !.cand = m]
             ELSE [s EXCEPT !.at = "newest"]

AfterMemoryHas(s, m) ==
    [s EXCEPT !.at = "newest", !.memory = IF m = 1 THEN s.cand ELSE NoStep]

AfterNewest(s, m) ==
    IF m > 0 THEN [s EXCEPT !.at = "exact", !.cand = m] ELSE Chosen(s, NoStep)

AfterExact(s, m) ==
    IF m = s.cand THEN Chosen(s, m) ELSE AfterNewest(s, m)

\* Mutant: a rank whose own shard loads does not wait for the others' votes.
AfterOwnValid(r, s, m) ==
    IF m = 1 \/ s.cand \in valid[r] THEN Finish(s, s.cand)
    ELSE Finish(s, NoStep)

\* _load_latest_collectively_validated_disk_shard: latest mode looks for an
\* older generation when some rank refuses its shard.
AfterValid(r, s, m) ==
    IF m = 1 THEN Finish(s, s.cand)
    ELSE IF Resolved(r) = "latest"
         THEN [s EXCEPT !.at = "newest", !.before = s.cand, !.older = TRUE]
    ELSE Finish(s, NoStep)

AfterActivated(r, s, m) ==
    IF m # 1 THEN Done(s, NoStep)
    ELSE IF Resolved(r) = "recovery_verified" THEN [s EXCEPT !.at = "eligible"]
    ELSE [s EXCEPT !.at = "held"]

AfterEligible(r, s, m) ==
    IF m = 1 THEN [s EXCEPT !.at = "valid", !.cand = want[r]] ELSE Done(s, NoStep)

AfterHeld(r, s, m) == Done(s, IF m = 1 THEN want[r] ELSE NoStep)

After(r, m) ==
    LET s == st[r] IN
    CASE s.at = "memory"     -> AfterMemory(s, m)
      [] s.at = "memory_has" -> AfterMemoryHas(s, m)
      [] s.at = "newest"     -> AfterNewest(s, m)
      [] s.at = "exact"      -> AfterExact(s, m)
      [] s.at = "valid"      -> AfterValid(r, s, m)
      [] s.at = "verified"   -> Chosen(s, m)
      [] s.at = "activated"  -> AfterActivated(r, s, m)
      [] s.at = "eligible"   -> AfterEligible(r, s, m)
      [] s.at = "held"       -> AfterHeld(r, s, m)

(***************************************************************************)
(* The actions.                                                            *)
(***************************************************************************)
\* A rank enters the call.  A plain load writes the mode it resolved into
\* its own status before the first reduction.
FirstPlace(r) ==
    IF call = "exact" THEN "agree"
    ELSE IF Resolved(r) = "recovery_verified" THEN "verified" ELSE "memory"

Begin(r) ==
    /\ st[r].at = "idle"
    /\ st' = [st EXCEPT ![r].at = FirstPlace(r)]
    /\ status' = IF call = "load"
                 THEN [status EXCEPT ![r] = Activated(r, Resolved(r))]
                 ELSE status
    /\ UNCHANGED held

\* _agree_exact_recovery_request: the reductions of both bounds show every
\* rank whether all of them ask for one step in one mode.
RequestsAgree ==
    /\ \A r \in Ranks : want[r] \in Steps
    /\ \A r, q \in Ranks : want[r] = want[q] /\ Resolved(r) = Resolved(q)

Agree ==
    /\ \A r \in Ranks : st[r].at = "agree"
    /\ st' = [r \in Ranks |->
                 [st[r] EXCEPT !.at = IF RequestsAgree THEN "activate"
                                                       ELSE "raised"]]
    /\ UNCHANGED <<held, status>>

\* _activate_recovery_mode_collectively: the write may fail on one rank, and
\* every rank votes on whether its own succeeded.
Activate(r, succeeds) ==
    /\ st[r].at = "activate"
    /\ st' = [st EXCEPT ![r].at = "activated", ![r].ok = succeeds]
    /\ status' = IF succeeds
                 THEN [status EXCEPT ![r] = Activated(r, Resolved(r))]
                 ELSE status
    /\ UNCHANGED held

\* One reduction of all ranks: _collective_min_step.
Round ==
    /\ \A r \in Ranks : st[r].at \in Collectives
    /\ LET m == Min({Vote(r) : r \in Ranks})
       IN  st' = [r \in Ranks |-> After(r, m)]
    /\ UNCHANGED <<held, status>>

Returned(r) == st[r].at \in {"done", "raised"}

Finished ==
    /\ \A r \in Ranks : Returned(r)
    /\ UNCHANGED vars

(***************************************************************************)
(* Any files may be missing (a replaced node, a flush that did not run)    *)
(* and any may be damaged.  At most two generations are in memory, and     *)
(* they need not be the same ones on every rank.  What a call does not     *)
(* look at is left empty: memory in the verified mode, the verified steps  *)
(* in the latest one, other steps than the wanted ones in load(step=), and *)
(* the history behind the verified pointer in a plain load.  An explicit   *)
(* mode overrides the other one in the status; under mode=None the ranks'  *)
(* statuses need not agree, since each rank writes its own.                *)
(***************************************************************************)
Looked == IF call = "exact" THEN ExactSteps ELSE Steps

InitialStatus(mode, verified) ==
    [mode |-> mode, candidate |-> TRUE,
     verified |-> Newest(verified), history |-> verified]

Init ==
    /\ call \in Calls
    /\ asked \in Asks
    /\ want \in [Ranks -> IF call = "exact" THEN ExactSteps \cup {NoStep}
                                           ELSE {NoStep}]
    /\ files \in [Ranks -> SUBSET Looked]
    /\ \E damaged \in [Ranks -> SUBSET Looked] :
          /\ \A r \in Ranks : damaged[r] \subseteq files[r]
          /\ valid = [r \in Ranks |-> files[r] \ damaged[r]]
    /\ \E modes \in [Ranks -> IF asked = "status" THEN Modes ELSE Modes \ {asked}],
          verified \in [Ranks -> IF asked = "latest" THEN {{}}
                                ELSE {v \in SUBSET Looked :
                                         call = "exact" \/ Cardinality(v) <= 1}] :
          status = [r \in Ranks |-> InitialStatus(modes[r], verified[r])]
    /\ mem \in [Ranks -> IF asked = "recovery_verified" THEN {{}}
                         ELSE {m \in SUBSET Looked : Cardinality(m) <= OwnSlots}]
    /\ st = [r \in Ranks |-> Idle]

Next ==
    \/ \E r \in Ranks : Begin(r)
    \/ \E r \in Ranks : \E succeeds \in BOOLEAN : Activate(r, succeeds)
    \/ Agree
    \/ Round
    \/ Finished

Spec == Init /\ [][Next]_vars

\* A rank in a call goes on, and a reduction completes once all have joined.
Fairness ==
    /\ \A r \in Ranks : WF_vars(Begin(r)) /\ WF_vars(\E b \in BOOLEAN : Activate(r, b))
    /\ WF_vars(Agree)
    /\ WF_vars(Round)

FairSpec == Spec /\ Fairness

(***************************************************************************)
(* Properties.                                                             *)
(***************************************************************************)
TypeOK ==
    /\ mem \in [Ranks -> SUBSET Steps]
    /\ files \in [Ranks -> SUBSET Steps]
    /\ valid \in [Ranks -> SUBSET Steps]
    /\ status \in [Ranks -> Statuses]
    /\ call \in {"load", "find", "exact"}
    /\ asked \in Modes \cup {"status"}
    /\ want \in [Ranks -> Steps \cup {NoStep}]
    /\ st \in [Ranks -> [at : Places, cand : Steps \cup {NoStep},
                         before : Steps \cup {Unbounded},
                         memory : Steps \cup {NoStep},
                         older : BOOLEAN, ok : BOOLEAN]]

Result(r) == st[r].cand
HasResult(r) == st[r].at = "done" /\ Result(r) > 0

\* Steps whose file every rank accepts.
CommonlyValid == {s \in Steps : \A r \in Ranks : s \in valid[r]}

\* A step that the ranks settle on is one that every rank can load whole:
\* from its own memory or from a valid file, in the verified mode from a file
\* only, and for load(step=) it is the step asked for, verified on every rank
\* when the mode asks for that.
ResultIsHeldByAll ==
    \A r \in Ranks : HasResult(r) =>
        /\ \A q \in Ranks : Result(r) \in mem[q] \cup valid[q]
        /\ Resolved(r) = "recovery_verified" =>
              /\ Result(r) \in CommonlyValid
              /\ \E q \in Ranks : Result(r) \in status[q].history
        /\ call = "exact" =>
              /\ \A q \in Ranks : want[q] = Result(r)
              /\ Resolved(r) = "recovery_verified" =>
                    \A q \in Ranks : Result(r) \in status[q].history

\* In the latest mode the ranks never settle for less than the newest
\* generation that all of them have valid files of, however many newer ones
\* are missing here and damaged there; and they come back empty-handed only
\* when there is none.
NewestValidIsFound ==
    \A r \in Ranks :
        (st[r].at = "done" /\ call # "exact" /\ Resolved(r) = "latest")
            => \A s \in CommonlyValid : s <= Result(r)

\* In the latest mode the ranks do not settle for less than the generation that
\* they found all of them to hold in memory, whatever they then find on disk.
MemoryIsNotForgotten ==
    \A r \in Ranks :
        (st[r].at = "done" /\ call # "exact" /\ Resolved(r) = "latest")
            => Result(r) >= st[r].memory

\* A call that all ranks make returns on every rank: the search for an older
\* common generation ends, and no rank waits in a reduction that another one
\* will not join.
EveryRankReturns == []<>(\A r \in Ranks : Returned(r))

\* Once every rank has returned from a load, each rank's status says the mode
\* that the load was made in, and no candidate is left after a verified one.
\* A refused activation of load(step=) is the exception.
ModeIsRecorded ==
    (\A r \in Ranks : HasResult(r)) /\ call # "find" =>
        \A r \in Ranks : /\ status[r].mode = Resolved(r)
                         /\ Resolved(r) = "recovery_verified" => ~status[r].candidate

\* The search in the latest mode misses no common generation, and the mode
\* in which a step was found is on disk.
NewestIsFound == NewestValidIsFound /\ ModeIsRecorded
=============================================================================
