--------------------------- MODULE TrustSidecars ----------------------------
(***************************************************************************)
(* What the ranks of a job keep, each by itself, about the trust in its    *)
(* GEMINI checkpoints: one status sidecar per rank (CheckpointStatusStore, *)
(* checkpointing/disk.py), written by _persist_boundary, reject_candidate  *)
(* and load (checkpointing/manager.py) with no step common to the ranks,   *)
(* and copied with the shards to a restart mirror (copy_to).               *)
(*                                                                         *)
(* CheckpointTrust has one status for the job and several files per        *)
(* decision; here a decision is what the replays of a whole cycle give,    *)
(* and each rank carries it out one file at a time.  A cycle is one step:  *)
(* corruption that arises early in a cycle is seen in it, late corruption  *)
(* in the next one, and a dense catalog sees both.                         *)
(*                                                                         *)
(* A rank may be killed between any two of its files, or leave in order    *)
(* and flush what it has in memory.  The two ranks are each other's        *)
(* replication peers, so each writes both shards into its folder.  A job   *)
(* that finds no checkpoint starts from the beginning.  The exact load of  *)
(* a step and damaged files are in RecoverySelect.                         *)
(***************************************************************************)
EXTENDS Integers, Sequences, FiniteSetsExt

CONSTANTS
    Ranks,          \* the two ranks of a replication pair
    Setups,         \* the set-ups: [dense, durable, mirror, modes]
    MaxStep,        \* bound on detection cycles
    MaxStops        \* bound on how often the job stops

VARIABLES
    setup,          \* the set-up of this job
    step, bad,      \* the training step; whether the live state is corrupt
    slots,          \* slots[r]: the captures of rank r in memory
    todo,           \* todo[r]: files the rank has still to write
    on,             \* on[r]: whether the rank's process runs
    loading,        \* the mode in which a started job loads, or "no"
    home,           \* home[r]: the folder the rank was started with
    shard,          \* shard[f][r][s]: what folder f has of rank r's step s
    side,           \* side[f][r]: the rank's sidecar in folder f
    stops           \* how often the job has stopped

files == <<shard, side>>
vars == <<setup, step, bad, slots, todo, on, loading, home, files, stops>>

Steps == 1 .. MaxStep
NoStep == -1
Mirror == "mirror"
Folders == Ranks \cup {Mirror}
Peer(r) == CHOOSE q \in Ranks : q # r

\* Two ranks make a pair; the mirror is not a rank's own folder.
PairAssumption == Mirror \notin Ranks /\ \E r, q \in Ranks : r # q /\ Ranks = {r, q}

\* A shard is known by whether it is corrupt and by the run that wrote it.
NoShard == [bad |-> FALSE, life |-> -1]
Now == [bad |-> bad, life |-> stops]

NoStatus == [mode |-> "none", candidate |-> NoStep, verified |-> NoStep]
NewStatus == [NoStatus EXCEPT !.mode = "latest"]

EmptyFolder == [r \in Ranks |-> [s \in Steps |-> NoShard]]

(***************************************************************************)
(* CheckpointStatusStore.read: the rank's own sidecar; else what the other *)
(* sidecars of the folder agree on, as a verified pointer only.            *)
(***************************************************************************)
Fallback(other) ==
    IF other = NoStatus THEN NewStatus
    ELSE [mode |-> "recovery_verified", candidate |-> NoStep, verified |-> other.verified]

Read(r) ==
    LET own == side[home[r]][r]
    IN  IF own # NoStatus THEN own ELSE Fallback(side[home[r]][Peer(r)])

HasRank(r, s) == shard[home[r]][r][s] # NoShard

\* _verified_disk_step
VerifiedVote(r) ==
    IF Read(r).verified # NoStep /\ HasRank(r, Read(r).verified)
    THEN Read(r).verified ELSE NoStep

\* Mutant: the ranks settle on the newest pointer that any of them has.
NewestPick == Max({VerifiedVote(r) : r \in Ranks})

\* The generation that a verified recovery settles on: the MIN of the votes,
\* if every rank can load it.
VerifiedPick ==
    LET s == Min({VerifiedVote(r) : r \in Ranks})
    IN  IF s # NoStep /\ \A r \in Ranks : HasRank(r, s) THEN s ELSE NoStep

\* _consistent_step: the newest generation that every rank has.
LatestPick == Max({NoStep} \cup {s \in Steps : \A r \in Ranks : HasRank(r, s)})

(***************************************************************************)
(* A detection cycle, once the ranks have pooled what they saw.            *)
(***************************************************************************)
Running == loading = "no" /\ \A r \in Ranks : on[r] /\ todo[r] = <<>>

EachDoes(what) == todo' = [r \in Ranks |-> what]

\* _reject_candidate, on SDC or inconclusive evidence.
Unsafe ==
    /\ bad' \in {bad, TRUE}
    /\ EachDoes(<<"reject">>)

\* A clean cycle: the capture of its last step, and _persist_boundary.
Accepted ==
    /\ ~bad
    /\ bad' \in IF setup.dense THEN {FALSE} ELSE BOOLEAN
    /\ EachDoes(<<"capture", "own", "peer", "promote">>)

Cycle ==
    /\ Running
    /\ step < MaxStep
    /\ step' = step + 1
    /\ Unsafe \/ Accepted
    /\ UNCHANGED <<setup, slots, on, loading, home, files, stops>>

(***************************************************************************)
(* One file of one rank.                                                   *)
(***************************************************************************)
Does(r, what) ==
    /\ on[r] /\ todo[r] # <<>> /\ Head(todo[r]) = what
    /\ todo' = [todo EXCEPT ![r] = Tail(@)]

Captures(r) == {c.step : c \in slots[r]}

\* save keeps the newest capture and the one before it.
Capture(r) ==
    /\ Does(r, "capture")
    /\ slots' = [slots EXCEPT ![r] =
                    {c \in @ : c.step = Max(Captures(r))} \cup {[step |-> step, bad |-> bad]}]
    /\ UNCHANGED files

\* The rank's own shard, once every rank has the capture; then its peer's.
WriteShard(r) ==
    /\ \/ /\ Does(r, "own") /\ \A q \in Ranks : step \in Captures(q)
          /\ shard' = [shard EXCEPT ![home[r]][r][step] = Now]
       \/ /\ Does(r, "peer")
          /\ shard' = [shard EXCEPT ![home[r]][Peer(r)][step] = Now]
    /\ UNCHANGED <<slots, side>>

Written(r, status) == side' = [side EXCEPT ![home[r]][r] = status]

\* load and the certification coordinator write only what is new.
Updated(r, status) == IF status = Read(r) THEN UNCHANGED side ELSE Written(r, status)

\* Mutant: a boundary without a candidate before it verifies nothing.
PromotedOnly(st) ==
    [mode |-> "latest",
     candidate |-> IF setup.dense THEN NoStep ELSE step,
     verified |-> IF setup.dense THEN step ELSE st.candidate]

\* The roles advance: the candidate is now verified and the boundary the new
\* candidate; with a dense catalog the boundary itself is verified.
Promoted(st) ==
    [mode |-> "latest",
     candidate |-> IF setup.dense THEN NoStep ELSE step,
     verified |-> IF setup.dense THEN step
                  ELSE IF st.candidate # NoStep THEN st.candidate ELSE st.verified]

\* Mutant: the rejected candidate stays in the status.
ModeOnly(st, mode) == [st EXCEPT !.mode = mode]

\* set_recovery_mode
WithMode(st, mode) ==
    [st EXCEPT !.mode = mode,
               !.candidate = IF mode = "recovery_verified" THEN NoStep ELSE @]

WriteStatus(r) ==
    /\ \/ Does(r, "promote") /\ Written(r, Promoted(Read(r)))
       \/ Does(r, "reject") /\ Written(r, WithMode(Read(r), "recovery_verified"))
       \/ Does(r, "activate") /\ Updated(r, WithMode(Read(r), loading))
       \/ Does(r, "clear") /\ Updated(r, [Read(r) EXCEPT !.candidate = NoStep])
    /\ UNCHANGED <<slots, shard>>

Write(r) ==
    /\ Capture(r) \/ WriteShard(r) \/ WriteStatus(r)
    /\ UNCHANGED <<setup, step, bad, on, loading, home, stops>>

(***************************************************************************)
(* A rank leaves.                                                          *)
(***************************************************************************)
\* The shards of steps that a rank has in memory, its own and its peer's.
Held(r) == {f \in Ranks \X Steps : \E c \in slots[r] \cap slots[f[1]] : c.step = f[2]}

\* _flush_slots writes its own shards first, and of each rank's the newest; a
\* process that is killed over it has written some, in that order.
Sooner(r, f, g) == IF f[1] = g[1] THEN f[2] > g[2] ELSE f[1] = r
FlushCuts(r) == {some \in SUBSET Held(r) :
                    \A f \in some, g \in Held(r) : Sooner(r, g, f) => g \in some}

\* The rank's folder with those in it.
Flushed(r, some) ==
    [q \in Ranks |-> [s \in Steps |->
        IF <<q, s>> \in some
        THEN [bad |-> \E c \in slots[r] \cap slots[q] : c.step = s /\ c.bad, life |-> stops]
        ELSE shard[home[r]][q][s]]]

Present(folder) == {f \in Ranks \X Steps : folder[f[1]][f[2]] # NoShard}

Copied(folder, some) ==
    [q \in Ranks |-> [s \in Steps |->
        IF <<q, s>> \in some THEN folder[q][s] ELSE shard[Mirror][q][s]]]

Leave(r) ==
    /\ on[r]
    /\ stops < MaxStops \/ \E q \in Ranks : ~on[q]
    /\ on' = [on EXCEPT ![r] = FALSE]
    /\ todo' = [todo EXCEPT ![r] = <<>>]
    /\ UNCHANGED <<setup, step, bad, slots, loading, home, stops>>

Killed(r) == Leave(r) /\ UNCHANGED files

Terminated(r) ==
    /\ slots[r] # {}
    /\ Leave(r)
    /\ \E some \in FlushCuts(r) : shard' = [shard EXCEPT ![home[r]] = Flushed(r, some)]
    /\ UNCHANGED side

\* With a restart destination, a folder that no rank runs from, copy_to goes
\* there after the flush: with the shards, folder after folder in the order of
\* their names, which is not that of their steps; then with the status under
\* the rank's own name and its peer's.
TerminatedWithMirror(r) ==
    /\ setup.mirror /\ slots[r] # {}
    /\ \A q \in Ranks : home[q] # Mirror
    /\ Leave(r)
    /\ LET folder == Flushed(r, Held(r))
       IN  \E some \in SUBSET Present(folder), named \in SUBSET Ranks :
             /\ named # {} => some = Present(folder)
             /\ shard' = [shard EXCEPT ![home[r]] = folder, ![Mirror] = Copied(folder, some)]
             /\ side' = [side EXCEPT ![Mirror] =
                            [q \in Ranks |-> IF q \in named THEN Read(r) ELSE @[q]]]

(***************************************************************************)
(* The job starts again, every rank with its folder, on a new node with an *)
(* empty one, or from the mirror.                                          *)
(***************************************************************************)
Restart(mode, lost, moved) ==
    /\ \A r \in Ranks : ~on[r]
    /\ lost \cap moved = {}
    /\ moved = {} \/ (setup.mirror /\ shard[Mirror] # EmptyFolder)
    /\ on' = [r \in Ranks |-> TRUE]
    /\ stops' = stops + 1
    /\ loading' = mode
    /\ EachDoes(<<"activate">>)
    /\ home' = [r \in Ranks |-> IF r \in lost THEN r
                                ELSE IF r \in moved THEN Mirror ELSE home[r]]
    /\ shard' = [f \in Folders |-> IF f \in lost THEN EmptyFolder ELSE shard[f]]
    /\ side' = [f \in Folders |-> IF f \in lost THEN [r \in Ranks |-> NoStatus] ELSE side[f]]
    /\ slots' = [r \in Ranks |-> {}]
    /\ step' = 0 /\ bad' = FALSE
    /\ UNCHANGED setup

\* load, once every rank has recorded the mode; then, with a durable
\* coordinator, the certification coordinator drops a candidate left over.
Select ==
    /\ loading # "no"
    /\ \A r \in Ranks : on[r] /\ todo[r] = <<>>
    /\ loading' = "no"
    /\ LET s == IF loading = "latest" THEN LatestPick ELSE VerifiedPick
       IN  /\ step' = IF s = NoStep THEN 0 ELSE s
           /\ bad' = \E r \in Ranks : s # NoStep /\ shard[home[r]][r][s].bad
    /\ EachDoes(IF setup.durable THEN <<"clear">> ELSE <<>>)
    /\ UNCHANGED <<setup, slots, on, home, files, stops>>

Init ==
    /\ setup \in Setups
    /\ step = 0 /\ bad = FALSE /\ slots = [r \in Ranks |-> {}]
    /\ todo = [r \in Ranks |-> <<>>]
    /\ on = [r \in Ranks |-> TRUE]
    /\ loading = "no"
    /\ home = [r \in Ranks |-> r]
    /\ shard = [f \in Folders |-> EmptyFolder]
    /\ side = [f \in Folders |-> [r \in Ranks |-> NoStatus]]
    /\ stops = 0

Next ==
    \/ Cycle
    \/ Select
    \/ \E r \in Ranks : Write(r)
    \/ \E r \in Ranks : Killed(r)
    \/ \E r \in Ranks : Terminated(r)
    \/ \E r \in Ranks : TerminatedWithMirror(r)
    \/ \E mode \in setup.modes : \E lost, moved \in SUBSET Ranks : Restart(mode, lost, moved)

Spec == Init /\ [][Next]_vars

(***************************************************************************)
(* Properties.                                                             *)
(***************************************************************************)
\* What a verified recovery would settle on, at any moment at which the job
\* might die, is free of corruption on every rank: however a promotion or a
\* rejection was cut short, whichever sidecars were lost, copied from the
\* peer or read from it, and whatever was computed since under the same step.
PickIsClean ==
    VerifiedPick # NoStep =>
        \A r \in Ranks : ~shard[home[r]][r][VerifiedPick].bad

\* Its shards come from one run of the job: not this rank's from before a
\* restart and that rank's from after it, under the same step.
PickIsOneRun ==
    VerifiedPick # NoStep =>
        \A r, q \in Ranks :
            shard[home[r]][r][VerifiedPick].life = shard[home[q]][q][VerifiedPick].life

\* A step that changes files, while the ranks keep their folders.
FilesChange == files' # files /\ stops' = stops

\* Then trust is not lost: no promotion, rejection, load or flush makes a
\* verified recovery settle for an older generation than it would have
\* before, or for none.
TrustIsKept == [][FilesChange => VerifiedPick' >= VerifiedPick]_vars

\* So it is before the first stop, and after it with a durable coordinator,
\* which drops the candidate that a load has left over.
PickNeverRecedes ==
    [][FilesChange /\ (stops = 0 \/ setup.durable) => VerifiedPick' >= VerifiedPick]_vars
=============================================================================
