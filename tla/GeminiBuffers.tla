---------------------------- MODULE GeminiBuffers ----------------------------
(***************************************************************************)
(* GEMINI's in-memory checkpoint pipeline (InMemoryCheckpointManager with  *)
(* BufferPool, AsyncDeviceCopier and PeerReplicator): every rank copies    *)
(* its shard to the host, exchanges it with its peer in the background,    *)
(* rotates two generations of slots, and flushes what is READY to its      *)
(* node's disk when it is stopped.                                         *)
(*                                                                         *)
(* A save is several steps because a signal handler runs between any two   *)
(* of them in the same thread, and the completion thread and the threads   *)
(* of the exchange run beside it.  A shard is the step its slot is         *)
(* labelled with and the step its bytes come from (`data`), so a slot that *)
(* is being overwritten can be told from a whole one.                      *)
(***************************************************************************)
EXTENDS Integers, FiniteSets

CONSTANTS
  Ranks,
  Peer,       \* Peer[r]: the rank that r exchanges shards with
  MaxStep,    \* bound on the captures, numbered 1, 2, ...
  FlushInterval,  \* disk_flush_interval
  MaxLosses   \* bound on the nodes that are lost

ASSUME BuffersAssumption ==
  /\ Peer \in [Ranks -> Ranks]
  /\ \A r \in Ranks : Peer[r] # r /\ Peer[Peer[r]] = r
  /\ MaxStep \in Nat
  /\ FlushInterval \in Nat
  /\ MaxLosses \in Nat

VARIABLES
  ownCur, ownPrev,     \* the two own slots of each rank
  peerCur, peerPrev,   \* the two slots for its peer's shard
  at,                  \* where the main thread of a rank is
  step,                \* the last capture it began (_save_count and its step)
  worker,              \* its completion thread
  exchange,            \* its exchange of step[r]
  source,              \* _replication_source is set
  writer,              \* the clone its disk-write thread is writing
  broken,              \* ranks whose link to their peer has failed
  disk,                \* disk[r][q][s]: data of rank q's shard of step s, 0 for none
  secured              \* newest step that every rank has exchanged successfully

memoryVars == <<ownCur, ownPrev, peerCur, peerPrev>>
vars == <<ownCur, ownPrev, peerCur, peerPrev, at, step, worker, exchange, source,
          writer, broken, disk, secured>>

Steps == 1 .. MaxStep
Mixed == -1          \* bytes of two generations
Empty == [step |-> -1, state |-> "EMPTY", data |-> 0]
NoFiles == [q \in Ranks |-> [s \in Steps |-> 0]]

Running(r) == at[r] \in {"train", "start", "label", "mark", "launch"}

Init ==
  /\ ownCur = [r \in Ranks |-> Empty] /\ ownPrev = [r \in Ranks |-> Empty]
  /\ peerCur = [r \in Ranks |-> Empty] /\ peerPrev = [r \in Ranks |-> Empty]
  /\ at = [r \in Ranks |-> "train"]
  /\ step = [r \in Ranks |-> 0]
  /\ worker = [r \in Ranks |-> "none"]
  /\ exchange = [r \in Ranks |-> "none"]
  /\ source = [r \in Ranks |-> FALSE]
  /\ writer = [r \in Ranks |-> Empty]
  /\ broken = {}
  /\ disk = [r \in Ranks |-> NoFiles]
  /\ secured = 0

-----------------------------------------------------------------------------
(***************************************************************************)
(* A training step ends on all ranks together: rank r captures the next    *)
(* step once every rank is done with the save before it.                   *)
(***************************************************************************)
TrainingReaches(r) ==
  \A q \in Ranks : step[q] > step[r] \/ (step[q] = step[r] /\ at[q] = "train")

(***************************************************************************)
(* finalize_replication, once the exchange has ended or is given up: what  *)
(* it returns, and the two current slots it leaves.  Without a source it   *)
(* returns True.                                                           *)
(***************************************************************************)
Received(r) == source[r] => exchange[r] = "ok"

OwnFinal(r) ==
  IF source[r] /\ ownCur[r].state = "REPLICATING"
  THEN [ownCur[r] EXCEPT !.state = "READY"] ELSE ownCur[r]

PeerFinal(r) ==
  IF source[r] /\ exchange[r] = "ok"
  THEN [peerCur[r] EXCEPT !.step = step[r], !.state = "READY"] ELSE peerCur[r]

(* The last rank to rotate an exchange that all completed secures its step. *)
SecuredAfter(r) ==
  IF /\ Received(r) /\ PeerFinal(r).state = "READY" /\ PeerFinal(r).step = step[r]
     /\ \A q \in Ranks \ {r} : peerPrev[q].state = "READY" /\ peerPrev[q].step = step[r]
  THEN step[r] ELSE secured

(* Mutant: after a failed exchange the own slots are rotated all the same. *)
PrepareRotatesOwn(r) ==
  /\ at[r] = "train" /\ step[r] < MaxStep
  /\ TrainingReaches(r)
  /\ worker[r] = "none"
  /\ exchange[r] # "active"
  /\ step' = [step EXCEPT ![r] = @ + 1]
  /\ \/ /\ step[r] = 0
        /\ UNCHANGED memoryVars
     \/ /\ step[r] > 0
        /\ ownPrev'  = [ownPrev EXCEPT ![r] = OwnFinal(r)]
        /\ ownCur'   = [ownCur EXCEPT ![r] = ownPrev[r]]
        /\ peerPrev' = IF Received(r) THEN [peerPrev EXCEPT ![r] = PeerFinal(r)] ELSE peerPrev
        /\ peerCur'  = IF Received(r) THEN [peerCur EXCEPT ![r] = peerPrev[r]] ELSE peerCur
  /\ secured' = SecuredAfter(r)
  /\ source' = [source EXCEPT ![r] = FALSE]
  /\ exchange' = [exchange EXCEPT ![r] = "none"]
  /\ at' = [at EXCEPT ![r] = "start"]
  /\ UNCHANGED <<worker, writer, broken, disk>>

(***************************************************************************)
(* _prepare_next_capture: finalize the active exchange; rotate if it went  *)
(* well, else drop the current slots and keep the previous pair.           *)
(***************************************************************************)
PrepareNextCapture(r) ==
  /\ at[r] = "train" /\ step[r] < MaxStep
  /\ TrainingReaches(r)
  /\ worker[r] = "none"
  /\ exchange[r] # "active"
  /\ step' = [step EXCEPT ![r] = @ + 1]
  /\ \/ /\ step[r] = 0
        /\ UNCHANGED memoryVars
     \/ /\ step[r] > 0 /\ Received(r)
        /\ ownPrev'  = [ownPrev EXCEPT ![r] = OwnFinal(r)]
        /\ ownCur'   = [ownCur EXCEPT ![r] = ownPrev[r]]
        /\ peerPrev' = [peerPrev EXCEPT ![r] = PeerFinal(r)]
        /\ peerCur'  = [peerCur EXCEPT ![r] = peerPrev[r]]
     \/ /\ step[r] > 0 /\ ~Received(r)
        /\ ownCur'  = [ownCur EXCEPT ![r] = [Empty EXCEPT !.data = ownCur[r].data]]
        /\ peerCur' = [peerCur EXCEPT ![r] = [Empty EXCEPT !.data = peerCur[r].data]]
        /\ UNCHANGED <<ownPrev, peerPrev>>
  /\ secured' = SecuredAfter(r)
  /\ source' = [source EXCEPT ![r] = FALSE]
  /\ exchange' = [exchange EXCEPT ![r] = "none"]
  /\ at' = [at EXCEPT ![r] = "start"]
  /\ UNCHANGED <<worker, writer, broken, disk>>

(* _do_save: start_copy begins to overwrite the tensors of own_current. *)
StartCopy(r) ==
  /\ at[r] = "start"
  /\ ownCur' = [ownCur EXCEPT ![r].data = Mixed]
  /\ at' = [at EXCEPT ![r] = "label"]
  /\ UNCHANGED <<ownPrev, peerCur, peerPrev, step, worker, exchange, source, writer, broken,
                 disk, secured>>

(* _do_save: the slot is labelled with its step; its state is still that   *)
(* of the generation before.                                               *)
Label(r) ==
  /\ at[r] = "label"
  /\ ownCur' = [ownCur EXCEPT ![r].step = step[r]]
  /\ at' = [at EXCEPT ![r] = "mark"]
  /\ UNCHANGED <<ownPrev, peerCur, peerPrev, step, worker, exchange, source, writer, broken,
                 disk, secured>>

(* Then it is COPYING. *)
Mark(r) ==
  /\ at[r] = "mark"
  /\ ownCur' = [ownCur EXCEPT ![r].state = "COPYING"]
  /\ at' = [at EXCEPT ![r] = "launch"]
  /\ UNCHANGED <<ownPrev, peerCur, peerPrev, step, worker, exchange, source, writer, broken,
                 disk, secured>>

(* _finalize_save flushes own_previous in the background at this step. *)
FlushIsDue(r) ==
  FlushInterval > 0 /\ step[r] % FlushInterval = 0 /\ ownPrev[r].step > 0

(***************************************************************************)
(* The rest of _do_save: save_async waits for the write before, clones     *)
(* own_previous and starts a thread that writes it; then the completion    *)
(* thread is started.                                                      *)
(***************************************************************************)
FinalizeAndLaunch(r) ==
  /\ at[r] = "launch"
  /\ FlushIsDue(r) => writer[r] = Empty
  /\ writer' = IF FlushIsDue(r) THEN [writer EXCEPT ![r] = ownPrev[r]] ELSE writer
  /\ worker' = [worker EXCEPT ![r] = "copying"]
  /\ at' = [at EXCEPT ![r] = "train"]
  /\ UNCHANGED <<memoryVars, step, exchange, source, broken, disk, secured>>

(* The disk-write thread publishes its file, unless the process is gone. *)
WriterDone(r) ==
  /\ writer[r] # Empty /\ at[r] \notin {"dead", "exited"}
  /\ disk' = [disk EXCEPT ![r][r][writer[r].step] = writer[r].data]
  /\ writer' = [writer EXCEPT ![r] = Empty]
  /\ UNCHANGED <<memoryVars, at, step, worker, exchange, source, broken, secured>>

(* Mutant: the peer slot keeps its label while it is received into. *)
WorkerDoneKeepsPeerLabel(r) ==
  /\ worker[r] = "copying" /\ at[r] # "dead"
  /\ ownCur' = [ownCur EXCEPT ![r].state = "REPLICATING", ![r].data = step[r]]
  /\ peerCur' = [peerCur EXCEPT ![r].data = Mixed]
  /\ exchange' = [exchange EXCEPT ![r] = "active"]
  /\ source' = [source EXCEPT ![r] = TRUE]
  /\ worker' = [worker EXCEPT ![r] = "none"]
  /\ UNCHANGED <<ownPrev, peerPrev, at, step, writer, broken, disk, secured>>

(***************************************************************************)
(* _complete_and_replicate: the copy is complete, the peer slot is emptied *)
(* and the exchange started; from here on its receive thread may write to  *)
(* the peer slot.                                                          *)
(***************************************************************************)
WorkerDone(r) ==
  /\ worker[r] = "copying" /\ at[r] # "dead"
  /\ ownCur' = [ownCur EXCEPT ![r].state = "REPLICATING", ![r].data = step[r]]
  /\ peerCur' = [peerCur EXCEPT ![r] = [Empty EXCEPT !.data = Mixed]]
  /\ exchange' = [exchange EXCEPT ![r] = "active"]
  /\ source' = [source EXCEPT ![r] = TRUE]
  /\ worker' = [worker EXCEPT ![r] = "none"]
  /\ UNCHANGED <<ownPrev, peerPrev, at, step, writer, broken, disk, secured>>

(***************************************************************************)
(* The completion thread ends with an exception: of the copy, or, with the *)
(* copy complete and the peer slot emptied, of the launch of the exchange. *)
(***************************************************************************)
WorkerFails(r) ==
  /\ worker[r] = "copying" /\ at[r] # "dead"
  /\ worker' = [worker EXCEPT ![r] = "failed"]
  /\ \/ UNCHANGED memoryVars
     \/ /\ ownCur' = [ownCur EXCEPT ![r].state = "READY", ![r].data = step[r]]
        /\ peerCur' = [peerCur EXCEPT ![r] = [Empty EXCEPT !.data = peerCur[r].data]]
        /\ UNCHANGED <<ownPrev, peerPrev>>
  /\ UNCHANGED <<at, step, exchange, source, writer, broken, disk, secured>>

-----------------------------------------------------------------------------
(* The peer has sent its shard of this step, or is sending it. *)
PeerSends(r) ==
  LET q == Peer[r] IN
  /\ at[q] # "dead"
  /\ step[q] > step[r] \/ (step[q] = step[r] /\ exchange[q] # "none")

(* The send and the receive thread of r end well. *)
ExchangeDone(r) ==
  /\ exchange[r] = "active" /\ at[r] \notin {"dead", "exited"}
  /\ r \notin broken
  /\ PeerSends(r)
  /\ exchange' = [exchange EXCEPT ![r] = "ok"]
  /\ peerCur' = [peerCur EXCEPT ![r].data = step[r]]
  /\ UNCHANGED <<ownCur, ownPrev, peerPrev, at, step, worker, source, writer, broken, disk,
                 secured>>

(* One of them fails: the link is broken or the peer is gone. *)
ExchangeFails(r) ==
  /\ exchange[r] = "active" /\ at[r] \notin {"dead", "exited"}
  /\ r \in broken \/ at[Peer[r]] \in {"dead", "exited"}
  /\ exchange' = [exchange EXCEPT ![r] = "bad"]
  /\ UNCHANGED <<memoryVars, at, step, worker, source, writer, broken, disk, secured>>

BreakLink(r) ==
  /\ r \notin broken
  /\ broken' = broken \cup {r, Peer[r]}
  /\ UNCHANGED <<memoryVars, at, step, worker, exchange, source, writer, disk, secured>>

-----------------------------------------------------------------------------
(***************************************************************************)
(* The rank is told to stop: SIGTERM or SIGINT between two steps of the    *)
(* main thread, or an exception (a collective with a lost rank, a failed   *)
(* completion thread) that leaves the flush to atexit.                     *)
(***************************************************************************)
Stop(r) ==
  /\ Running(r)
  /\ at' = [at EXCEPT ![r] = "flush"]
  /\ UNCHANGED <<memoryVars, step, worker, exchange, source, writer, broken, disk, secured>>

Write(files, q, slot) ==
  IF slot.state = "READY" /\ slot.step > 0
  THEN [files EXCEPT ![q][slot.step] = slot.data] ELSE files

(* Every READY slot of rank r, own and peer, goes to disk. *)
WithReadySlots(files, r) ==
  Write(Write(Write(Write(files, r, OwnFinal(r)), r, ownPrev[r]),
              Peer[r], PeerFinal(r)), Peer[r], peerPrev[r])

(***************************************************************************)
(* flush_for_restart on demand, with training to go on: the exchange is    *)
(* finalized here, and what finalize_replication returns is not kept.      *)
(***************************************************************************)
FlushForRestart(r) ==
  /\ at[r] = "train" /\ step[r] > 0
  /\ worker[r] = "none" /\ exchange[r] # "active"
  /\ disk' = [disk EXCEPT ![r] = WithReadySlots(@, r)]
  /\ ownCur' = [ownCur EXCEPT ![r] = OwnFinal(r)]
  /\ peerCur' = [peerCur EXCEPT ![r] = PeerFinal(r)]
  /\ source' = [source EXCEPT ![r] = FALSE]
  /\ UNCHANGED <<ownPrev, peerPrev, at, step, worker, exchange, writer, broken, secured>>

(* Mutant: only the slots of the current generation are written. *)
FlushCurrentSlots(r) ==
  /\ at[r] = "flush"
  /\ worker[r] # "copying"
  /\ disk' = [disk EXCEPT ![r] = Write(Write(@, r, OwnFinal(r)), Peer[r], PeerFinal(r))]
  /\ at' = [at EXCEPT ![r] = "exited"]
  /\ UNCHANGED <<memoryVars, step, worker, exchange, source, writer, broken, secured>>

(***************************************************************************)
(* _flush_slots: wait for the completion thread and, with a timeout, for   *)
(* the exchange; then write every READY slot, own and peer.  A failed      *)
(* completion thread makes the handler raise, and atexit flushes again.    *)
(***************************************************************************)
FlushSlots(r) ==
  /\ at[r] = "flush"
  /\ worker[r] # "copying"
  /\ disk' = [disk EXCEPT ![r] = WithReadySlots(@, r)]
  /\ at' = [at EXCEPT ![r] = "exited"]
  /\ UNCHANGED <<memoryVars, step, worker, exchange, source, writer, broken, secured>>

(* The node of a rank is lost, with its memory and its disk. *)
LoseNode(r) ==
  /\ at[r] # "dead"
  /\ Cardinality({q \in Ranks : at[q] = "dead"}) < MaxLosses
  /\ at' = [at EXCEPT ![r] = "dead"]
  /\ disk' = [disk EXCEPT ![r] = NoFiles]
  /\ UNCHANGED <<memoryVars, step, worker, exchange, source, writer, broken, secured>>

Save(r) == PrepareNextCapture(r) \/ StartCopy(r) \/ Label(r) \/ Mark(r) \/ FinalizeAndLaunch(r)
             \/ WorkerDone(r) \/ ExchangeDone(r) \/ WriterDone(r)

Next ==
  \E r \in Ranks :
    \/ Save(r) \/ WorkerFails(r) \/ ExchangeFails(r) \/ BreakLink(r)
    \/ FlushForRestart(r) \/ Stop(r) \/ FlushSlots(r) \/ LoseNode(r)

Spec == Init /\ [][Next]_vars

-----------------------------------------------------------------------------
Slot == [step  : Steps \cup {-1},
         state : {"EMPTY", "COPYING", "READY", "REPLICATING"},
         data  : Steps \cup {0, Mixed}]

TypeOK ==
  /\ ownCur \in [Ranks -> Slot] /\ ownPrev \in [Ranks -> Slot]
  /\ peerCur \in [Ranks -> Slot] /\ peerPrev \in [Ranks -> Slot]
  /\ at \in [Ranks -> {"train", "start", "label", "mark", "launch", "flush", "exited", "dead"}]
  /\ step \in [Ranks -> 0 .. MaxStep]
  /\ worker \in [Ranks -> {"none", "copying", "failed"}]
  /\ exchange \in [Ranks -> {"none", "active", "ok", "bad"}]
  /\ source \in [Ranks -> BOOLEAN]
  /\ writer \in [Ranks -> Slot]
  /\ broken \subseteq Ranks
  /\ disk \in [Ranks -> [Ranks -> [Steps -> Steps \cup {0, Mixed}]]]
  /\ secured \in 0 .. MaxStep

(***************************************************************************)
(* A replica kept in peer_previous is one generation with own_previous:    *)
(* both whole, of the same step, and this stays so through failed          *)
(* exchanges and through a flush on demand, after which the slots rotate   *)
(* even though the exchange failed.                                        *)
(***************************************************************************)
PreviousPairIsAligned ==
  \A r \in Ranks :
    peerPrev[r].state = "READY" =>
      /\ ownPrev[r].state = "READY"
      /\ ownPrev[r].step = peerPrev[r].step
      /\ ownPrev[r].data = ownPrev[r].step
      /\ peerPrev[r].data = peerPrev[r].step

(***************************************************************************)
(* A replica that a node flushed for its peer holds the bytes of the step  *)
(* it is labelled with, whenever the flush interrupted the save, the copy  *)
(* or the exchange.                                                        *)
(***************************************************************************)
PeerShardsAreWhole ==
  \A r \in Ranks : \A s \in Steps : disk[r][Peer[r]][s] \in {0, s}

(* The same of the shards that a node flushed for its own rank. *)
OwnShardsAreWhole ==
  \A r \in Ranks : \A s \in Steps : disk[r][r][s] \in {0, s}

(* Every rank has a whole shard of step s on a surviving node. *)
Recoverable(s) == \A q \in Ranks : \E r \in Ranks : disk[r][q][s] = s

(***************************************************************************)
(* Once every rank has been stopped or lost, a generation is left that is  *)
(* complete and no older than the last one that every rank had exchanged,  *)
(* unless a flush wrote a torn own shard (OwnShardsAreWhole).              *)
(***************************************************************************)
SecuredStepSurvives ==
  (/\ secured > 0
   /\ \A r \in Ranks : at[r] \in {"exited", "dead"}
   /\ OwnShardsAreWhole)
    => \E s \in secured .. MaxStep : Recoverable(s)
=============================================================================
