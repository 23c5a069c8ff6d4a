-------------------------- MODULE GeminiBuffersProof --------------------------
(***************************************************************************)
(* The in-memory checkpoints of GEMINI, for every set of ranks, number of  *)
(* captures and flush interval: the previous pair of slots is one whole    *)
(* generation, a flushed replica is whole, and, for a pair of ranks of     *)
(* which at most one is lost, a generation that was secured survives.      *)
(*                                                                         *)
(* What makes these inductive is what each rank knows of its current       *)
(* slots: which of them are labelled with the step of the save that is     *)
(* under way, and which bytes they hold while an exchange is active, has   *)
(* ended well or has been flushed on demand.  A rank keeps the newest      *)
(* secured pair in peer_previous and own_previous, or has put it, or a     *)
(* newer one, on its disk before it lets the slots rotate.                 *)
(*                                                                         *)
(* The last part is about the transfer of a shard to a replacement         *)
(* (CheckpointTransfer): a fetch that returns has one described content.   *)
(***************************************************************************)
EXTENDS ShardCopies, FiniteSetTheorems, TLAPS

(* The main thread is inside a save: nothing runs beside it.               *)
WhileSaving(r) ==
  /\ at[r] \in {"start", "label", "mark", "launch"} =>
       step[r] > 0 /\ worker[r] = "none" /\ ~source[r] /\ exchange[r] = "none"
  /\ at[r] \in {"label", "mark"} => ownCur[r].data # 0
  /\ at[r] \in {"mark", "launch"} => ownCur[r].step = step[r]

(* The completion thread copies the step that its slot is labelled with.   *)
WhileCopying(r) ==
  worker[r] = "copying" =>
    step[r] > 0 /\ ownCur[r].step = step[r] /\ ~source[r] /\ exchange[r] = "none"

(* While there is a source, the own slot is whole and the peer slot empty, *)
(* but for the bytes of an exchange that has ended well.                   *)
WhileReplicating(r) ==
  /\ exchange[r] = "active" => source[r]
  /\ source[r] =>
       /\ step[r] > 0 /\ exchange[r] # "none"
       /\ ownCur[r].state = "REPLICATING"
       /\ ownCur[r].step = step[r] /\ ownCur[r].data = step[r]
       /\ peerCur[r].state = "EMPTY"
       /\ exchange[r] = "ok" => peerCur[r].data = step[r]

(* A flush on demand has finalized the exchange before training goes on.   *)
Flushed(r) == at[r] = "train" /\ step[r] > 0 /\ worker[r] = "none" /\ ~source[r]

WhenFlushed(r) ==
  Flushed(r) /\ peerCur[r].state = "READY" =>
    /\ ownCur[r].state = "READY" /\ ownCur[r].step = step[r] /\ ownCur[r].data = step[r]
    /\ peerCur[r].step = step[r]

(* No slot with a label is without bytes, and a replica that is READY is   *)
(* whole.                                                                  *)
HasBytes(slot) == slot.step > 0 => slot.data # 0
Whole(slot) == slot.state = "READY" => slot.data = slot.step

SlotsInOrder(r) ==
  /\ HasBytes(ownCur[r]) /\ HasBytes(ownPrev[r]) /\ HasBytes(writer[r])
  /\ Whole(peerCur[r]) /\ Whole(peerPrev[r])

AlignedPair(r) ==
  peerPrev[r].state = "READY" =>
    /\ ownPrev[r].state = "READY"
    /\ ownPrev[r].step = peerPrev[r].step
    /\ ownPrev[r].data = ownPrev[r].step
    /\ peerPrev[r].data = peerPrev[r].step

SlotInv(r) ==
  /\ WhileSaving(r)
  /\ WhileCopying(r)
  /\ WhileReplicating(r)
  /\ WhenFlushed(r)
  /\ SlotsInOrder(r)
  /\ AlignedPair(r)

PeerShardsWhole(r) == \A s \in Steps : disk[r][Peer[r]][s] \in {0, s}

(* Both shards of generation g are on the disk of rank r.                  *)
PairOnDisk(r, g) == disk[r][r][g] # 0 /\ disk[r][Peer[r]][g] = g

PreviousIsRecent(r) == peerPrev[r].state = "READY" => peerPrev[r].step \in 1 .. step[r]

(* A rank that has exited, or has flushed on demand, has written its       *)
(* previous pair.                                                          *)
WroteItsPair(r) ==
  (at[r] = "exited" \/ Flushed(r)) /\ peerPrev[r].state = "READY" =>
    PairOnDisk(r, peerPrev[r].step)

(* The newest secured generation, or a newer one, in memory or on disk.    *)
KeepsSecured(r) ==
  secured > 0 /\ at[r] # "dead" =>
    \/ peerPrev[r].state = "READY" /\ peerPrev[r].step >= secured
    \/ \E g \in secured .. MaxStep : PairOnDisk(r, g)

DiskInv(r) ==
  /\ PeerShardsWhole(r)
  /\ PreviousIsRecent(r)
  /\ WroteItsPair(r)
  /\ KeepsSecured(r)

BuffersInv ==
  /\ TypeOK
  /\ \A r \in Ranks : SlotInv(r) /\ DiskInv(r)

-----------------------------------------------------------------------------
Files == [Ranks -> [Steps -> Steps \cup {0, Mixed}]]

(* What TypeOK says of one rank.                                           *)
LEMMA RankTypes ==
  ASSUME TypeOK, NEW r \in Ranks
  PROVE  /\ ownCur[r] \in Slot /\ ownPrev[r] \in Slot
         /\ peerCur[r] \in Slot /\ peerPrev[r] \in Slot /\ writer[r] \in Slot
         /\ step[r] \in Nat /\ step[r] <= MaxStep /\ MaxStep \in Nat
         /\ (step[r] > 0 => step[r] \in Steps)
         /\ Peer[r] \in Ranks /\ Peer[r] # r
         /\ disk[r] \in Files
         /\ Steps \subseteq Nat /\ secured \in Nat /\ secured <= MaxStep
  BY BuffersAssumption DEF TypeOK, Steps, Files

(* The changes that a save makes to a slot leave a slot.                   *)
LEMMA SlotWith ==
  ASSUME NEW slot \in Slot, NEW s \in Steps
  PROVE  /\ [slot EXCEPT !.state = "READY"] \in Slot
         /\ [slot EXCEPT !.step = s, !.state = "READY"] \in Slot
         /\ [slot EXCEPT !.step = s] \in Slot
         /\ [slot EXCEPT !.state = "READY", !.data = s] \in Slot
         /\ [slot EXCEPT !.state = "REPLICATING", !.data = s] \in Slot
         /\ [slot EXCEPT !.data = s] \in Slot
  BY DEF Slot

LEMMA SlotSpoilt ==
  ASSUME NEW slot \in Slot
  PROVE  /\ [slot EXCEPT !.data = Mixed] \in Slot
         /\ [Empty EXCEPT !.data = slot.data] \in Slot
         /\ [Empty EXCEPT !.data = Mixed] \in Slot
  BY DEF Slot, Empty

(* The slots that finalize_replication leaves are slots.                   *)
LEMMA FinalTypes ==
  ASSUME TypeOK, NEW r \in Ranks, WhileReplicating(r)
  PROVE  OwnFinal(r) \in Slot /\ PeerFinal(r) \in Slot
<1>1. ownCur[r] \in Slot /\ peerCur[r] \in Slot
  BY RankTypes
<1>2. CASE source[r]
  <2>1. step[r] \in Steps
    BY <1>2, RankTypes DEF WhileReplicating
  <2> QED BY <1>1, <2>1, SlotWith DEF OwnFinal, PeerFinal
<1>3. CASE ~source[r]
  BY <1>1, <1>3 DEF OwnFinal, PeerFinal
<1> QED BY <1>2, <1>3

(* A write of a slot changes the file of its step, if it is READY.         *)
LEMMA WriteOne ==
  ASSUME NEW files \in Files, NEW q \in Ranks, NEW slot \in Slot
  PROVE  /\ Write(files, q, slot) \in Files
         /\ \A p \in Ranks : \A s \in Steps :
              Write(files, q, slot)[p][s] =
                IF p = q /\ slot.state = "READY" /\ slot.step = s
                THEN slot.data ELSE files[p][s]
  BY BuffersAssumption DEF Files, Write, Slot, Steps, Mixed

(***************************************************************************)
(* A flush writes the READY slots of a rank, its own and those of its      *)
(* peer, and of two slots with one label the previous one last.            *)
(***************************************************************************)
LEMMA FlushWrites ==
  ASSUME TypeOK, NEW r \in Ranks, WhileReplicating(r)
  PROVE  LET written == WithReadySlots(disk[r], r)
         IN  /\ written \in Files
             /\ \A s \in Steps :
                  written[r][s] =
                    IF ownPrev[r].state = "READY" /\ ownPrev[r].step = s THEN ownPrev[r].data
                    ELSE IF OwnFinal(r).state = "READY" /\ OwnFinal(r).step = s
                    THEN OwnFinal(r).data ELSE disk[r][r][s]
             /\ \A s \in Steps :
                  written[Peer[r]][s] =
                    IF peerPrev[r].state = "READY" /\ peerPrev[r].step = s THEN peerPrev[r].data
                    ELSE IF PeerFinal(r).state = "READY" /\ PeerFinal(r).step = s
                    THEN PeerFinal(r).data ELSE disk[r][Peer[r]][s]
<1> DEFINE one == Write(disk[r], r, OwnFinal(r))
           two == Write(one, r, ownPrev[r])
           three == Write(two, Peer[r], PeerFinal(r))
           four == Write(three, Peer[r], peerPrev[r])
<1>1. /\ OwnFinal(r) \in Slot /\ PeerFinal(r) \in Slot /\ disk[r] \in Files
      /\ ownPrev[r] \in Slot /\ peerPrev[r] \in Slot /\ Peer[r] \in Ranks /\ Peer[r] # r
  BY RankTypes, FinalTypes
<1>2. one \in Files /\ \A p \in Ranks : \A s \in Steps :
        one[p][s] = IF p = r /\ OwnFinal(r).state = "READY" /\ OwnFinal(r).step = s
                    THEN OwnFinal(r).data ELSE disk[r][p][s]
  BY <1>1, WriteOne, ZenonT(60)
<1> HIDE DEF one
<1>3. two \in Files /\ \A p \in Ranks : \A s \in Steps :
        two[p][s] = IF p = r /\ ownPrev[r].state = "READY" /\ ownPrev[r].step = s
                    THEN ownPrev[r].data ELSE one[p][s]
  BY <1>1, <1>2, WriteOne, ZenonT(60)
<1> HIDE DEF two
<1>4. three \in Files /\ \A p \in Ranks : \A s \in Steps :
        three[p][s] = IF p = Peer[r] /\ PeerFinal(r).state = "READY" /\ PeerFinal(r).step = s
                      THEN PeerFinal(r).data ELSE two[p][s]
  BY <1>1, <1>3, WriteOne, ZenonT(60)
<1> HIDE DEF three
<1>5. four \in Files /\ \A p \in Ranks : \A s \in Steps :
        four[p][s] = IF p = Peer[r] /\ peerPrev[r].state = "READY" /\ peerPrev[r].step = s
                     THEN peerPrev[r].data ELSE three[p][s]
  BY <1>1, <1>4, WriteOne, ZenonT(60)
<1>6. WithReadySlots(disk[r], r) = four
  BY DEF WithReadySlots, one, two, three
<1> HIDE DEF four
<1> QED BY <1>1, <1>2, <1>3, <1>4, <1>5, <1>6

-----------------------------------------------------------------------------
(* Every step keeps the types.                                             *)
LEMMA TypeStep == BuffersInv /\ [Next]_vars => TypeOK'
<1> SUFFICES ASSUME BuffersInv, [Next]_vars PROVE TypeOK'
  OBVIOUS
<1>1. TypeOK /\ \A r \in Ranks : WhileReplicating(r)
  BY DEF BuffersInv, SlotInv
<1> USE DEF memoryVars
<1>2. ASSUME NEW r \in Ranks, PrepareNextCapture(r) PROVE TypeOK'
  <2>1. OwnFinal(r) \in Slot /\ PeerFinal(r) \in Slot
    BY <1>1, FinalTypes
  <2>2. SecuredAfter(r) \in 0 .. MaxStep
    BY <1>1, RankTypes DEF SecuredAfter
  <2>3. /\ ownCur' \in [Ranks -> Slot] /\ ownPrev' \in [Ranks -> Slot]
        /\ peerCur' \in [Ranks -> Slot] /\ peerPrev' \in [Ranks -> Slot]
    <3>1. /\ [Empty EXCEPT !.data = ownCur[r].data] \in Slot
          /\ [Empty EXCEPT !.data = peerCur[r].data] \in Slot
      BY <1>1, RankTypes, SlotSpoilt
    <3>2. /\ ownCur \in [Ranks -> Slot] /\ ownPrev \in [Ranks -> Slot]
          /\ peerCur \in [Ranks -> Slot] /\ peerPrev \in [Ranks -> Slot]
      BY <1>1 DEF TypeOK
    <3>3. CASE UNCHANGED memoryVars
      BY <3>2, <3>3
    <3>4. CASE /\ ownPrev'  = [ownPrev EXCEPT ![r] = OwnFinal(r)]
               /\ ownCur'   = [ownCur EXCEPT ![r] = ownPrev[r]]
               /\ peerPrev' = [peerPrev EXCEPT ![r] = PeerFinal(r)]
               /\ peerCur'  = [peerCur EXCEPT ![r] = peerPrev[r]]
      BY <2>1, <3>2, <3>4
    <3>5. CASE /\ ownCur'  = [ownCur EXCEPT ![r] = [Empty EXCEPT !.data = ownCur[r].data]]
               /\ peerCur' = [peerCur EXCEPT ![r] = [Empty EXCEPT !.data = peerCur[r].data]]
               /\ UNCHANGED <<ownPrev, peerPrev>>
      BY <3>1, <3>2, <3>5
    <3> QED BY <1>2, <3>3, <3>4, <3>5 DEF PrepareNextCapture
  <2>4. step' \in [Ranks -> 0 .. MaxStep]
    BY <1>1, <1>2, RankTypes DEF PrepareNextCapture, TypeOK
  <2> QED BY <1>1, <1>2, <2>2, <2>3, <2>4 DEF PrepareNextCapture, TypeOK
<1>3. ASSUME NEW r \in Ranks, StartCopy(r) PROVE TypeOK'
  <2>1. ownCur' \in [Ranks -> Slot]
    BY <1>1, <1>3, SlotSpoilt DEF StartCopy, TypeOK
  <2> QED BY <1>1, <1>3, <2>1 DEF StartCopy, TypeOK
<1>4. ASSUME NEW r \in Ranks, Label(r) PROVE TypeOK'
  <2>1. step[r] \in Steps
    BY <1>4, RankTypes DEF BuffersInv, SlotInv, WhileSaving, Label
  <2>2. ownCur' \in [Ranks -> Slot]
    <3>1. ownCur' = [ownCur EXCEPT ![r] = [ownCur[r] EXCEPT !.step = step[r]]]
      BY <1>1, <1>4 DEF Label, TypeOK
    <3> QED BY <1>1, <2>1, <3>1, SlotWith DEF TypeOK
  <2> QED BY <1>1, <1>4, <2>2 DEF Label, TypeOK
<1>4a. ASSUME NEW r \in Ranks, Mark(r) PROVE TypeOK'
  <2>1. ownCur' \in [Ranks -> Slot]
    <3>1. ownCur' = [ownCur EXCEPT ![r] = [ownCur[r] EXCEPT !.state = "COPYING"]]
      BY <1>1, <1>4a DEF Mark, TypeOK
    <3>2. [ownCur[r] EXCEPT !.state = "COPYING"] \in Slot
      BY <1>1, RankTypes DEF Slot
    <3> QED BY <1>1, <3>1, <3>2 DEF TypeOK
  <2> QED BY <1>1, <1>4a, <2>1 DEF Mark, TypeOK
<1>5. ASSUME NEW r \in Ranks, FinalizeAndLaunch(r) PROVE TypeOK'
  BY <1>1, <1>5 DEF FinalizeAndLaunch, TypeOK
<1>6. ASSUME NEW r \in Ranks, WriterDone(r) PROVE TypeOK'
  <2>1. writer[r] \in Slot /\ Empty \in Slot /\ disk[r] \in Files
    BY <1>1, RankTypes DEF Empty, Slot
  <2>2. [disk[r] EXCEPT ![r][writer[r].step] = writer[r].data] \in Files
    BY <2>1 DEF Files, Slot
  <2> QED BY <1>1, <1>6, <2>1, <2>2 DEF WriterDone, TypeOK, Files
<1>7. ASSUME NEW r \in Ranks, WorkerDone(r) \/ WorkerFails(r) PROVE TypeOK'
  <2>1. step[r] \in Steps
    BY <1>7, RankTypes DEF BuffersInv, SlotInv, WhileCopying, WorkerDone, WorkerFails
  <2>2. /\ [ownCur[r] EXCEPT !.state = "REPLICATING", !.data = step[r]] \in Slot
        /\ [ownCur[r] EXCEPT !.state = "READY", !.data = step[r]] \in Slot
        /\ [Empty EXCEPT !.data = Mixed] \in Slot
        /\ [Empty EXCEPT !.data = peerCur[r].data] \in Slot
    BY <1>1, <2>1, RankTypes, SlotWith, SlotSpoilt
  <2>3. ownCur' \in [Ranks -> Slot] /\ peerCur' \in [Ranks -> Slot]
    <3>1. \/ UNCHANGED <<ownCur, peerCur>>
          \/ /\ ownCur' = [ownCur EXCEPT ![r] = [ownCur[r] EXCEPT !.state = "REPLICATING",
                                                                 !.data = step[r]]]
             /\ peerCur' = [peerCur EXCEPT ![r] = [Empty EXCEPT !.data = Mixed]]
          \/ /\ ownCur' = [ownCur EXCEPT ![r] = [ownCur[r] EXCEPT !.state = "READY",
                                                                 !.data = step[r]]]
             /\ peerCur' = [peerCur EXCEPT ![r] = [Empty EXCEPT !.data = peerCur[r].data]]
      BY <1>1, <1>7 DEF WorkerDone, WorkerFails, TypeOK
    <3>2. ownCur \in [Ranks -> Slot] /\ peerCur \in [Ranks -> Slot]
      BY <1>1 DEF TypeOK
    <3>3. CASE UNCHANGED <<ownCur, peerCur>>
      BY <3>2, <3>3
    <3>4. CASE ~UNCHANGED <<ownCur, peerCur>>
      BY <2>2, <3>1, <3>2, <3>4
    <3> QED BY <3>3, <3>4
  <2>4. CASE WorkerDone(r)
    BY <1>1, <2>3, <2>4 DEF WorkerDone, TypeOK
  <2>5. CASE WorkerFails(r)
    BY <1>1, <2>3, <2>5 DEF WorkerFails, TypeOK
  <2> QED BY <1>7, <2>4, <2>5
<1>8. ASSUME NEW r \in Ranks, ExchangeDone(r) PROVE TypeOK'
  <2>1. step[r] \in Steps
    BY <1>1, <1>8, RankTypes DEF ExchangeDone, WhileReplicating
  <2>2. peerCur' \in [Ranks -> Slot]
    BY <1>1, <1>8, <2>1, SlotWith DEF ExchangeDone, TypeOK
  <2> QED BY <1>1, <1>8, <2>2 DEF ExchangeDone, TypeOK
<1>9. ASSUME NEW r \in Ranks, ExchangeFails(r) \/ BreakLink(r) \/ Stop(r) PROVE TypeOK'
  <2>1. CASE ExchangeFails(r)
    BY <1>1, <2>1 DEF ExchangeFails, TypeOK
  <2>2. CASE BreakLink(r)
    BY <1>1, <2>2, RankTypes DEF BreakLink, TypeOK
  <2>3. CASE Stop(r)
    BY <1>1, <2>3 DEF Stop, TypeOK
  <2> QED BY <1>9, <2>1, <2>2, <2>3
<1>10. ASSUME NEW r \in Ranks, FlushForRestart(r) \/ FlushSlots(r) PROVE TypeOK'
  <2>1. OwnFinal(r) \in Slot /\ PeerFinal(r) \in Slot
    BY <1>1, FinalTypes
  <2>2. disk' = [disk EXCEPT ![r] = WithReadySlots(disk[r], r)]
    BY <1>10 DEF FlushForRestart, FlushSlots
  <2>3. disk' \in [Ranks -> Files]
    BY <1>1, <2>2, FlushWrites DEF TypeOK, Files
  <2>4. CASE FlushForRestart(r)
    BY <1>1, <2>1, <2>3, <2>4 DEF FlushForRestart, TypeOK, Files
  <2>5. CASE FlushSlots(r)
    BY <1>1, <2>3, <2>5 DEF FlushSlots, TypeOK, Files
  <2> QED BY <1>10, <2>4, <2>5
<1>11. ASSUME NEW r \in Ranks, LoseNode(r) PROVE TypeOK'
  <2>1. NoFiles \in Files
    BY DEF NoFiles, Files
  <2> QED BY <1>1, <1>11, <2>1 DEF LoseNode, TypeOK, Files
<1>12. CASE UNCHANGED vars
  BY <1>1, <1>12 DEF vars, TypeOK
<1> QED
  BY <1>2, <1>3, <1>4, <1>4a, <1>5, <1>6, <1>7, <1>8, <1>9, <1>10, <1>11, <1>12 DEF Next, Save

-----------------------------------------------------------------------------
(* A step of another rank leaves rank q as it is.                          *)
Kept(q) ==
  /\ ownCur'[q] = ownCur[q] /\ ownPrev'[q] = ownPrev[q]
  /\ peerCur'[q] = peerCur[q] /\ peerPrev'[q] = peerPrev[q]
  /\ at'[q] = at[q] /\ step'[q] = step[q] /\ worker'[q] = worker[q]
  /\ exchange'[q] = exchange[q] /\ source'[q] = source[q]
  /\ writer'[q] = writer[q] /\ disk'[q] = disk[q]

OthersKept(r) == \A q \in Ranks \ {r} : Kept(q)

LEMMA SlotsAtRest ==
  ASSUME NEW q \in Ranks, SlotInv(q), Kept(q)
  PROVE  SlotInv(q)'
  BY DEF SlotInv, Kept, WhileSaving, WhileCopying, WhileReplicating, Flushed, WhenFlushed,
         SlotsInOrder, AlignedPair, HasBytes, Whole

LEMMA DiskAtRest ==
  ASSUME NEW q \in Ranks, DiskInv(q), Kept(q), secured' = secured
  PROVE  DiskInv(q)'
  BY DEF DiskInv, Kept, PeerShardsWhole, PreviousIsRecent, Flushed, WroteItsPair,
         KeepsSecured, PairOnDisk

(* A step of rank r that secures nothing and keeps what concerns it.       *)
LEMMA RankMoves ==
  ASSUME BuffersInv, TypeOK', NEW r \in Ranks, OthersKept(r), secured' = secured,
         SlotInv(r)', DiskInv(r)'
  PROVE  BuffersInv'
  BY SlotsAtRest, DiskAtRest DEF BuffersInv, OthersKept

(* A step that touches neither the previous slots nor the disk.            *)
LEMMA DiskKept ==
  ASSUME NEW r \in Ranks, DiskInv(r), secured' = secured, disk'[r] = disk[r],
         peerPrev'[r] = peerPrev[r], step'[r] = step[r],
         at'[r] # "dead" => at[r] # "dead",
         at'[r] = "exited" => at[r] = "exited",
         Flushed(r)' => Flushed(r)
  PROVE  DiskInv(r)'
  BY DEF DiskInv, PeerShardsWhole, PreviousIsRecent, WroteItsPair, KeepsSecured, PairOnDisk

(***************************************************************************)
(* The steps of a save after the slots are prepared: the copy, the label,  *)
(* the threads and the exchange, and what interrupts them.                 *)
(***************************************************************************)
LEMMA SaveStep ==
  ASSUME BuffersInv, TypeOK', NEW r \in Ranks,
         \/ StartCopy(r) \/ Label(r) \/ Mark(r) \/ WorkerDone(r) \/ WorkerFails(r)
         \/ ExchangeDone(r) \/ ExchangeFails(r) \/ BreakLink(r) \/ Stop(r)
  PROVE  BuffersInv'
<1>1. TypeOK /\ SlotInv(r) /\ DiskInv(r) /\ secured' = secured
  BY DEF BuffersInv, StartCopy, Label, Mark, WorkerDone, WorkerFails, ExchangeDone, ExchangeFails,
         BreakLink, Stop
<1>2. OthersKept(r)
  BY <1>1
     DEF OthersKept, Kept, TypeOK, memoryVars, StartCopy, Label, Mark, WorkerDone, WorkerFails,
         ExchangeDone, ExchangeFails, BreakLink, Stop
<1>3. UNCHANGED <<ownPrev, peerPrev, writer, disk, step>>
  BY DEF memoryVars, StartCopy, Label, Mark, WorkerDone, WorkerFails, ExchangeDone,
         ExchangeFails, BreakLink, Stop
<1> USE DEF memoryVars, SlotInv, WhileSaving, WhileCopying, WhileReplicating, Flushed,
            WhenFlushed, SlotsInOrder, AlignedPair, HasBytes, Whole
<1>4. SlotInv(r)' /\ (Flushed(r)' => Flushed(r))
  <2>0. step[r] \in Nat /\ ownCur[r] \in Slot /\ peerCur[r] \in Slot
    BY <1>1, RankTypes
  <2>1. CASE StartCopy(r)
    <3>1. /\ ownCur'[r] = [ownCur[r] EXCEPT !.data = Mixed]
          /\ at'[r] = "label" /\ at[r] = "start"
          /\ UNCHANGED <<peerCur, worker, source, exchange>>
      BY <1>1, <2>1 DEF StartCopy, TypeOK
    <3>2. ownCur'[r].data # 0
      BY <2>0, <3>1 DEF Slot, Mixed
    <3> QED BY <1>1, <1>3, <3>1, <3>2
  <2>2. CASE Label(r)
    <3>1. /\ ownCur'[r] = [ownCur[r] EXCEPT !.step = step[r]]
          /\ at'[r] = "mark" /\ at[r] = "label"
          /\ UNCHANGED <<peerCur, worker, source, exchange>>
      BY <1>1, <2>2 DEF Label, TypeOK
    <3>2. ownCur'[r].step = step[r] /\ ownCur'[r].data = ownCur[r].data
      BY <2>0, <3>1 DEF Slot
    <3>3. HasBytes(ownCur[r])'
      BY <1>1, <3>1, <3>2
    <3> QED BY <1>1, <1>3, <3>1, <3>2, <3>3
  <2>2a. CASE Mark(r)
    <3>1. /\ ownCur'[r] = [ownCur[r] EXCEPT !.state = "COPYING"]
          /\ at'[r] = "launch" /\ at[r] = "mark"
          /\ UNCHANGED <<peerCur, worker, source, exchange>>
      BY <1>1, <2>2a DEF Mark, TypeOK
    <3>2. ownCur'[r].step = ownCur[r].step /\ ownCur'[r].data = ownCur[r].data
      BY <2>0, <3>1 DEF Slot
    <3> QED BY <1>1, <1>3, <3>1, <3>2
  <2>3. CASE WorkerDone(r)
    <3>1. /\ ownCur'[r] = [ownCur[r] EXCEPT !.state = "REPLICATING", !.data = step[r]]
          /\ peerCur'[r] = [Empty EXCEPT !.data = Mixed]
          /\ exchange'[r] = "active" /\ source'[r] /\ worker'[r] = "none"
          /\ at'[r] = at[r]
      BY <1>1, <2>3 DEF WorkerDone, TypeOK
    <3>2. worker[r] = "copying" /\ step[r] > 0 /\ ownCur[r].step = step[r]
      BY <1>1, <2>3 DEF WorkerDone
    <3>3. /\ ownCur'[r].step = step[r] /\ ownCur'[r].data = step[r]
          /\ ownCur'[r].state = "REPLICATING" /\ peerCur'[r].state = "EMPTY"
      BY <2>0, <3>1, <3>2 DEF Slot, Empty
    <3> QED BY <1>1, <1>3, <2>0, <3>1, <3>2, <3>3, SMTT(30)
  <2>4. CASE WorkerFails(r)
    <3>1. /\ worker'[r] = "failed" /\ UNCHANGED <<at, exchange, source>>
          /\ \/ ownCur'[r] = ownCur[r] /\ peerCur'[r] = peerCur[r]
             \/ /\ ownCur'[r] = [ownCur[r] EXCEPT !.state = "READY", !.data = step[r]]
                /\ peerCur'[r] = [Empty EXCEPT !.data = peerCur[r].data]
      BY <1>1, <2>4, ZenonT(30) DEF WorkerFails, TypeOK
    <3>2. worker[r] = "copying" /\ step[r] > 0 /\ ~source[r] /\ exchange[r] = "none"
      BY <1>1, <2>4 DEF WorkerFails
    <3>3. /\ ownCur'[r].step = ownCur[r].step
          /\ ownCur'[r].data = ownCur[r].data \/ ownCur'[r].data = step[r]
          /\ peerCur'[r] = peerCur[r] \/ peerCur'[r].state = "EMPTY"
      BY <2>0, <3>1 DEF Slot, Empty
    <3>4. HasBytes(ownCur[r])' /\ Whole(peerCur[r])'
      BY <1>1, <2>0, <3>2, <3>3
    <3> QED BY <1>1, <1>3, <3>1, <3>2, <3>4
  <2>5. CASE ExchangeDone(r)
    <3>1. /\ peerCur'[r] = [peerCur[r] EXCEPT !.data = step[r]] /\ exchange'[r] = "ok"
          /\ UNCHANGED <<ownCur, at, worker, source>> /\ exchange[r] = "active"
      BY <1>1, <2>5 DEF ExchangeDone, TypeOK
    <3> QED BY <1>1, <1>3, <2>0, <3>1 DEF Slot
  <2>6. CASE ExchangeFails(r)
    <3>1. /\ exchange'[r] = "bad" /\ exchange[r] = "active"
          /\ UNCHANGED <<ownCur, peerCur, at, worker, source>>
      BY <1>1, <2>6 DEF ExchangeFails, TypeOK
    <3> QED BY <1>1, <1>3, <3>1
  <2>7. CASE BreakLink(r)
    BY <1>1, <1>3, <2>7 DEF BreakLink
  <2>8. CASE Stop(r)
    <3>1. at'[r] = "flush" /\ UNCHANGED <<ownCur, peerCur, worker, source, exchange>>
      BY <1>1, <2>8 DEF Stop, TypeOK
    <3> QED BY <1>1, <1>3, <3>1
  <2> QED BY <2>1, <2>2, <2>2a, <2>3, <2>4, <2>5, <2>6, <2>7, <2>8
<1>5. /\ at'[r] # "dead" => at[r] # "dead"
      /\ at'[r] = "exited" => at[r] = "exited"
  BY <1>1
     DEF TypeOK, StartCopy, Label, Mark, WorkerDone, WorkerFails, ExchangeDone, ExchangeFails,
         BreakLink, Stop, Running
<1>6. DiskInv(r)'
  BY <1>1, <1>3, <1>4, <1>5, DiskKept
<1> QED BY <1>1, <1>2, <1>4, <1>6, RankMoves

(* The save has started its threads; a clone may be on its way to disk.    *)
LEMMA LaunchStep ==
  ASSUME BuffersInv, TypeOK', NEW r \in Ranks, FinalizeAndLaunch(r)
  PROVE  BuffersInv'
<1>1. TypeOK /\ SlotInv(r) /\ DiskInv(r) /\ secured' = secured
  BY DEF BuffersInv, FinalizeAndLaunch
<1>2. OthersKept(r)
  BY <1>1 DEF OthersKept, Kept, TypeOK, memoryVars, FinalizeAndLaunch
<1>3. /\ UNCHANGED <<ownCur, ownPrev, peerCur, peerPrev, step, exchange, source, disk>>
      /\ at[r] = "launch" /\ at'[r] = "train" /\ worker'[r] = "copying"
      /\ writer'[r] = writer[r] \/ writer'[r] = ownPrev[r]
  BY <1>1 DEF TypeOK, memoryVars, FinalizeAndLaunch
<1>4. SlotInv(r)'
  BY <1>1, <1>3
     DEF SlotInv, WhileSaving, WhileCopying, WhileReplicating, Flushed, WhenFlushed,
         SlotsInOrder, AlignedPair, HasBytes, Whole
<1>5. DiskInv(r)'
  BY <1>1, <1>3, DiskKept DEF Flushed
<1> QED BY <1>1, <1>2, <1>4, <1>5, RankMoves

(* The clone has bytes, and only an own shard is overwritten by it.        *)
LEMMA WriterStep ==
  ASSUME BuffersInv, TypeOK', NEW r \in Ranks, WriterDone(r)
  PROVE  BuffersInv'
<1>1. TypeOK /\ SlotInv(r) /\ DiskInv(r) /\ secured' = secured
  BY DEF BuffersInv, WriterDone
<1>2. OthersKept(r)
  BY <1>1 DEF OthersKept, Kept, TypeOK, memoryVars, WriterDone
<1>3. /\ UNCHANGED <<ownCur, ownPrev, peerCur, peerPrev, at, step, worker, exchange, source>>
      /\ writer'[r] = Empty
      /\ disk'[r] = [disk[r] EXCEPT ![r][writer[r].step] = writer[r].data]
  BY <1>1 DEF TypeOK, memoryVars, WriterDone
<1>4. SlotInv(r)'
  BY <1>1, <1>3
     DEF SlotInv, WhileSaving, WhileCopying, WhileReplicating, Flushed, WhenFlushed,
         SlotsInOrder, AlignedPair, HasBytes, Whole, Empty
<1>5. \A s \in Steps :
        /\ disk'[r][Peer[r]][s] = disk[r][Peer[r]][s]
        /\ disk[r][r][s] # 0 => disk'[r][r][s] # 0
  <2>1. /\ disk[r] \in Files /\ writer[r] \in Slot /\ Peer[r] \in Ranks /\ Peer[r] # r
        /\ Steps = 1 .. MaxStep /\ MaxStep \in Nat
    BY <1>1, RankTypes DEF Steps
  <2>2. writer[r].step \in Steps => writer[r].data # 0
    BY <1>1, <2>1 DEF SlotInv, SlotsInOrder, HasBytes
  <2> QED BY <1>3, <2>1, <2>2 DEF Files
<1>6. DiskInv(r)'
  <2>1. ASSUME NEW g \in Steps, PairOnDisk(r, g) PROVE PairOnDisk(r, g)'
    <3>1. disk[r][r][g] # 0 /\ disk[r][Peer[r]][g] = g
      BY <2>1 DEF PairOnDisk
    <3>2. disk'[r][r][g] # 0 /\ disk'[r][Peer[r]][g] = g
      BY <1>5, <2>1, <3>1
    <3> QED BY <3>2 DEF PairOnDisk
  <2>2. peerPrev[r].state = "READY" => peerPrev[r].step \in Steps
    BY <1>1, RankTypes DEF DiskInv, PreviousIsRecent, Steps
  <2>3. secured > 0 => secured .. MaxStep \subseteq Steps
    BY <1>1, RankTypes DEF Steps
  <2>4. PeerShardsWhole(r)' /\ PreviousIsRecent(r)'
    BY <1>1, <1>3, <1>5 DEF DiskInv, PeerShardsWhole, PreviousIsRecent
  <2>5. WroteItsPair(r)'
    BY <1>1, <1>3, <2>1, <2>2 DEF DiskInv, WroteItsPair, Flushed, PairOnDisk
  <2>6. KeepsSecured(r)'
    BY <1>1, <1>3, <2>1, <2>3 DEF DiskInv, KeepsSecured
  <2> QED BY <2>4, <2>5, <2>6 DEF DiskInv
<1> QED BY <1>1, <1>2, <1>4, <1>6, RankMoves

(***************************************************************************)
(* What a flush leaves on the disk of a rank: its previous pair, and every *)
(* pair that was there before.                                             *)
(***************************************************************************)
LEMMA FlushKeepsPairs ==
  ASSUME TypeOK, NEW r \in Ranks, SlotInv(r), DiskInv(r),
         disk'[r] = WithReadySlots(disk[r], r)
  PROVE  /\ PeerShardsWhole(r)'
         /\ \A g \in Steps : PairOnDisk(r, g) => PairOnDisk(r, g)'
         /\ \A g \in Nat :
              peerPrev[r].state = "READY" /\ peerPrev[r].step = g =>
                g \in Steps /\ PairOnDisk(r, g)'
<1>1. /\ step[r] \in Nat /\ step[r] <= MaxStep /\ Steps = 1 .. MaxStep /\ MaxStep \in Nat
      /\ ownCur[r] \in Slot /\ peerCur[r] \in Slot
  BY RankTypes DEF Steps
<1>2. WhileReplicating(r) /\ SlotsInOrder(r) /\ AlignedPair(r)
  BY DEF SlotInv
<1>3. PeerFinal(r).state = "READY" => PeerFinal(r).data = PeerFinal(r).step
  BY <1>1, <1>2 DEF PeerFinal, WhileReplicating, SlotsInOrder, Whole, Slot
<1>4. OwnFinal(r).step = ownCur[r].step /\ OwnFinal(r).data = ownCur[r].data
  BY <1>1 DEF OwnFinal, Slot
<1>5. OwnFinal(r).step > 0 => OwnFinal(r).data # 0
  BY <1>2, <1>4 DEF SlotsInOrder, HasBytes
<1>6. PeerShardsWhole(r)'
  BY <1>2, <1>3, FlushWrites DEF DiskInv, PeerShardsWhole, SlotsInOrder, Whole
<1>7. ASSUME NEW g \in Steps, PairOnDisk(r, g) PROVE PairOnDisk(r, g)'
  <2>1. disk'[r][r][g] # 0
    BY <1>1, <1>2, <1>5, <1>7, FlushWrites DEF PairOnDisk, SlotsInOrder, HasBytes
  <2>2. disk'[r][Peer[r]][g] = g
    BY <1>2, <1>3, <1>7, FlushWrites DEF PairOnDisk, SlotsInOrder, Whole
  <2> QED BY <2>1, <2>2 DEF PairOnDisk
<1>8. ASSUME NEW g \in Nat, peerPrev[r].state = "READY", peerPrev[r].step = g
      PROVE  g \in Steps /\ PairOnDisk(r, g)'
  <2>1. g \in Steps /\ g > 0
    BY <1>1, <1>8 DEF DiskInv, PreviousIsRecent
  <2>2. /\ ownPrev[r].state = "READY" /\ ownPrev[r].step = g
        /\ ownPrev[r].data = g /\ peerPrev[r].data = g
    BY <1>2, <1>8 DEF AlignedPair
  <2>3. disk'[r][r][g] = g /\ disk'[r][Peer[r]][g] = g
    BY <1>2, <1>8, <2>1, <2>2, FlushWrites
  <2> QED BY <2>1, <2>3 DEF PairOnDisk
<1> QED BY <1>6, <1>7, <1>8

(***************************************************************************)
(* The slots that finalize_replication leaves before they rotate: a        *)
(* replica that is READY is of the step of the save, and the own slot with *)
(* it; an exchange that failed leaves none.                                *)
(***************************************************************************)
LEMMA FinalPair ==
  ASSUME TypeOK, NEW r \in Ranks, SlotInv(r), at[r] = "train", step[r] > 0, worker[r] = "none"
  PROVE  /\ PeerFinal(r).state = "READY" =>
              /\ PeerFinal(r).step = step[r] /\ PeerFinal(r).data = step[r]
              /\ OwnFinal(r).state = "READY"
              /\ OwnFinal(r).step = step[r] /\ OwnFinal(r).data = step[r]
         /\ source[r] => (PeerFinal(r).state = "READY" <=> exchange[r] = "ok")
         /\ HasBytes(OwnFinal(r))
<1>1. ownCur[r] \in Slot /\ peerCur[r] \in Slot /\ step[r] \in Nat
  BY RankTypes
<1>2. WhileReplicating(r) /\ WhenFlushed(r) /\ SlotsInOrder(r)
  BY DEF SlotInv
<1>3. CASE source[r]
  <2>1. /\ OwnFinal(r).state = "READY" /\ OwnFinal(r).step = step[r]
        /\ OwnFinal(r).data = step[r]
    BY <1>1, <1>2, <1>3 DEF OwnFinal, WhileReplicating, Slot
  <2>2. CASE exchange[r] = "ok"
    <3>1. PeerFinal(r) = [peerCur[r] EXCEPT !.step = step[r], !.state = "READY"]
      BY <1>3, <2>2 DEF PeerFinal
    <3>2. peerCur[r].data = step[r]
      BY <1>2, <1>3, <2>2 DEF WhileReplicating
    <3>3. /\ PeerFinal(r).state = "READY" /\ PeerFinal(r).step = step[r]
          /\ PeerFinal(r).data = step[r]
      BY <1>1, <3>1, <3>2 DEF Slot
    <3> QED BY <1>1, <2>1, <2>2, <3>3 DEF HasBytes
  <2>3. CASE exchange[r] # "ok"
    BY <1>1, <1>2, <1>3, <2>1, <2>3 DEF PeerFinal, WhileReplicating, HasBytes
  <2> QED BY <2>2, <2>3
<1>4. CASE ~source[r]
  <2>1. PeerFinal(r) = peerCur[r] /\ OwnFinal(r) = ownCur[r]
    BY <1>4 DEF PeerFinal, OwnFinal
  <2>2. peerCur[r].state = "READY" => peerCur[r].data = step[r]
    BY <1>2, <1>4 DEF WhenFlushed, Flushed, SlotsInOrder, Whole
  <2> QED BY <1>2, <1>4, <2>1, <2>2 DEF WhenFlushed, Flushed, SlotsInOrder
<1> QED BY <1>3, <1>4

(* What a new secured step says, and that nothing else is secured.         *)
LEMMA SecuredBy ==
  ASSUME TypeOK, NEW r \in Ranks, SlotInv(r), SecuredAfter(r) # secured
  PROVE  /\ SecuredAfter(r) = step[r] /\ step[r] > 0 /\ Received(r)
         /\ PeerFinal(r).state = "READY" /\ PeerFinal(r).step = step[r]
         /\ \A q \in Ranks \ {r} : peerPrev[q].state = "READY" /\ peerPrev[q].step = step[r]
<1>1. /\ SecuredAfter(r) = step[r] /\ Received(r)
      /\ PeerFinal(r).state = "READY" /\ PeerFinal(r).step = step[r]
      /\ \A q \in Ranks \ {r} : peerPrev[q].state = "READY" /\ peerPrev[q].step = step[r]
  BY DEF SecuredAfter
<1>2. PeerFinal(r) \in Slot
  BY FinalTypes DEF SlotInv
<1>3. step[r] > 0
  BY <1>1, <1>2, RankTypes DEF Slot, Steps
<1> QED BY <1>1, <1>3

(***************************************************************************)
(* The slots rotate, or are dropped after a failed exchange, and the last  *)
(* rank to rotate secures the step that all of them have exchanged.        *)
(***************************************************************************)
LEMMA PrepareStep ==
  ASSUME BuffersInv, TypeOK', NEW r \in Ranks, PrepareNextCapture(r)
  PROVE  BuffersInv'
<1>1. TypeOK /\ SlotInv(r) /\ DiskInv(r)
  BY DEF BuffersInv
<1>2. OthersKept(r) /\ secured' = SecuredAfter(r)
  BY <1>1 DEF OthersKept, Kept, TypeOK, memoryVars, PrepareNextCapture
<1>3. /\ at[r] = "train" /\ worker[r] = "none"
      /\ at'[r] = "start" /\ worker'[r] = "none" /\ ~source'[r] /\ exchange'[r] = "none"
      /\ step'[r] = step[r] + 1 /\ step[r] \in Nat
      /\ disk'[r] = disk[r] /\ writer'[r] = writer[r]
  BY <1>1, RankTypes DEF PrepareNextCapture, TypeOK
<1>4. ownCur[r] \in Slot /\ peerCur[r] \in Slot /\ ownPrev[r] \in Slot /\ peerPrev[r] \in Slot
  BY <1>1, RankTypes
<1>5. \/ /\ step[r] = 0
         /\ ownCur'[r] = ownCur[r] /\ ownPrev'[r] = ownPrev[r]
         /\ peerCur'[r] = peerCur[r] /\ peerPrev'[r] = peerPrev[r]
      \/ /\ step[r] > 0 /\ Received(r)
         /\ ownCur'[r] = ownPrev[r] /\ ownPrev'[r] = OwnFinal(r)
         /\ peerCur'[r] = peerPrev[r] /\ peerPrev'[r] = PeerFinal(r)
      \/ /\ step[r] > 0 /\ ~Received(r)
         /\ ownCur'[r].step = -1 /\ ownPrev'[r] = ownPrev[r]
         /\ peerCur'[r].state = "EMPTY" /\ peerPrev'[r] = peerPrev[r]
  BY <1>1 DEF PrepareNextCapture, TypeOK, memoryVars, Empty
<1>6. SlotInv(r)'
  <2>1. WhileSaving(r)' /\ WhileCopying(r)' /\ WhileReplicating(r)' /\ WhenFlushed(r)'
    BY <1>3 DEF WhileSaving, WhileCopying, WhileReplicating, WhenFlushed, Flushed
  <2>2. SlotsInOrder(r) /\ AlignedPair(r)
    BY <1>1 DEF SlotInv
  <2>3. CASE step[r] = 0 \/ ~Received(r)
    BY <1>3, <1>5, <2>1, <2>2, <2>3 DEF SlotInv, SlotsInOrder, AlignedPair, HasBytes, Whole
  <2>4. CASE step[r] > 0 /\ Received(r)
    <3>1. /\ ownCur'[r] = ownPrev[r] /\ ownPrev'[r] = OwnFinal(r)
          /\ peerCur'[r] = peerPrev[r] /\ peerPrev'[r] = PeerFinal(r)
      BY <1>5, <2>4
    <3> QED BY <1>1, <1>3, <2>1, <2>2, <2>4, <3>1, FinalPair
            DEF SlotInv, SlotsInOrder, AlignedPair, HasBytes, Whole
  <2> QED BY <1>3, <2>3, <2>4
<1>7. DiskInv(r)'
  <2>1. PeerShardsWhole(r)' /\ WroteItsPair(r)'
    BY <1>1, <1>3 DEF DiskInv, PeerShardsWhole, WroteItsPair, Flushed
  <2>2. PreviousIsRecent(r)'
    BY <1>1, <1>3, <1>4, <1>5, FinalPair DEF DiskInv, PreviousIsRecent
  <2>3. KeepsSecured(r)'
    <3>1. CASE SecuredAfter(r) # secured
      <4>1. /\ secured' = step[r] /\ step[r] > 0 /\ Received(r)
            /\ PeerFinal(r).state = "READY" /\ PeerFinal(r).step = step[r]
        BY <1>1, <1>2, <3>1, SecuredBy
      <4>2. peerPrev'[r] = PeerFinal(r)
        BY <1>5, <4>1
      <4> QED BY <1>3, <4>1, <4>2 DEF KeepsSecured
    <3>2. CASE SecuredAfter(r) = secured
      <4> SUFFICES ASSUME secured > 0
                   PROVE  \/ peerPrev'[r].state = "READY" /\ peerPrev'[r].step >= secured
                          \/ \E g \in secured .. MaxStep : PairOnDisk(r, g)
        BY <1>2, <1>3, <3>2 DEF KeepsSecured, PairOnDisk
      <4>1. \/ peerPrev[r].state = "READY" /\ peerPrev[r].step >= secured
            \/ \E g \in secured .. MaxStep : PairOnDisk(r, g)
        BY <1>1, <1>3 DEF DiskInv, KeepsSecured
      <4>2. CASE peerPrev'[r] = peerPrev[r]
        BY <4>1, <4>2
      <4>3. CASE /\ peerPrev'[r] = PeerFinal(r) /\ step[r] > 0 /\ Received(r)
                 /\ peerPrev[r].state = "READY" /\ peerPrev[r].step >= secured
        <5>1. peerPrev[r].step \in 1 .. step[r] /\ step[r] <= MaxStep /\ secured \in Nat
          BY <1>1, <4>3, RankTypes DEF DiskInv, PreviousIsRecent
        <5>2. CASE source[r]
          BY <1>1, <1>3, <4>3, <5>1, <5>2, FinalPair DEF Received
        <5>3. CASE ~source[r]
          <6>1. PairOnDisk(r, peerPrev[r].step)
            BY <1>1, <1>3, <4>3, <5>3 DEF DiskInv, WroteItsPair, Flushed
          <6>2. peerPrev[r].step \in secured .. MaxStep
            BY <1>1, <4>3, <5>1, RankTypes
          <6> QED BY <6>1, <6>2
        <5> QED BY <5>2, <5>3
      <4> QED BY <1>5, <4>1, <4>2, <4>3
    <3> QED BY <3>1, <3>2
  <2> QED BY <2>1, <2>2, <2>3 DEF DiskInv
<1>8. ASSUME NEW q \in Ranks \ {r} PROVE SlotInv(q)' /\ DiskInv(q)'
  <2>1. Kept(q) /\ SlotInv(q) /\ DiskInv(q)
    BY <1>2 DEF OthersKept, BuffersInv
  <2>2. SlotInv(q)'
    BY <2>1, SlotsAtRest
  <2>3. CASE SecuredAfter(r) = secured
    BY <1>2, <2>1, <2>2, <2>3, DiskAtRest
  <2>4. CASE SecuredAfter(r) # secured
    <3>1. PeerShardsWhole(q)' /\ PreviousIsRecent(q)' /\ WroteItsPair(q)'
      BY <2>1 DEF DiskInv, Kept, PeerShardsWhole, PreviousIsRecent, Flushed, WroteItsPair,
                  PairOnDisk
    <3>2. peerPrev'[q].state = "READY" /\ peerPrev'[q].step = secured'
      BY <1>1, <1>2, <2>1, <2>4, SecuredBy DEF Kept
    <3>3. secured' \in Nat
      BY <1>1, <1>2, <1>3, <2>4, SecuredBy
    <3>4. KeepsSecured(q)'
      BY <3>2, <3>3 DEF KeepsSecured
    <3> QED BY <2>2, <3>1, <3>4 DEF DiskInv
  <2> QED BY <2>3, <2>4
<1> QED BY <1>6, <1>7, <1>8 DEF BuffersInv

(* A flush on demand, before training goes on.                             *)
LEMMA FlushForRestartStep ==
  ASSUME BuffersInv, TypeOK', NEW r \in Ranks, FlushForRestart(r)
  PROVE  BuffersInv'
<1>1. TypeOK /\ SlotInv(r) /\ DiskInv(r) /\ secured' = secured
  BY DEF BuffersInv, FlushForRestart
<1>2. OthersKept(r)
  BY <1>1 DEF OthersKept, Kept, TypeOK, FlushForRestart
<1>3. /\ at[r] = "train" /\ worker[r] = "none" /\ exchange[r] # "active" /\ step[r] > 0
      /\ ownCur'[r] = OwnFinal(r) /\ peerCur'[r] = PeerFinal(r) /\ ~source'[r]
      /\ disk'[r] = WithReadySlots(disk[r], r)
      /\ UNCHANGED <<ownPrev, peerPrev, at, step, worker, exchange, writer>>
  BY <1>1 DEF FlushForRestart, TypeOK
<1>4. SlotInv(r)'
  BY <1>1, <1>3, FinalPair
     DEF SlotInv, WhileSaving, WhileCopying, WhileReplicating, Flushed, WhenFlushed,
         SlotsInOrder, AlignedPair, Whole, HasBytes
<1>5. DiskInv(r)'
  <2>1. /\ PeerShardsWhole(r)'
        /\ \A g \in Steps : PairOnDisk(r, g) => PairOnDisk(r, g)'
        /\ \A g \in Nat : peerPrev[r].state = "READY" /\ peerPrev[r].step = g =>
                            g \in Steps /\ PairOnDisk(r, g)'
    BY <1>1, <1>3, FlushKeepsPairs
  <2>2. PreviousIsRecent(r)'
    BY <1>1, <1>3 DEF DiskInv, PreviousIsRecent
  <2>3. WroteItsPair(r)'
    BY <1>1, <1>3, <2>1 DEF DiskInv, PreviousIsRecent, WroteItsPair, PairOnDisk
  <2>4. KeepsSecured(r)'
    <3>1. secured > 0 => secured .. MaxStep \subseteq Steps
      BY <1>1, RankTypes DEF Steps
    <3> QED BY <1>1, <1>3, <2>1, <3>1 DEF DiskInv, KeepsSecured
  <2> QED BY <2>1, <2>2, <2>3, <2>4 DEF DiskInv
<1> QED BY <1>1, <1>2, <1>4, <1>5, RankMoves

(* The last flush of a rank, whatever it interrupted.                      *)
LEMMA FlushSlotsStep ==
  ASSUME BuffersInv, TypeOK', NEW r \in Ranks, FlushSlots(r)
  PROVE  BuffersInv'
<1>1. TypeOK /\ SlotInv(r) /\ DiskInv(r) /\ secured' = secured
  BY DEF BuffersInv, FlushSlots
<1>2. OthersKept(r)
  BY <1>1 DEF OthersKept, Kept, TypeOK, memoryVars, FlushSlots
<1>3. /\ at[r] = "flush" /\ at'[r] = "exited"
      /\ disk'[r] = WithReadySlots(disk[r], r)
      /\ UNCHANGED <<ownCur, ownPrev, peerCur, peerPrev, step, worker, exchange, source, writer>>
  BY <1>1 DEF FlushSlots, TypeOK, memoryVars
<1>4. SlotInv(r)'
  BY <1>1, <1>3
     DEF SlotInv, WhileSaving, WhileCopying, WhileReplicating, Flushed, WhenFlushed,
         SlotsInOrder, AlignedPair, Whole, HasBytes
<1>5. DiskInv(r)'
  <2>1. /\ PeerShardsWhole(r)'
        /\ \A g \in Steps : PairOnDisk(r, g) => PairOnDisk(r, g)'
        /\ \A g \in Nat : peerPrev[r].state = "READY" /\ peerPrev[r].step = g =>
                            g \in Steps /\ PairOnDisk(r, g)'
    BY <1>1, <1>3, FlushKeepsPairs
  <2>2. PreviousIsRecent(r)'
    BY <1>1, <1>3 DEF DiskInv, PreviousIsRecent
  <2>3. WroteItsPair(r)'
    BY <1>1, <1>3, <2>1 DEF DiskInv, PreviousIsRecent, WroteItsPair, PairOnDisk
  <2>4. KeepsSecured(r)'
    <3>1. secured > 0 => secured .. MaxStep \subseteq Steps
      BY <1>1, RankTypes DEF Steps
    <3> QED BY <1>1, <1>3, <2>1, <3>1 DEF DiskInv, KeepsSecured
  <2> QED BY <2>1, <2>2, <2>3, <2>4 DEF DiskInv
<1> QED BY <1>1, <1>2, <1>4, <1>5, RankMoves

(* Nothing is asked of a lost node.                                        *)
LEMMA LoseNodeStep ==
  ASSUME BuffersInv, TypeOK', NEW r \in Ranks, LoseNode(r)
  PROVE  BuffersInv'
<1>1. TypeOK /\ SlotInv(r) /\ DiskInv(r) /\ secured' = secured
  BY DEF BuffersInv, LoseNode
<1>2. OthersKept(r)
  BY <1>1 DEF OthersKept, Kept, TypeOK, memoryVars, LoseNode
<1>3. /\ at'[r] = "dead" /\ disk'[r] = NoFiles
      /\ UNCHANGED <<ownCur, ownPrev, peerCur, peerPrev, step, worker, exchange, source, writer>>
  BY <1>1 DEF LoseNode, TypeOK, memoryVars
<1>4. SlotInv(r)'
  BY <1>1, <1>3
     DEF SlotInv, WhileSaving, WhileCopying, WhileReplicating, Flushed, WhenFlushed,
         SlotsInOrder, AlignedPair, Whole, HasBytes
<1>5. DiskInv(r)'
  <2>1. PeerShardsWhole(r)'
    BY <1>1, <1>3, RankTypes DEF PeerShardsWhole, NoFiles
  <2> QED BY <1>1, <1>3, <2>1
          DEF DiskInv, PreviousIsRecent, WroteItsPair, Flushed, KeepsSecured
<1> QED BY <1>1, <1>2, <1>4, <1>5, RankMoves

-----------------------------------------------------------------------------
(* Before the first capture every slot is empty.                           *)
LEMMA BuffersInit == Init => BuffersInv
<1> SUFFICES ASSUME Init PROVE BuffersInv
  OBVIOUS
<1>1. Empty \in Slot /\ NoFiles \in Files
  BY DEF Empty, Slot, NoFiles, Files
<1>2. TypeOK
  BY <1>1, BuffersAssumption DEF Init, TypeOK, Files
<1>3. ASSUME NEW r \in Ranks PROVE SlotInv(r) /\ DiskInv(r)
  <2>1. SlotInv(r)
    BY DEF Init, Empty, SlotInv, WhileSaving, WhileCopying, WhileReplicating, Flushed,
           WhenFlushed, SlotsInOrder, AlignedPair, Whole, HasBytes
  <2>2. PeerShardsWhole(r)
    BY <1>2, RankTypes DEF Init, PeerShardsWhole, NoFiles
  <2> QED BY <2>1, <2>2
          DEF Init, Empty, DiskInv, PreviousIsRecent, Flushed, WroteItsPair, KeepsSecured
<1> QED BY <1>2, <1>3 DEF BuffersInv

(* Every step keeps the invariant.                                         *)
LEMMA BuffersStep == BuffersInv /\ [Next]_vars => BuffersInv'
<1> SUFFICES ASSUME BuffersInv, [Next]_vars PROVE BuffersInv'
  OBVIOUS
<1>1. TypeOK'
  BY TypeStep
<1>2. CASE UNCHANGED vars
  <2>1. \A q \in Ranks : Kept(q)
    BY <1>2 DEF vars, Kept
  <2>2. secured' = secured
    BY <1>2 DEF vars
  <2> QED BY <1>1, <2>1, <2>2, SlotsAtRest, DiskAtRest DEF BuffersInv
<1> QED
  BY <1>1, <1>2, PrepareStep, SaveStep, LaunchStep, WriterStep, FlushForRestartStep,
     FlushSlotsStep, LoseNodeStep DEF Next, Save

(* The invariant holds in every reachable state.                           *)
LEMMA BuffersInvariant == Spec => []BuffersInv
  BY BuffersInit, BuffersStep, PTL DEF Spec

(***************************************************************************)
(* A replica in peer_previous is one generation with own_previous, through *)
(* failed exchanges and flushes on demand.                                 *)
(***************************************************************************)
THEOREM PreviousAligned == Spec => []PreviousPairIsAligned
<1>1. BuffersInv => PreviousPairIsAligned
  BY DEF BuffersInv, SlotInv, AlignedPair, PreviousPairIsAligned
<1> QED BY <1>1, BuffersInvariant, PTL

(***************************************************************************)
(* A replica that a node has on disk for its peer is whole.                *)
(***************************************************************************)
THEOREM ReplicasWhole == Spec => []PeerShardsAreWhole
<1>1. BuffersInv => PeerShardsAreWhole
  BY DEF BuffersInv, DiskInv, PeerShardsWhole, PeerShardsAreWhole
<1> QED BY <1>1, BuffersInvariant, PTL

-----------------------------------------------------------------------------
(* Of a pair at most one rank is lost.                                     *)
OneIsLeft == \A q, r \in Ranks : at[q] = "dead" /\ at[r] = "dead" => q = r

LEMMA OneIsLeftStep ==
  ASSUME IsFiniteSet(Ranks), MaxLosses <= 1, TypeOK, OneIsLeft, [Next]_vars
  PROVE  OneIsLeft'
<1>1. ASSUME NEW r \in Ranks, LoseNode(r) PROVE OneIsLeft'
  <2> DEFINE lost == {q \in Ranks : at[q] = "dead"}
  <2>1. IsFiniteSet(lost) /\ Cardinality(lost) \in Nat
    BY FS_Subset, FS_CardinalityType
  <2>2. Cardinality(lost) = 0
    BY <1>1, <2>1, BuffersAssumption DEF LoseNode
  <2>3. lost = {}
    BY <2>1, <2>2, FS_EmptySet
  <2> QED BY <1>1, <2>3 DEF LoseNode, OneIsLeft, TypeOK
<1>2. CASE UNCHANGED at
  BY <1>2 DEF OneIsLeft
<1>3. ASSUME NEW r \in Ranks, NEW where, where # "dead", at' = [at EXCEPT ![r] = where]
      PROVE  OneIsLeft'
  BY <1>3 DEF OneIsLeft, TypeOK
<1>4. ASSUME NEW r \in Ranks,
             \/ PrepareNextCapture(r) \/ StartCopy(r) \/ Label(r) \/ Mark(r) \/ FinalizeAndLaunch(r)
             \/ Stop(r) \/ FlushSlots(r)
      PROVE  OneIsLeft'
  BY <1>3, <1>4 DEF PrepareNextCapture, StartCopy, Label, Mark, FinalizeAndLaunch, Stop, FlushSlots
<1>5. ASSUME NEW r \in Ranks,
             \/ WorkerDone(r) \/ ExchangeDone(r) \/ WriterDone(r) \/ WorkerFails(r)
             \/ ExchangeFails(r) \/ BreakLink(r) \/ FlushForRestart(r)
      PROVE  UNCHANGED at
  BY <1>5 DEF WorkerDone, ExchangeDone, WriterDone, WorkerFails, ExchangeFails, BreakLink,
              FlushForRestart
<1> QED BY <1>1, <1>2, <1>4, <1>5 DEF Next, Save, vars

(***************************************************************************)
(* For a pair of ranks of which at most one is lost: when the ranks have   *)
(* exited, a generation is left that is complete and no older than the     *)
(* last one that was secured, unless a flush wrote a torn own shard.       *)
(***************************************************************************)
THEOREM SecuredSurvives ==
  ASSUME \A r \in Ranks : Ranks = {r, Peer[r]}, MaxLosses <= 1
  PROVE  Spec => []SecuredStepSurvives
<1>1. IsFiniteSet(Ranks)
  <2>1. CASE Ranks = {}
    BY <2>1, FS_EmptySet
  <2>2. CASE Ranks # {}
    <3>1. PICK r \in Ranks : Ranks = ({} \cup {r}) \cup {Peer[r]}
      BY <2>2
    <3>2. IsFiniteSet({} \cup {r})
      BY FS_EmptySet, FS_AddElement
    <3> QED BY <3>1, <3>2, FS_AddElement
  <2> QED BY <2>1, <2>2
<1>2. Init => OneIsLeft
  BY DEF Init, OneIsLeft
<1>3. BuffersInv /\ OneIsLeft /\ [Next]_vars => OneIsLeft'
  BY <1>1, OneIsLeftStep DEF BuffersInv
<1>4. BuffersInv /\ OneIsLeft => SecuredStepSurvives
  <2> SUFFICES ASSUME BuffersInv, OneIsLeft, secured > 0, OwnShardsAreWhole,
                      \A r \in Ranks : at[r] \in {"exited", "dead"}
               PROVE  \E s \in secured .. MaxStep : Recoverable(s)
    BY DEF SecuredStepSurvives
  <2>1. secured \in Nat /\ secured <= MaxStep /\ MaxStep \in Nat
    BY BuffersAssumption DEF BuffersInv, TypeOK
  <2>2. CASE Ranks = {}
    BY <2>1, <2>2 DEF Recoverable
  <2>3. CASE Ranks # {}
    <3>1. PICK r \in Ranks : at[r] = "exited"
      BY <2>3, BuffersAssumption DEF OneIsLeft
    <3>2. TypeOK /\ SlotInv(r) /\ DiskInv(r)
      BY DEF BuffersInv
    <3>3. PICK g \in secured .. MaxStep : PairOnDisk(r, g)
      <4>1. \/ peerPrev[r].state = "READY" /\ peerPrev[r].step >= secured
            \/ \E g \in secured .. MaxStep : PairOnDisk(r, g)
        BY <3>1, <3>2 DEF DiskInv, KeepsSecured
      <4>2. CASE peerPrev[r].state = "READY" /\ peerPrev[r].step >= secured
        <5>1. peerPrev[r].step \in secured .. MaxStep
          BY <2>1, <3>2, <4>2, RankTypes DEF DiskInv, PreviousIsRecent
        <5>2. PairOnDisk(r, peerPrev[r].step)
          BY <3>1, <3>2, <4>2 DEF DiskInv, WroteItsPair
        <5> QED BY <5>1, <5>2
      <4> QED BY <4>1, <4>2
    <3>4. g \in Steps
      BY <2>1, <3>3 DEF Steps
    <3>5. disk[r][r][g] = g /\ disk[r][Peer[r]][g] = g
      BY <3>3, <3>4 DEF PairOnDisk, OwnShardsAreWhole
    <3>6. Recoverable(g)
      BY <3>5 DEF Recoverable
    <3> QED BY <3>3, <3>6
  <2> QED BY <2>2, <2>3
<1> QED BY <1>2, <1>3, <1>4, BuffersInvariant, PTL DEF Spec
-----------------------------------------------------------------------------
(* The transfer of a shard to a replacement, which shares no state with    *)
(* the buffers: server and fetcher are at the same message of the same     *)
(* call, or one of them has given up.                                      *)

Chunk == 1 .. Chunks
Contents == [Chunk -> Int]

(* The places at which the two sides of a torch_dist transfer have met.    *)
Talking == {"preflight", "payload", "verdict"}

Serve == [at : Transfer!Over \cup Talking \cup {"manifest", "publish"},
          manifest : Contents, sent : Nat, calls : Nat]
Fetch == [at : Transfer!Over \cup Talking \cup {"manifest", "copy"},
          manifest : Contents, arrived : Contents, next : Nat,
          registration : Nat, fits : BOOLEAN, calls : Nat]

TransferTypes ==
  /\ shard \in Contents /\ buffers \in Contents
  /\ server \in Serve /\ fetcher \in Fetch
  /\ published \in [manifest : Contents, registration : Nat] /\ registered \in Nat

(* Both sides of an exchange are at the same message of the same transfer: *)
(* one that gave up and called again is met at the manifest only.          *)
Met ==
  backend = "torch_dist" /\ server.at \in Talking /\ fetcher.at \in Talking =>
    /\ server.at = fetcher.at
    /\ server.manifest = fetcher.manifest
    /\ server.sent + 1 = fetcher.next

(* What is copied out was found right, and only nixl publishes.            *)
TransferInv ==
  /\ TransferTypes /\ Met
  /\ fetcher.at = "copy" => fetcher.arrived = fetcher.manifest /\ fetcher.arrived \in accepted
  /\ server.at = "manifest" => server.sent = 0
  /\ fetcher.at = "manifest" => fetcher.next = 1
  /\ backend = "torch_dist" => server.at # "publish"
  /\ Transfer!FetchedIsDescribed /\ Transfer!NothingInPart

LEMMA TransferInit == Transfer!Init => TransferInv
<1> SUFFICES ASSUME Transfer!Init PROVE TransferInv
  OBVIOUS
<1>1. Transfer!AllEmpty \in Contents /\ [i \in 1 .. Chunks |-> 0] \in Contents
  BY DEF Transfer!AllEmpty, Transfer!Empty, Contents, Chunk
<1>2. /\ server \in Serve /\ server.at = "idle"
  BY <1>1 DEF Transfer!Init, Transfer!NoServer, Serve, Transfer!Over
<1>3. /\ fetcher \in Fetch /\ fetcher.at = "idle"
  BY <1>1 DEF Transfer!Init, Transfer!NoFetcher, Fetch, Transfer!Over
<1>4. TransferTypes
  BY <1>1, <1>2, <1>3 DEF Transfer!Init, Transfer!NotPublished, TransferTypes
<1> QED BY <1>2, <1>3, <1>4 DEF Transfer!Init, TransferInv, Met, Talking,
            Transfer!FetchedIsDescribed, Transfer!NothingInPart

(* The shapes of the records that the steps write. *)
LEMMA ServerAt ==
  ASSUME server \in Serve, NEW where \in Transfer!Over \cup Talking \cup {"manifest", "publish"},
         server' = [server EXCEPT !.at = where]
  PROVE  /\ server' \in Serve /\ server'.at = where
         /\ server'.manifest = server.manifest /\ server'.sent = server.sent
  BY DEF Serve

LEMMA FetcherAt ==
  ASSUME fetcher \in Fetch, NEW where \in Transfer!Over \cup Talking \cup {"manifest", "copy"},
         fetcher' = [fetcher EXCEPT !.at = where]
  PROVE  /\ fetcher' \in Fetch /\ fetcher'.at = where
         /\ fetcher'.manifest = fetcher.manifest /\ fetcher'.arrived = fetcher.arrived
         /\ fetcher'.next = fetcher.next
  BY DEF Fetch

(* The shard is written and read as it is.                                 *)
LEMMA OverwriteTransfers ==
  ASSUME TransferInv, NEW i \in 1 .. Chunks, Transfer!Overwrite(i)
  PROVE  TransferInv'
<1>1. /\ shard' = [shard EXCEPT ![i] = @ + 1]
      /\ UNCHANGED <<backend, server, fetcher, buffers, published, registered, accepted>>
      /\ shard \in Contents
  BY DEF Transfer!Overwrite, TransferInv, TransferTypes
<1>2. shard' \in Contents
  BY <1>1 DEF Contents, Chunk
<1> QED BY <1>1, <1>2 DEF TransferInv, TransferTypes, Met, Transfer!FetchedIsDescribed,
                          Transfer!NothingInPart

LEMMA TimeoutTransfers ==
  ASSUME TransferInv, Transfer!ServeTimesOut \/ Transfer!FetchTimesOut
  PROVE  TransferInv'
<1>1. CASE Transfer!ServeTimesOut
  <2>1. /\ server' = [server EXCEPT !.at = "raised"] /\ server \in Serve
        /\ UNCHANGED <<backend, shard, fetcher, buffers, published, registered, accepted>>
    BY <1>1 DEF Transfer!ServeTimesOut, TransferInv, TransferTypes
  <2>2. server' \in Serve /\ server'.at = "raised"
    BY <2>1, ServerAt DEF Transfer!Over
  <2> QED BY <2>1, <2>2 DEF TransferInv, TransferTypes, Met, Talking,
                            Transfer!FetchedIsDescribed, Transfer!NothingInPart
<1>2. CASE Transfer!FetchTimesOut
  <2>1. /\ fetcher' = [fetcher EXCEPT !.at = "raised"] /\ fetcher \in Fetch
        /\ UNCHANGED <<backend, shard, server, buffers, published, registered, accepted>>
    BY <1>2 DEF Transfer!FetchTimesOut, TransferInv, TransferTypes
  <2>2. fetcher' \in Fetch /\ fetcher'.at = "raised"
    BY <2>1, FetcherAt DEF Transfer!Over
  <2> QED BY <2>1, <2>2 DEF TransferInv, TransferTypes, Met, Talking,
                            Transfer!FetchedIsDescribed, Transfer!NothingInPart
<1> QED BY <1>1, <1>2

LEMMA BeginTransfers ==
  ASSUME TransferInv, Transfer!BeginServe \/ Transfer!Register \/ Transfer!BeginFetch
  PROVE  TransferInv'
<1>1. /\ server \in Serve /\ fetcher \in Fetch /\ shard \in Contents
      /\ Transfer!AllEmpty \in Contents
  BY DEF TransferInv, TransferTypes, Transfer!AllEmpty, Transfer!Empty, Contents, Chunk
<1>2. CASE Transfer!BeginServe
  <2>1. /\ server' = [at |-> "manifest", manifest |-> shard, sent |-> 0,
                      calls |-> server.calls + 1]
        /\ UNCHANGED <<backend, shard, fetcher, buffers, published, registered, accepted>>
    BY <1>2 DEF Transfer!BeginServe, Transfer!PayloadManifest
  <2>2. server' \in Serve /\ server'.at = "manifest" /\ server'.sent = 0
    BY <1>1, <2>1 DEF Serve
  <2> QED BY <2>1, <2>2 DEF TransferInv, TransferTypes, Met, Talking,
                            Transfer!FetchedIsDescribed, Transfer!NothingInPart
<1>3. CASE Transfer!Register
  <2>1. /\ server' = [at |-> "publish", manifest |-> shard, sent |-> 0,
                      calls |-> server.calls + 1]
        /\ backend = "nixl" /\ registered' = server.calls + 1
        /\ UNCHANGED <<backend, shard, fetcher, buffers, published, accepted>>
    BY <1>3 DEF Transfer!Register, Transfer!PayloadManifest
  <2>2. server' \in Serve /\ server'.at = "publish" /\ registered' \in Nat
    BY <1>1, <2>1 DEF Serve
  <2> QED BY <2>1, <2>2 DEF TransferInv, TransferTypes, Met, Talking,
                            Transfer!FetchedIsDescribed, Transfer!NothingInPart
<1>4. CASE Transfer!BeginFetch
  <2>1. PICK fits \in BOOLEAN :
          fetcher' = [Transfer!NoFetcher EXCEPT !.at = "manifest", !.fits = fits,
                                                !.calls = fetcher.calls + 1]
    BY <1>4 DEF Transfer!BeginFetch
  <2>2. UNCHANGED <<backend, shard, server, buffers, published, registered, accepted>>
    BY <1>4 DEF Transfer!BeginFetch
  <2>3. fetcher' \in Fetch /\ fetcher'.at = "manifest"
    <3>1. Transfer!NoFetcher \in Fetch
      BY <1>1 DEF Transfer!NoFetcher, Fetch, Transfer!Over
    <3>2. fetcher.calls + 1 \in Nat
      BY <1>1 DEF Fetch
    <3> QED BY <2>1, <3>1, <3>2 DEF Fetch
  <2>4. fetcher'.next = 1
    BY <2>1 DEF Transfer!NoFetcher
  <2> QED BY <2>2, <2>3, <2>4 DEF TransferInv, TransferTypes, Met, Talking,
                            Transfer!FetchedIsDescribed, Transfer!NothingInPart
<1> QED BY <1>2, <1>3, <1>4


(* The two sides meet, and answer each other.                              *)
LEMMA MeetTransfers ==
  ASSUME TransferInv, Transfer!Manifest \/ Transfer!Preflight
  PROVE  TransferInv'
<1>1. server \in Serve /\ fetcher \in Fetch
  BY DEF TransferInv, TransferTypes
<1>2. CASE Transfer!Manifest
  <2>1. /\ server.at = "manifest" /\ fetcher.at = "manifest"
        /\ server' = [server EXCEPT !.at = "preflight"]
        /\ fetcher' = [fetcher EXCEPT !.at = "preflight", !.manifest = server.manifest]
        /\ UNCHANGED <<backend, shard, buffers, published, registered, accepted>>
    BY <1>2 DEF Transfer!Manifest
  <2>2. /\ server' \in Serve /\ server'.at = "preflight" /\ server'.sent = 0
        /\ server'.manifest = server.manifest
    BY <1>1, <2>1, ServerAt DEF Talking, TransferInv
  <2>3. /\ fetcher' \in Fetch /\ fetcher'.at = "preflight" /\ fetcher'.next = 1
        /\ fetcher'.manifest = server.manifest
    BY <1>1, <2>1 DEF Fetch, Serve, Talking, TransferInv
  <2> QED BY <2>1, <2>2, <2>3 DEF TransferInv, TransferTypes, Met,
                                  Transfer!FetchedIsDescribed, Transfer!NothingInPart
<1>3. CASE Transfer!Preflight
  <2>1. PICK outcome \in {"payload", "raised"} :
          /\ server' = [server EXCEPT !.at = outcome]
          /\ fetcher' = [fetcher EXCEPT !.at = outcome]
    BY <1>3 DEF Transfer!Preflight
  <2>2. /\ server.at = "preflight" /\ fetcher.at = "preflight" /\ backend = "torch_dist"
        /\ UNCHANGED <<backend, shard, buffers, published, registered, accepted>>
    BY <1>3 DEF Transfer!Preflight
  <2>3. /\ server' \in Serve /\ server'.at = outcome
        /\ server'.manifest = server.manifest /\ server'.sent = server.sent
    BY <1>1, <2>1, ServerAt DEF Talking, Transfer!Over
  <2>4. /\ fetcher' \in Fetch /\ fetcher'.at = outcome
        /\ fetcher'.manifest = fetcher.manifest /\ fetcher'.next = fetcher.next
    BY <1>1, <2>1, FetcherAt DEF Talking, Transfer!Over
  <2> QED BY <2>2, <2>3, <2>4 DEF TransferInv, TransferTypes, Met, Talking,
                                  Transfer!FetchedIsDescribed, Transfer!NothingInPart
<1> QED BY <1>2, <1>3

(* A chunk, as it was sent or damaged.                                     *)
LEMMA ChunkArrives ==
  ASSUME NEW into \in Contents, NEW from \in Contents, NEW n \in Nat,
         NEW content \in {from[n], Transfer!Damaged}
  PROVE  [into EXCEPT ![n] = content] \in Contents
<1>1. CASE n \in Chunk
  BY <1>1 DEF Contents, Transfer!Damaged
<1>2. CASE n \notin Chunk
  BY <1>2 DEF Contents
<1> QED BY <1>1, <1>2

LEMMA PayloadTransfers ==
  ASSUME TransferInv, Transfer!Payload
  PROVE  TransferInv'
<1>1. /\ server \in Serve /\ fetcher \in Fetch /\ shard \in Contents
      /\ server.at = "payload" /\ fetcher.at = "payload" /\ backend = "torch_dist"
      /\ UNCHANGED <<backend, shard, buffers, published, registered, accepted>>
  BY DEF TransferInv, TransferTypes, Transfer!Payload
<1>2. /\ server.sent + 1 = fetcher.next /\ server.manifest = fetcher.manifest
      /\ server.sent \in Nat /\ fetcher.next \in Nat
  BY <1>1 DEF TransferInv, Met, Talking, Serve, Fetch
<1> DEFINE where == IF fetcher.next = Chunks THEN "verdict" ELSE "payload"
           With(content) == [fetcher.arrived EXCEPT ![fetcher.next] = content]
<1>3. PICK content \in {shard[fetcher.next], Transfer!Damaged} :
        /\ server' = [server EXCEPT !.sent = server.sent + 1, !.at = where]
        /\ fetcher' = [fetcher EXCEPT !.arrived = With(content),
                                      !.next = fetcher.next + 1, !.at = where]
  BY <1>1, <1>2 DEF Transfer!Payload
<1>4. where \in Talking /\ where \in {"verdict", "payload"}
  BY DEF Talking
<1> HIDE DEF where
<1>5. /\ server' \in Serve /\ server'.at = where /\ server'.sent = server.sent + 1
      /\ server'.manifest = server.manifest
  BY <1>1, <1>2, <1>3, <1>4 DEF Serve
<1>6. With(content) \in Contents
  BY <1>1, <1>2, ChunkArrives, ZenonT(30) DEF Fetch
<1> HIDE DEF With
<1>7. /\ fetcher' \in Fetch /\ fetcher'.at = where /\ fetcher'.next = fetcher.next + 1
      /\ fetcher'.manifest = fetcher.manifest
  <2>1. PICK arrived \in Contents : arrived = With(content)
    BY <1>6
  <2>2. PICK next \in Nat : next = fetcher.next + 1
    BY <1>2
  <2>3. fetcher' = [fetcher EXCEPT !.arrived = arrived, !.next = next, !.at = where]
    BY <1>3, <2>1, <2>2
  <2>4. fetcher' \in Fetch
    BY <1>1, <1>4, <2>3 DEF Fetch
  <2>5. fetcher'.at = where /\ fetcher'.next = next /\ fetcher'.manifest = fetcher.manifest
    BY <1>1, <2>3 DEF Fetch
  <2> QED BY <2>2, <2>4, <2>5
<1>8. Met'
  BY <1>2, <1>5, <1>7 DEF Met
<1> QED BY <1>1, <1>4, <1>5, <1>7, <1>8 DEF TransferInv, TransferTypes,
            Transfer!FetchedIsDescribed, Transfer!NothingInPart

LEMMA VerdictTransfers ==
  ASSUME TransferInv, Transfer!Verdict
  PROVE  TransferInv'
<1>1. /\ server \in Serve /\ fetcher \in Fetch
      /\ server.at = "verdict" /\ fetcher.at = "verdict" /\ backend = "torch_dist"
      /\ UNCHANGED <<backend, shard, buffers, published, registered>>
      /\ server.manifest = fetcher.manifest
  BY DEF TransferInv, TransferTypes, Met, Talking, Transfer!Verdict
<1>2. CASE fetcher.arrived = fetcher.manifest
  <2>1. /\ server' = [server EXCEPT !.at = "returned"]
        /\ fetcher' = [fetcher EXCEPT !.at = "copy"]
        /\ accepted' = accepted \cup {fetcher.manifest}
    BY <1>2 DEF Transfer!Verdict, Transfer!Verified
  <2>2. /\ server' \in Serve /\ server'.at = "returned" /\ server'.manifest = server.manifest
    BY <1>1, <2>1, ServerAt DEF Transfer!Over
  <2>3. /\ fetcher' \in Fetch /\ fetcher'.at = "copy"
        /\ fetcher'.manifest = fetcher.manifest /\ fetcher'.arrived = fetcher.arrived
    BY <1>1, <2>1, FetcherAt
  <2> QED BY <1>1, <1>2, <2>1, <2>2, <2>3 DEF TransferInv, TransferTypes, Met, Talking,
              Transfer!FetchedIsDescribed, Transfer!NothingInPart
<1>3. CASE fetcher.arrived # fetcher.manifest
  <2>1. /\ server' = [server EXCEPT !.at = "raised"]
        /\ fetcher' = [fetcher EXCEPT !.at = "raised"] /\ accepted' = accepted
    BY <1>3 DEF Transfer!Verdict, Transfer!Verified
  <2>2. server' \in Serve /\ server'.at = "raised"
    BY <1>1, <2>1, ServerAt DEF Transfer!Over
  <2>3. fetcher' \in Fetch /\ fetcher'.at = "raised"
    BY <1>1, <2>1, FetcherAt DEF Transfer!Over
  <2> QED BY <1>1, <2>1, <2>2, <2>3 DEF TransferInv, TransferTypes, Met, Talking,
              Transfer!FetchedIsDescribed, Transfer!NothingInPart
<1> QED BY <1>2, <1>3

LEMMA CopyTransfers ==
  ASSUME TransferInv, Transfer!CopyOut
  PROVE  TransferInv'
<1>1. /\ fetcher.at = "copy" /\ fetcher \in Fetch /\ buffers' = fetcher.arrived
      /\ fetcher' = [fetcher EXCEPT !.at = "returned"]
      /\ UNCHANGED <<backend, shard, server, published, registered, accepted>>
  BY DEF TransferInv, TransferTypes, Transfer!CopyOut
<1>2. /\ fetcher' \in Fetch /\ fetcher'.at = "returned"
      /\ fetcher'.manifest = fetcher.manifest
  BY <1>1, FetcherAt DEF Transfer!Over
<1>3. buffers' = fetcher'.manifest /\ buffers' \in accepted /\ buffers' \in Contents
  BY <1>1, <1>2 DEF TransferInv, Fetch
<1> QED BY <1>1, <1>2, <1>3 DEF TransferInv, TransferTypes, Met, Talking,
            Transfer!FetchedIsDescribed, Transfer!NothingInPart

(* What is done to the registered memory and the metadata store.           *)
LEMMA StoreTransfers ==
  ASSUME TransferInv, Transfer!Publish \/ Transfer!CloseTransfer
  PROVE  TransferInv'
<1>1. /\ server \in Serve /\ registered \in Nat
  BY DEF TransferInv, TransferTypes
<1>2. CASE Transfer!Publish
  <2>1. PICK where \in {"returned", "raised"} :
          /\ server' = [server EXCEPT !.at = where]
          /\ published' \in {published,
                             [manifest |-> server.manifest, registration |-> registered]}
    BY <1>2 DEF Transfer!Publish
  <2>2. /\ server.at = "publish"
        /\ UNCHANGED <<backend, shard, fetcher, buffers, registered, accepted>>
    BY <1>2 DEF Transfer!Publish
  <2>3. server' \in Serve /\ server'.at = where
    BY <1>1, <2>1, ServerAt DEF Transfer!Over
  <2>4. published' \in [manifest : Contents, registration : Nat]
    BY <1>1, <2>1 DEF TransferInv, TransferTypes, Serve
  <2> QED BY <2>2, <2>3, <2>4 DEF TransferInv, TransferTypes, Met, Talking,
              Transfer!FetchedIsDescribed, Transfer!NothingInPart
<1>3. CASE Transfer!CloseTransfer
  BY <1>3 DEF Transfer!CloseTransfer, TransferInv, TransferTypes, Met,
              Transfer!FetchedIsDescribed, Transfer!NothingInPart
<1> QED BY <1>2, <1>3

LEMMA ReadTransfers ==
  ASSUME TransferInv, Transfer!GetMetadata \/ Transfer!Read
  PROVE  TransferInv'
<1>1. /\ fetcher \in Fetch /\ shard \in Contents /\ buffers \in Contents
      /\ published \in [manifest : Contents, registration : Nat]
  BY DEF TransferInv, TransferTypes
<1>2. /\ backend = "nixl" /\ UNCHANGED <<backend, shard, server, published, registered, accepted>>
      /\ fetcher.at \in {"manifest", "payload"}
  BY DEF Transfer!GetMetadata, Transfer!Read
<1>3. /\ fetcher' \in Fetch /\ fetcher'.at \in {"payload", "verdict", "raised"}
      /\ buffers' \in Contents
  <2>1. CASE fetcher' = [fetcher EXCEPT !.at = "raised"] /\ buffers' = buffers
    BY <1>1, <2>1, FetcherAt DEF Transfer!Over
  <2>2. CASE /\ fetcher' = [fetcher EXCEPT !.at = "payload", !.manifest = published.manifest,
                                           !.registration = published.registration]
             /\ buffers' = buffers
    BY <1>1, <2>2 DEF Fetch, Talking
  <2>3. ASSUME NEW where \in {"payload", "verdict"},
               fetcher' = [fetcher EXCEPT !.next = fetcher.next + 1, !.at = where],
               NEW content \in {shard[fetcher.next], Transfer!Damaged},
               buffers' = [buffers EXCEPT ![fetcher.next] = content]
        PROVE  /\ fetcher' \in Fetch /\ fetcher'.at \in {"payload", "verdict"}
               /\ buffers' \in Contents
    <3>1. fetcher.next \in Nat /\ fetcher.next + 1 \in Nat
      BY <1>1 DEF Fetch
    <3>2. buffers' \in Contents
      BY <1>1, <2>3, <3>1, ChunkArrives
    <3>3. fetcher' \in Fetch /\ fetcher'.at = where
      BY <1>1, <2>3, <3>1 DEF Fetch, Talking
    <3> QED BY <3>2, <3>3
  <2>4. CASE Transfer!GetMetadata
    BY <2>1, <2>2, <2>4 DEF Transfer!GetMetadata
  <2>5. CASE Transfer!Read
    <3>1. CASE fetcher' = [fetcher EXCEPT !.at = "raised"] /\ UNCHANGED buffers
      BY <2>1, <3>1
    <3>2. CASE \E content \in {shard[fetcher.next], Transfer!Damaged} :
                 buffers' = [buffers EXCEPT ![fetcher.next] = content]
      <4> DEFINE where == IF fetcher.next = Chunks THEN "verdict" ELSE "payload"
      <4>1. fetcher' = [fetcher EXCEPT !.next = fetcher.next + 1, !.at = where]
            \/ (fetcher' = [fetcher EXCEPT !.at = "raised"] /\ UNCHANGED buffers)
        BY <2>5 DEF Transfer!Read
      <4>2. where \in {"payload", "verdict"}
        OBVIOUS
      <4> HIDE DEF where
      <4> QED BY <2>1, <2>3, <3>2, <4>1, <4>2
    <3> QED BY <2>5, <3>1, <3>2 DEF Transfer!Read
  <2> QED BY <2>4, <2>5
<1> QED BY <1>2, <1>3 DEF TransferInv, TransferTypes, Met,
            Transfer!FetchedIsDescribed, Transfer!NothingInPart

LEMMA CheckTransfers ==
  ASSUME TransferInv, Transfer!CheckBuffers
  PROVE  TransferInv'
<1> DEFINE where == IF buffers = fetcher.manifest THEN "returned" ELSE "raised"
<1>1. /\ fetcher \in Fetch /\ buffers \in Contents /\ backend = "nixl"
      /\ UNCHANGED <<backend, shard, server, buffers, published, registered>>
  BY DEF TransferInv, TransferTypes, Transfer!CheckBuffers
<1>2. fetcher' = [fetcher EXCEPT !.arrived = buffers, !.at = where]
  BY <1>1 DEF Transfer!CheckBuffers, Transfer!Verified, Fetch
<1>3. where \in Transfer!Over /\ where \in {"returned", "raised"}
      /\ (where = "returned" => buffers = fetcher.manifest)
  BY DEF Transfer!Over
<1> HIDE DEF where
<1>4. fetcher' \in Fetch /\ fetcher'.at = where /\ fetcher'.manifest = fetcher.manifest
  BY <1>1, <1>2, <1>3 DEF Fetch
<1> QED BY <1>1, <1>3, <1>4 DEF TransferInv, TransferTypes, Met,
            Transfer!FetchedIsDescribed, Transfer!NothingInPart

LEMMA TransferInvariant == Transfer!Spec => []TransferInv
<1>1. TransferInv /\ [Transfer!Next]_(Transfer!vars) => TransferInv'
  <2>1. ASSUME TransferInv, UNCHANGED Transfer!vars PROVE TransferInv'
    BY <2>1 DEF Transfer!vars, TransferInv, TransferTypes, Met,
                Transfer!FetchedIsDescribed, Transfer!NothingInPart
  <2> QED
    BY <2>1, OverwriteTransfers, TimeoutTransfers, BeginTransfers, MeetTransfers,
       PayloadTransfers, VerdictTransfers, CopyTransfers, StoreTransfers, ReadTransfers,
       CheckTransfers DEF Transfer!Next
<1> QED BY <1>1, TransferInit, PTL DEF Transfer!Spec

(***************************************************************************)
(* For every set of ranks, number of chunks and backend: a ready replica   *)
(* is whole, a fetch that returns has exactly what the manifest it was     *)
(* given describes, and under torch_dist the destination's memory has all  *)
(* of an accepted shard or nothing and a serve that returns was received,  *)
(* although either side times out and calls again at any point.            *)
(***************************************************************************)
THEOREM ReceivedIsWholeAlways == Spec /\ Transfer!Spec => []ReceivedIsWhole
<1>1. TransferInv => Transfer!FetchedIsDescribed /\ Transfer!NothingInPart
  BY DEF TransferInv
<1> QED BY <1>1, TransferInvariant, ReplicasWhole, PTL DEF ReceivedIsWhole

(* What a checksum can describe: versions that training wrote, no chunk    *)
(* damaged or missing.                                                     *)
Written == [Chunk -> 0 .. MaxVersion]

(* From the memory of the source through the manifest and the metadata     *)
(* store to the side that fetches.                                         *)
DescribedInv ==
  /\ shard \in Written
  /\ server.at # "idle" => server.manifest \in Written
  /\ published.registration # 0 => published.manifest \in Written
  /\ fetcher.at \in Talking \cup {"copy", "returned"} => fetcher.manifest \in Written
  /\ accepted \subseteq Written

LEMMA DescribedInit == Transfer!TransferAssumption /\ Transfer!Init => DescribedInv
  BY DEF Transfer!TransferAssumption, Transfer!Init, Transfer!NoServer, Transfer!NoFetcher,
         Transfer!NotPublished, DescribedInv, Written, Chunk, Talking

LEMMA DescribedStep ==
  ASSUME Transfer!TransferAssumption, TransferInv, DescribedInv,
         [Transfer!Next]_(Transfer!vars)
  PROVE  DescribedInv'
<1>1. server \in Serve /\ fetcher \in Fetch
  BY DEF TransferInv, TransferTypes
<1>2. CASE \E i \in 1 .. Chunks : Transfer!Overwrite(i)
  <2>1. PICK i \in 1 .. Chunks : Transfer!Overwrite(i)
    BY <1>2
  <2>2. shard[i] + 1 \in 0 .. MaxVersion
    BY <2>1 DEF Transfer!Overwrite, Transfer!TransferAssumption, DescribedInv, Written, Chunk
  <2>3. shard' \in Written
    BY <2>1, <2>2 DEF Transfer!Overwrite, DescribedInv, Written
  <2> QED BY <2>1, <2>3 DEF Transfer!Overwrite, DescribedInv
<1>3. CASE Transfer!BeginServe \/ Transfer!Register
  BY <1>3 DEF Transfer!BeginServe, Transfer!Register, Transfer!PayloadManifest, DescribedInv
<1>4. CASE Transfer!ServeTimesOut
  BY <1>1, <1>4 DEF Transfer!ServeTimesOut, Transfer!Over, DescribedInv, Serve
<1>5. CASE Transfer!FetchTimesOut \/ Transfer!BeginFetch
  BY <1>1, <1>5 DEF Transfer!FetchTimesOut, Transfer!BeginFetch, Transfer!NoFetcher,
                    DescribedInv, Fetch, Talking
<1>6. CASE Transfer!Manifest
  BY <1>1, <1>6 DEF Transfer!Manifest, DescribedInv, Serve, Fetch, Talking
<1>7. CASE Transfer!Preflight
  BY <1>1, <1>7 DEF Transfer!Preflight, DescribedInv, Serve, Fetch, Talking
<1>8. CASE Transfer!Payload
  BY <1>1, <1>8 DEF Transfer!Payload, DescribedInv, Serve, Fetch, Talking
<1>9. CASE Transfer!Verdict
  BY <1>1, <1>9 DEF Transfer!Verdict, Transfer!Verified, DescribedInv, Serve, Fetch, Talking
<1>10. CASE Transfer!CopyOut \/ Transfer!CloseTransfer
  BY <1>1, <1>10 DEF Transfer!CopyOut, Transfer!CloseTransfer, DescribedInv, Fetch, Talking
<1>11. CASE Transfer!Publish
  BY <1>1, <1>11 DEF Transfer!Publish, DescribedInv, Serve
<1>12. CASE Transfer!GetMetadata \/ Transfer!Read
  BY <1>1, <1>12 DEF Transfer!GetMetadata, Transfer!Read, DescribedInv, Fetch, Talking
<1>13. CASE Transfer!CheckBuffers
  BY <1>1, <1>13 DEF Transfer!CheckBuffers, Transfer!Verified, DescribedInv, Fetch, Talking
<1>14. CASE UNCHANGED Transfer!vars
  BY <1>14 DEF Transfer!vars, DescribedInv
<1> QED BY <1>2, <1>3, <1>4, <1>5, <1>6, <1>7, <1>8, <1>9, <1>10, <1>11, <1>12, <1>13, <1>14
        DEF Transfer!Next

(***************************************************************************)
(* A shard that fetch returns consists of chunks that training wrote: one  *)
(* damaged on its way, read from memory given up, or never received is     *)
(* found by the checksums of TorchDistTransfer and NixlCheckpointTransfer. *)
(***************************************************************************)
THEOREM FetchedIsUndamaged ==
  ASSUME Transfer!TransferAssumption
  PROVE  Transfer!Spec => [](fetcher.at = "returned" => buffers \in Written)
<1>1. TransferInv /\ DescribedInv => (fetcher.at = "returned" => buffers \in Written)
  BY DEF TransferInv, DescribedInv, Transfer!FetchedIsDescribed
<1>2. Transfer!Init => DescribedInv
  BY DescribedInit
<1>3. TransferInv /\ DescribedInv /\ [Transfer!Next]_(Transfer!vars) => DescribedInv'
  BY DescribedStep
<1> QED BY <1>1, <1>2, <1>3, TransferInvariant, PTL DEF Transfer!Spec
=============================================================================
