------------------------------ MODULE MCRestart ------------------------------
(***************************************************************************)
(* Two steps of a worker that starts again, which share no state: the      *)
(* attachment of the resiliency handle to a script that knows nothing of   *)
(* it (Attachment), and the choice of the checkpoint to load               *)
(* (RecoverySelect).  A behaviour is one of one part; the other stays as   *)
(* it is.                                                                  *)
(***************************************************************************)
EXTENDS RecoverySelect, Attachment

VARIABLE part

-----------------------------------------------------------------------------
(* Two ranks that choose among three generations, and two that attach; the *)
(* script of the first has a thread that imports frameworks too.           *)
BothModes == Modes

ASSUME Attach!AttachAssumption

attachVars == <<auto, entry, known, thread, lock, group, handle, engine>>
restartVars == <<part, vars, attachVars>>

-----------------------------------------------------------------------------
(* The state of the part that does not run.                                *)
AttachOff == Attach!Init /\ \A r \in Workers : auto[r] = Attach!NewAuto(0)

(* No call is made, and there is nothing that it could look at.            *)
SelectOff ==
  /\ mem = [r \in Ranks |-> {}] /\ files = mem /\ valid = mem
  /\ call = "find" /\ asked = "latest" /\ want = [r \in Ranks |-> NoStep]
  /\ status = [r \in Ranks |-> InitialStatus("latest", {})]
  /\ st = [r \in Ranks |-> Idle]

(* The ranks are alike: of two initial states that differ in their order   *)
(* only, one will do.                                                      *)
First == CHOOSE r \in Ranks : TRUE
InOrder == \A r \in Ranks : Cardinality(files[r]) <= Cardinality(files[First])

RestartInit ==
  \/ part = "select" /\ Init /\ InOrder /\ AttachOff
  \/ part = "attach" /\ Attach!Init /\ SelectOff

SelectStep(A) == part = "select" /\ A /\ UNCHANGED <<part, attachVars>>
AttachStep(A) == part = "attach" /\ A /\ UNCHANGED <<part, vars>>

(* A script ends, or waits for a peer that does not come.                  *)
ScriptRests == part = "attach" /\ UNCHANGED restartVars

RestartNext == SelectStep(Next) \/ AttachStep(Attach!Next) \/ ScriptRests

(* The fairness of WorkerAttach; of the ranks that choose a checkpoint it  *)
(* is enough that the job goes on at all.                                  *)
RestartSpec ==
  /\ RestartInit /\ [][RestartNext]_restartVars
  /\ WF_vars(SelectStep(Next))
  /\ \A r \in {0, 1} : WF_attachVars(AttachStep(Attach!ThreadCode(r, "main")))
  /\ SF_attachVars(AttachStep(Attach!WaitsForImports(0)))
  /\ WF_attachVars(AttachStep(Attach!ThreadCode(0, "loader")))
  /\ WF_attachVars(AttachStep(Attach!Gather \/ Attach!Vote))

-----------------------------------------------------------------------------
(* What a restarted worker has begun comes to an end.  A call that selects *)
(* a checkpoint returns on every rank (load_tensors, find_latest): the     *)
(* search for an older common generation is finite, and no rank waits in a *)
(* reduction that another will not join.  An attachment ends in training   *)
(* or in a failure (_attach), with one exception: another thread of some   *)
(* rank imports PyTorch or a framework at that moment, and the two threads *)
(* take the locks of the imports and of the adapter in opposite orders     *)
(* (_select_specialized_locked, _rollback_import_selection).  Then that    *)
(* rank stays, and its peers with it; nothing else keeps an attachment     *)
(* from ending.                                                            *)
RestartEnds ==
  \A r \in {0, 1} :
    []<>IF part = "select" THEN \A q \in Ranks : Returned(q)
        ELSE Attach!Settled(r) \/ \E q \in Workers : Attach!LocksCrossed(q)
=============================================================================
