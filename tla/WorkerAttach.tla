---------------------------- MODULE WorkerAttach ----------------------------
(***************************************************************************)
(* Zero-import attachment of a torchrun worker:                            *)
(* integrations/torchrun/worker_adapter.py and the sitecustomize module    *)
(* that calls it.  Before the user module starts, a worker checks the      *)
(* restart context its agent wrote and installs _AutoFrameworkAdapter.     *)
(* That adapter watches imports to infer the framework, lets all ranks     *)
(* agree on it when the process group starts, and attaches the resiliency  *)
(* handle at the first call of a framework entry point.                    *)
(*                                                                         *)
(* A worker has a main thread (the user script) and possibly a background  *)
(* thread that imports modules.  The locks are those of the code:          *)
(* _import_transaction_lock (txn) is held for a whole outermost import,    *)
(* the lock of the automatic adapter (inference) for one update, and the   *)
(* lock of the adapter being attached (attach) for all of _enable.  Only   *)
(* SelectSpecialized can wait while it holds the inference lock.           *)
(*                                                                         *)
(* The user script is the environment: what it imports, which imports fail *)
(* and are caught, what it constructs and when it calls what is arbitrary. *)
(***************************************************************************)
EXTENDS Integers, FiniteSets

CONSTANTS
  Ranks,
  LoaderRanks,    \* ranks whose script has a background thread
  LoaderRoots,    \* roots that thread imports
  Specialized,    \* frameworks beside native PyTorch, "deepspeed" among them
  SelectedSteps,  \* checkpoint_step of the restart contexts, 0 in generation 0
  MaxStep         \* bound: training steps

AttachAssumption ==
  /\ LoaderRanks \subseteq Ranks
  /\ MaxStep \in Nat /\ SelectedSteps \subseteq 0..MaxStep
  /\ Specialized \cap {"none", "pytorch"} = {}

None == "none"
Native == "pytorch"
Threads == {"main", "loader"}

VARIABLES
  auto,    \* _AutoFrameworkAdapter of each rank
  entry,   \* frameworks whose entry points are wrapped by an adapter
  known,   \* what the native adapter saw the script construct
  thread,  \* where each thread of each rank is
  lock,    \* owner of each lock of each rank
  group,   \* ranks whose default process group is initialized
  handle,  \* the resiliency handle: its state, its framework, its step_count
  engine   \* training step of the framework's own state

vars == <<auto, entry, known, thread, lock, group, handle, engine>>

(* step is context.checkpoint_step, the same on all ranks of a generation. *)
NewAuto(step) ==
  [step |-> step, selected |-> None, native |-> FALSE, delegate |-> None,
   agreed |-> None, error |-> FALSE, hooked |-> FALSE]
NoHandle == [state |-> None, framework |-> None, step |-> 0]
Idle == [pc |-> "run", snapshot |-> <<None, FALSE>>, framework |-> None]

Init ==
  /\ \E step \in SelectedSteps : auto = [r \in Ranks |-> NewAuto(step)]
  /\ entry = [r \in Ranks |-> {}]
  /\ known = [r \in Ranks |-> None]
  /\ thread = [r \in Ranks |-> [main |-> [Idle EXCEPT !.pc = "boot"], loader |-> Idle]]
  /\ lock = [r \in Ranks |-> [txn |-> None, inference |-> None, attach |-> None]]
  /\ group = {}
  /\ handle = [r \in Ranks |-> NoHandle]
  /\ engine = [r \in Ranks |-> 0]

At(r, t, pc) == thread[r][t].pc = pc
Free(r, name) == lock[r][name] = None
Goto(r, t, pc) == thread' = [thread EXCEPT ![r][t].pc = pc]
Distributed(r) == r \in group
Failed == {r \in Ranks : At(r, "main", "failed")}

(* An exception in the main thread ends the process; the other thread goes *)
(* with it, and so do its locks.                                           *)
Fail(r) ==
  /\ thread' = [thread EXCEPT ![r] = [main |-> [Idle EXCEPT !.pc = "failed"], loader |-> Idle]]
  /\ lock' = [lock EXCEPT ![r] = [txn |-> None, inference |-> None, attach |-> None]]

-----------------------------------------------------------------------------
(* Bootstrap.  What a worker may find: the context file of its agent, one  *)
(* of another generation, node or topology, an expired one, one that names *)
(* a durable checkpoint, or none; and a policy file that is still the one  *)
(* the nodes agreed on, or not.                                            *)
Contexts == {None, "own", "durable", "other generation", "other node",
             "other topology", "expired"}

(* _context_from_environment with SimpleRestartContextFile.read.           *)
ContextIsValid(r, context) ==
  IF auto[r].step = 0 THEN context = None ELSE context \in {"own", "durable"}

(* Built-in adapters refuse a durable source.                              *)
Installs(r, context, policyUnchanged) ==
  ContextIsValid(r, context) /\ policyUnchanged /\ context # "durable"

(* sitecustomize: any failure is os._exit before the user module runs.     *)
Bootstrap(r) ==
  /\ At(r, "main", "boot")
  /\ \E context \in Contexts, policyUnchanged \in BOOLEAN :
       IF Installs(r, context, policyUnchanged)
       THEN /\ auto' = [auto EXCEPT ![r].hooked = TRUE]
            /\ Goto(r, "main", "run") /\ UNCHANGED lock
       ELSE Fail(r) /\ UNCHANGED auto
  /\ UNCHANGED <<entry, known, group, handle, engine>>

-----------------------------------------------------------------------------
(* _run_import: the outermost import of a thread is a transaction.         *)
BeginImport(r, t) ==
  /\ At(r, t, "run") /\ auto[r].hooked
  /\ t = "loader" => r \in LoaderRanks /\ r \notin Failed /\ ~At(r, "main", "boot")
  /\ Free(r, "txn")
  /\ lock' = [lock EXCEPT ![r].txn = t]
  /\ thread' = [thread EXCEPT ![r][t].pc = "import",
                              ![r][t].snapshot = <<auto[r].selected, auto[r].native>>]
  /\ UNCHANGED <<auto, entry, known, group, handle, engine>>

(* Mutant: the lock is released by the main thread only.                   *)
EndImportOfMain(r, t) ==
  /\ At(r, t, "import")
  /\ lock' = IF t = "main" THEN [lock EXCEPT ![r].txn = None] ELSE lock
  /\ thread' = [thread EXCEPT ![r][t] = Idle]
  /\ UNCHANGED <<auto, entry, known, group, handle, engine>>

EndImport(r, t) ==
  /\ At(r, t, "import")
  /\ lock' = [lock EXCEPT ![r].txn = None]
  /\ thread' = [thread EXCEPT ![r][t] = Idle]
  /\ UNCHANGED <<auto, entry, known, group, handle, engine>>

(* An exception leaves the import: one of the module's own, or one of ours *)
(* when the inference refuses the root.                                    *)
ImportRaises(r, t) == Goto(r, t, "rollback")

ModuleFails(r, t) ==
  /\ At(r, t, "import")
  /\ ImportRaises(r, t)
  /\ UNCHANGED <<auto, entry, known, lock, group, handle, engine>>

Refuse(r, t) ==
  /\ auto' = [auto EXCEPT ![r].error = TRUE]
  /\ ImportRaises(r, t)
  /\ UNCHANGED <<entry, known>>

(* _install_tentative_pytorch_locked.                                      *)
InstallTentative(r) ==
  /\ auto' = [auto EXCEPT ![r].native = TRUE]
  /\ entry' = [entry EXCEPT ![r] = @ \cup {Native}]
  /\ known' = [known EXCEPT ![r] = None]

ObserveTorch(r, t) ==
  /\ At(r, t, "import") /\ Free(r, "inference")
  /\ t = "loader" => "torch" \in LoaderRoots
  /\ IF auto[r].selected # None \/ auto[r].native
     THEN UNCHANGED <<auto, entry, known, thread>>
     ELSE IF auto[r].agreed \notin {None, Native} THEN Refuse(r, t)
     ELSE InstallTentative(r) /\ UNCHANGED thread
  /\ UNCHANGED <<lock, group, handle, engine>>

(* _select_specialized_locked up to the question whether the native        *)
(* adapter is attached, which needs the lock of that adapter.              *)
ObserveSpecialized(r, t, f) ==
  /\ At(r, t, "import") /\ Free(r, "inference")
  /\ t = "loader" => f \in LoaderRoots
  /\ IF \/ auto[r].agreed \notin {None, f}
        \/ auto[r].selected \notin {None, f}
     THEN Refuse(r, t) /\ UNCHANGED lock
     ELSE /\ IF auto[r].selected = f THEN UNCHANGED <<thread, lock>>
             ELSE /\ thread' = [thread EXCEPT ![r][t].pc = "select", ![r][t].framework = f]
                  /\ lock' = [lock EXCEPT ![r].inference = t]
          /\ UNCHANGED <<auto, entry, known>>
  /\ UNCHANGED <<group, handle, engine>>

SelectSpecialized(r, t) ==
  /\ At(r, t, "select")
  /\ auto[r].native => lock[r].attach \in {None, t}
  /\ lock' = [lock EXCEPT ![r].inference = None]
  /\ IF auto[r].native /\ handle[r].state = "open" THEN Refuse(r, t)
     ELSE LET f == thread[r][t].framework
          IN  \/ /\ auto' = [auto EXCEPT ![r].native = FALSE, ![r].selected = f,
                                         ![r].delegate = f]
                 /\ entry' = [entry EXCEPT ![r] = (@ \ {Native}) \cup {f}]
                 /\ Goto(r, t, "import") /\ UNCHANGED known
              \/ (* the framework lacks the entry point: install raises *)
                 /\ auto' = [auto EXCEPT ![r].native = FALSE]
                 /\ entry' = [entry EXCEPT ![r] = @ \ {Native}]
                 /\ ImportRaises(r, t) /\ UNCHANGED known
  /\ UNCHANGED <<group, handle, engine>>

(* _rollback_import_selection: under the lock, forget what changed since   *)
(* the outermost import began.                                             *)
Rollback(r, t) ==
  /\ At(r, t, "rollback") /\ Free(r, "inference")
  /\ LET before == thread[r][t].snapshot
     IN  IF <<auto[r].selected, auto[r].native>> = before
         THEN Goto(r, t, "unwind") /\ UNCHANGED auto
         ELSE /\ auto' = [auto EXCEPT ![r].delegate = None, ![r].native = FALSE,
                                      ![r].selected = before[1], ![r].error = FALSE]
              /\ Goto(r, t, "closing")
  /\ UNCHANGED <<entry, known, lock, group, handle, engine>>

CloseHandle(r) ==
  handle' = [handle EXCEPT ![r].state = IF @ = "open" THEN "closed" ELSE @]

(* ... then close the adapters that were forgotten, and watch PyTorch      *)
(* again with a new adapter if it was watched before.                      *)
CloseForgotten(r, t) ==
  /\ At(r, t, "closing") /\ lock[r].attach \in {None, t}
  /\ CloseHandle(r)
  /\ IF thread[r][t].snapshot = <<None, TRUE>> /\ auto[r].selected = None
        /\ ~auto[r].native /\ auto[r].agreed \in {None, Native}
     THEN /\ auto' = [auto EXCEPT ![r].native = TRUE]
          /\ entry' = [entry EXCEPT ![r] = {Native}]
          /\ known' = [known EXCEPT ![r] = None]
     ELSE entry' = [entry EXCEPT ![r] = {}] /\ UNCHANGED <<auto, known>>
  /\ Goto(r, t, "unwind")
  /\ UNCHANGED <<lock, group, engine>>

(* The exception reaches the script, which catches it or not.              *)
Unwind(r, t) ==
  /\ At(r, t, "unwind")
  /\ \/ /\ lock' = [lock EXCEPT ![r].txn = None]
        /\ thread' = [thread EXCEPT ![r][t] = Idle]
     \/ t = "main" /\ Fail(r)
  /\ UNCHANGED <<auto, entry, known, group, handle, engine>>

-----------------------------------------------------------------------------
(* _agree_framework_cohort, in the wrapped init_process_group.  It waits   *)
(* for imports in flight and keeps them out until the gather is over.      *)
InitProcessGroup(r) ==
  /\ At(r, "main", "run") /\ ~Distributed(r)
  /\ Free(r, "txn") /\ Free(r, "inference")
  /\ group' = group \cup {r}
  /\ IF auto[r].error THEN Fail(r)
     ELSE lock' = [lock EXCEPT ![r].txn = "main"] /\ Goto(r, "main", "gather")
  /\ UNCHANGED <<auto, entry, known, handle, engine>>

(* _framework_candidate_locked.                                            *)
Candidate(r) ==
  IF auto[r].selected # None THEN auto[r].selected
  ELSE IF auto[r].native THEN Native ELSE None

(* Mutant: one rank that uses the framework is enough.                     *)
SomeoneUses(f) == f # None /\ \E r \in Ranks : Candidate(r) = f

Unanimous(f) == f # None /\ \A r \in Ranks : Candidate(r) = f

Gather ==
  /\ \A r \in Ranks : At(r, "main", "gather")
  /\ IF \E f \in Specialized \cup {Native} : Unanimous(f)
     THEN /\ auto' = [r \in Ranks |-> [auto[r] EXCEPT !.agreed = Candidate(r)]]
          /\ thread' = [r \in Ranks |-> [thread[r] EXCEPT !.main.pc = "run"]]
          /\ lock' = [r \in Ranks |-> [lock[r] EXCEPT !.txn = None]]
     ELSE /\ auto' = [r \in Ranks |-> [auto[r] EXCEPT !.error = TRUE]]
          /\ thread' = [r \in Ranks |-> [main |-> [Idle EXCEPT !.pc = "failed"], loader |-> Idle]]
          /\ lock' = [r \in Ranks |-> [txn |-> None, inference |-> None, attach |-> None]]
  /\ UNCHANGED <<entry, known, group, handle, engine>>

-----------------------------------------------------------------------------
(* The script builds a model with its optimizer inside the wrapped         *)
(* constructors (DDP, FSDP, Optimizer); a second pair is ambiguous.        *)
Construct(r) ==
  /\ At(r, "main", "run") /\ Native \in entry[r] /\ known[r] # "ambiguous"
  /\ known' = [known EXCEPT ![r] = IF @ = None THEN "pair" ELSE "ambiguous"]
  /\ UNCHANGED <<auto, entry, thread, lock, group, handle, engine>>

(* _before_framework_attach, and then on to _attach.                       *)
BeforeAttach(r, f) ==
  /\ Free(r, "inference")
  /\ IF auto[r].error \/ (Distributed(r) /\ auto[r].agreed # f)
     THEN auto' = [auto EXCEPT ![r].error = TRUE] /\ Fail(r)
     ELSE /\ thread' = [thread EXCEPT ![r].main.pc = "attach", ![r].main.framework = f]
          /\ UNCHANGED <<auto, lock>>

(* Entry points of Megatron, DeepSpeed and TorchTitan, which initialize    *)
(* the process group themselves.                                           *)
SpecializedEntry(r, f) ==
  /\ At(r, "main", "run") /\ f \in entry[r] /\ Distributed(r)
  /\ BeforeAttach(r, f)
  /\ UNCHANGED <<entry, known, group, handle, engine>>

(* module_call: alone, or in a group of all ranks.                         *)
Forward(r) ==
  /\ At(r, "main", "run") /\ Native \in entry[r] /\ handle[r].state # "open"
  /\ IF ~Distributed(r)
     THEN IF known[r] = "pair" THEN BeforeAttach(r, Native) ELSE Fail(r) /\ UNCHANGED auto
     ELSE /\ IF known[r] = None THEN Fail(r)
             ELSE Goto(r, "main", "vote") /\ UNCHANGED lock
          /\ UNCHANGED auto
  /\ UNCHANGED <<entry, known, group, handle, engine>>

(* _agree_distributed_candidate: MIN over all ranks, then _attach.         *)
Vote ==
  /\ \A r \in Ranks : At(r, "main", "vote")
  /\ thread' = [r \in Ranks |-> [thread[r] EXCEPT !.main =
       [Idle EXCEPT !.pc = IF \A q \in Ranks : known[q] = "pair" THEN "voted" ELSE "failed"]]]
  /\ UNCHANGED <<auto, entry, known, lock, group, handle, engine>>

Voted(r) ==
  /\ At(r, "main", "voted")
  /\ BeforeAttach(r, Native)
  /\ UNCHANGED <<entry, known, group, handle, engine>>

(* _attach under the lock of the adapter.  An adapter closed meanwhile has *)
(* no context any more, which an assertion of _enable notices.             *)
BeginAttach(r) ==
  /\ At(r, "main", "attach") /\ Free(r, "attach")
  /\ IF thread[r].main.framework \in entry[r]
     THEN lock' = [lock EXCEPT ![r].attach = "main"] /\ Goto(r, "main", "enable")
     ELSE Fail(r)
  /\ UNCHANGED <<auto, entry, known, group, handle, engine>>

(* The imports of _enable pass through the hook like any other.            *)
EnableImports(r) ==
  /\ At(r, "main", "enable")
  /\ auto[r].hooked => Free(r, "txn")
  /\ Goto(r, "main", "collectives")
  /\ UNCHANGED <<auto, entry, known, lock, group, handle, engine>>

(* enable_resiliency of the integration, with its collectives.  It loads   *)
(* the selected step or fails; _validate_recovery looks at what it loaded. *)
Enabled(r) ==
  /\ At(r, "main", "collectives")
  /\ Distributed(r) => \A q \in Ranks : \/ At(q, "main", "collectives")
                                        \/ handle[q].state # None
  /\ \E recovered \in {auto[r].step, 0} :
       IF auto[r].step > 0 => recovered = auto[r].step
       THEN /\ handle' = [handle EXCEPT ![r] =
                 [state |-> "open", framework |-> thread[r].main.framework,
                  step |-> IF auto[r].step > 0 THEN recovered ELSE engine[r]]]
            /\ engine' = [engine EXCEPT ![r] = IF auto[r].step > 0 THEN recovered ELSE @]
            /\ entry' = [entry EXCEPT ![r] = @ \ {thread[r].main.framework}]
            /\ lock' = [lock EXCEPT ![r].attach = None]
            /\ Goto(r, "main", "attached")
       ELSE Fail(r) /\ UNCHANGED <<handle, engine, entry>>
  /\ UNCHANGED <<auto, known, group>>

(* _native_attached, _specialized_attached: imports are watched no more.   *)
OnAttach(r) ==
  /\ At(r, "main", "attached") /\ Free(r, "inference")
  /\ LET f == thread[r].main.framework
         stands == IF f = Native THEN auto[r].native ELSE auto[r].selected = f
     IN  IF stands
         THEN /\ auto' = [auto EXCEPT ![r].native = FALSE, ![r].selected = f,
                                      ![r].delegate = f, ![r].hooked = FALSE]
              /\ thread' = [thread EXCEPT ![r].main = Idle] /\ UNCHANGED lock
         ELSE Fail(r) /\ UNCHANGED auto
  /\ UNCHANGED <<entry, known, group, handle, engine>>

(* A collective of a rank whose peer is gone fails.                        *)
PeerGone(r) ==
  /\ \E pc \in {"gather", "vote", "collectives"} : At(r, "main", pc)
  /\ Failed # {}
  /\ Fail(r)
  /\ UNCHANGED <<auto, entry, known, group, handle, engine>>

-----------------------------------------------------------------------------
(* After the attachment.                                                   *)
TrainStep(r) ==
  /\ At(r, "main", "run") /\ handle[r].state = "open" /\ engine[r] < MaxStep
  /\ engine' = [engine EXCEPT ![r] = @ + 1]
  /\ handle' = [handle EXCEPT ![r].step = @ + 1]
  /\ UNCHANGED <<auto, entry, known, thread, lock, group>>

(* Mutant: any load before the first step of this generation is allowed.   *)
LoadAllowedBeforeTraining(r) == handle[r].step = auto[r].step

(* wrapped_load_checkpoint of the DeepSpeed engine: refused after a        *)
(* recovery, and in generation 0 once a step was made.                     *)
LoadAllowed(r) == auto[r].step = 0 /\ handle[r].step = 0

LoadCheckpoint(r) ==
  /\ At(r, "main", "run")
  /\ handle[r].state = "open" /\ handle[r].framework = "deepspeed"
  /\ IF LoadAllowed(r)
     THEN \E s \in 1..MaxStep : /\ engine' = [engine EXCEPT ![r] = s]
                                /\ handle' = [handle EXCEPT ![r].step = s]
                                /\ UNCHANGED <<thread, lock>>
     ELSE Fail(r) /\ UNCHANGED <<engine, handle>>
  /\ UNCHANGED <<auto, entry, known, group>>

(* _close_before_teardown at the teardown boundary of the framework.       *)
Teardown(r) ==
  /\ At(r, "main", "run") /\ handle[r].state = "open" /\ Free(r, "attach")
  /\ CloseHandle(r)
  /\ Goto(r, "main", "done")
  /\ UNCHANGED <<auto, entry, known, lock, group, engine>>

-----------------------------------------------------------------------------
ImportStep(r, t) ==
  \/ EndImport(r, t) \/ ModuleFails(r, t) \/ ObserveTorch(r, t)
  \/ \E f \in Specialized : ObserveSpecialized(r, t, f)

(* Steps the code takes by itself, in the imports and at an attachment.    *)
ImportCode(r, t) ==
  SelectSpecialized(r, t) \/ Rollback(r, t) \/ CloseForgotten(r, t) \/ Unwind(r, t)

AttachCode(r) ==
  \/ Voted(r) \/ BeginAttach(r) \/ EnableImports(r) \/ Enabled(r) \/ OnAttach(r)
  \/ PeerGone(r)

ScriptStep(r) ==
  \/ Bootstrap(r)
  \/ \E t \in Threads : BeginImport(r, t) \/ ImportStep(r, t)
  \/ InitProcessGroup(r) \/ Construct(r) \/ Forward(r)
  \/ \E f \in Specialized : SpecializedEntry(r, f)
  \/ TrainStep(r) \/ LoadCheckpoint(r) \/ Teardown(r)

Next ==
  \/ \E r \in Ranks : \/ AttachCode(r) \/ ScriptStep(r)
                      \/ \E t \in Threads : ImportCode(r, t)
  \/ Gather \/ Vote

ThreadCode(r, t) ==
  \/ t = "main" /\ AttachCode(r)
  \/ ImportCode(r, t) \/ EndImport(r, t) \/ ModuleFails(r, t)

(* What waits for a lock that imports of another thread take and release.   *)
WaitsForImports(r) == Voted(r) \/ EnableImports(r) \/ OnAttach(r)

(* Threads run on, an import ends, and a thread that waits for a lock gets *)
(* it when it is free again and again; what the script calls is its own.   *)
Spec ==
  /\ Init /\ [][Next]_vars
  /\ \A r \in Ranks : WF_vars(ThreadCode(r, "main"))
  /\ \A r \in LoaderRanks : SF_vars(WaitsForImports(r)) /\ WF_vars(ThreadCode(r, "loader"))
  /\ WF_vars(Gather \/ Vote)

-----------------------------------------------------------------------------
(* Ranks of one process group that protect their training use the same     *)
(* framework integration, so their attachment and checkpoint collectives   *)
(* match, whatever each of them imported, in which order, and which of its *)
(* imports failed (_agree_framework_cohort, _before_framework_attach).     *)
SameFramework ==
  \A a, b \in group \ Failed :
    (handle[a].state = "open" /\ handle[b].state = "open")
      => \/ handle[a].framework = handle[b].framework
         \/ \E r \in {a, b} : At(r, "main", "gather")

(* The step counter that names checkpoints is the step the framework's     *)
(* state is really at, and a successor generation never goes below the     *)
(* step its plan selected (_validate_recovery, wrapped_load_checkpoint).   *)
CountsTheStateItHas ==
  \A r \in Ranks \ Failed : handle[r].state = "open" =>
    handle[r].step = engine[r] /\ engine[r] >= auto[r].step

(* A rank whose attachment goes on: it may wait in a collective only for a *)
(* peer whose script has not come to its own entry point.                  *)
StillInScript(q) ==
  /\ handle[q].state = None
  /\ \E pc \in {"boot", "run", "import", "select", "rollback", "closing", "unwind"} :
       At(q, "main", pc)

Attaching(r) == \E pc \in {"attach", "enable", "collectives", "attached"} : At(r, "main", pc)

Settled(r) ==
  \/ ~Attaching(r)
  \/ At(r, "main", "collectives") /\ \E q \in Ranks : StillInScript(q)

(* The two threads of a rank each wait for the other: the main thread has  *)
(* the adapter's lock and its imports wait for the import lock; the other  *)
(* thread has that one and asks the adapter whether it is attached, or     *)
(* closes it after an import that failed.                                  *)
LocksCrossed(r) ==
  /\ At(r, "main", "enable") /\ lock[r].attach = "main" /\ lock[r].txn = "loader"
  /\ (At(r, "loader", "select") /\ auto[r].native) \/ At(r, "loader", "closing")
=============================================================================
