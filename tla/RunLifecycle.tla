---------------------------- MODULE RunLifecycle ----------------------------
(***************************************************************************)
(* The life of a pipeline run: the trigger that creates its database rows  *)
(* (webapp/runner.py), the background thread that executes it, the cancel  *)
(* and delete requests (webapp/views/runs.py), and the workers that serve  *)
(* them, crash, and repair the database when they boot (webapp/apps.py).   *)
(*                                                                         *)
(* Every ORM query autocommits (there is no ATOMIC_REQUESTS), so a handler *)
(* is a sequence of atomic steps: one per query, and one per access to the *)
(* registry of cancel events and subprocesses that each worker keeps in    *)
(* its own memory.  A run's trigger and its thread never overlap, so one   *)
(* program counter, pc[r], covers both.                                    *)
(***************************************************************************)
EXTENDS Naturals, FiniteSets

CONSTANTS
  Runs,        \* the runs that may ever be triggered
  Workers,     \* gunicorn worker processes
  Cancellers,  \* cancel requests that can be in progress at once
  N,           \* number of pipeline stages; stage N + 1 is the notify stage
  AutoPkg,     \* the stage that registers its subprocess for cancellation
  NoWorker,    \* home of a run nobody has triggered
  MaxCrashes,  \* bound on worker crashes
  MaxDbErrors  \* bound on queries that raise (SQLite: database is locked)

ASSUME LifecycleAssumption ==
  /\ N \in Nat \ {0}
  /\ AutoPkg \in 1..N
  /\ IsFiniteSet(Workers) /\ NoWorker \notin Workers
  /\ MaxCrashes \in Nat
  /\ MaxDbErrors \in Nat

VARIABLES
  \* the database, shared by all workers
  run,         \* Run.status
  task,        \* status of the run's Task
  stage,       \* StageExecution.status, per run and stage
  \* the trigger or thread of each run
  pc, k,       \* next step; current stage
  outcome,     \* final_status: TRUE for 'success'
  home,        \* the worker that executes it
  \* the registry in the home worker's memory, and what it refers to
  registered,  \* _cancel_events has the run
  signal,      \* 0, or the stage the thread was in when its event was set
  procReg,     \* _active_procs has the run
  proc,        \* the autopkg child process
  \* the other processes
  worker,      \* life cycle of each worker
  cancel,      \* cancel requests
  deleting,    \* per run, the worker where a delete has collected its row
  crashes, dbErrors

thread == <<pc, k, outcome, home>>
registry == <<registered, signal, procReg, proc>>
db == <<run, task, stage>>
faults == <<crashes, dbErrors>>
requests == <<cancel, deleting>>
vars == <<db, thread, registry, worker, requests, faults>>

-----------------------------------------------------------------------------
Stages == 1..(N + 1)
Active == {"pending", "running"}            \* also the 'stale' of apps.py
Settled == {"success", "failed", "cancelled"}

TriggerPC == {"create", "createTask"}
ThreadPC == {"register", "start", "startTask", "setup", "check", "begin",
             "work", "popen", "wait", "reaped", "unregister", "finalRun", "finalTask"}
CancelPC == {"idle", "stages", "save", "lookup", "set", "terminate"}
WorkerPC == {"down", "boot", "markStages", "markRuns", "markTasks", "up"}

CancelState == [pc : CancelPC, run : Runs \cup {"none"}, at : Workers \cup {NoWorker},
                event : BOOLEAN, proc : BOOLEAN]
IdleCancel == [pc |-> "idle", run |-> "none", at |-> NoWorker,
               event |-> FALSE, proc |-> FALSE]

Exists(r) == run[r] \notin {"none", "deleted"}
SomeRunActive == \E r \in Runs : run[r] \in Active
InFlight(r) == pc[r] \in TriggerPC \cup ThreadPC

TypeOK ==
  /\ run \in [Runs -> {"none", "deleted"} \cup Active \cup Settled]
  /\ task \in [Runs -> {"none", "pending", "running", "success", "failed"}]
  /\ stage \in [Runs -> [Stages -> {"none", "running"} \cup Settled]]
  /\ pc \in [Runs -> {"idle", "done", "dead"} \cup TriggerPC \cup ThreadPC]
  /\ k \in [Runs -> Stages]
  /\ outcome \in [Runs -> BOOLEAN]
  /\ home \in [Runs -> Workers \cup {NoWorker}]
  /\ registered \in [Runs -> BOOLEAN]
  /\ signal \in [Runs -> {0} \cup Stages]
  /\ procReg \in [Runs -> BOOLEAN]
  /\ proc \in [Runs -> {"none", "running", "exited"}]
  /\ worker \in [Workers -> WorkerPC]
  /\ cancel \in [Cancellers -> CancelState]
  /\ deleting \in [Runs -> Workers \cup {NoWorker}]
  /\ \A c \in Cancellers : cancel[c].pc # "idle" => cancel[c].run \in Runs
  /\ crashes \in 0..MaxCrashes
  /\ dbErrors \in 0..MaxDbErrors

Init ==
  /\ run = [r \in Runs |-> "none"]
  /\ task = [r \in Runs |-> "none"]
  /\ stage = [r \in Runs |-> [s \in Stages |-> "none"]]
  /\ pc = [r \in Runs |-> "idle"]
  /\ k = [r \in Runs |-> 1]
  /\ outcome = [r \in Runs |-> TRUE]
  /\ home = [r \in Runs |-> NoWorker]
  /\ registered = [r \in Runs |-> FALSE]
  /\ signal = [r \in Runs |-> 0]
  /\ procReg = [r \in Runs |-> FALSE]
  /\ proc = [r \in Runs |-> "none"]
  /\ worker = [w \in Workers |-> "down"]
  /\ cancel = [c \in Cancellers |-> IdleCancel]
  /\ deleting = [r \in Runs |-> NoWorker]
  /\ crashes = 0
  /\ dbErrors = 0

Goto(r, label) == pc' = [pc EXCEPT ![r] = label]

-----------------------------------------------------------------------------
(* trigger_manual_run: a web request, an API call or the scheduler.        *)

(* The check for an active run; a refused trigger changes nothing.         *)
TriggerCheck(r, w) ==
  /\ pc[r] = "idle"
  /\ worker[w] = "up"
  /\ ~SomeRunActive
  /\ home' = [home EXCEPT ![r] = w]
  /\ Goto(r, "create")
  /\ UNCHANGED <<db, k, outcome, registry, worker, requests, faults>>

CreateRun(r) ==
  /\ pc[r] = "create"
  /\ run' = [run EXCEPT ![r] = "pending"]
  /\ Goto(r, "createTask")
  /\ UNCHANGED <<task, stage, k, outcome, home, registry, worker, requests, faults>>

(* Creates the task and starts the thread.  A run that was cancelled and    *)
(* deleted by now breaks the task's foreign key: the request fails.        *)
CreateTask(r) ==
  /\ pc[r] = "createTask"
  /\ \/ Exists(r) /\ task' = [task EXCEPT ![r] = "pending"] /\ Goto(r, "register")
     \/ ~Exists(r) /\ UNCHANGED task /\ Goto(r, "dead")
  /\ UNCHANGED <<run, stage, k, outcome, home, registry, worker, requests, faults>>

-----------------------------------------------------------------------------
(* _execute_run, the background thread, with Orchestrator.execute inside.  *)

Register(r) ==
  /\ pc[r] = "register"
  /\ registered' = [registered EXCEPT ![r] = TRUE]
  /\ Goto(r, "start")
  /\ UNCHANGED <<db, k, outcome, home, signal, procReg, proc, worker, requests, faults>>

(* The update is unconditional: it does not look at the status it replaces. *)
StartRun(r) ==
  /\ pc[r] = "start"
  /\ run' = [run EXCEPT ![r] = IF Exists(r) THEN "running" ELSE @]
  /\ Goto(r, "startTask")
  /\ UNCHANGED <<task, stage, k, outcome, home, registry, worker, requests, faults>>

StartTask(r) ==
  /\ pc[r] = "startTask"
  /\ task' = [task EXCEPT ![r] = "running"]
  /\ Goto(r, "setup")
  /\ UNCHANGED <<run, stage, k, outcome, home, registry, worker, requests, faults>>

(* Mutant: the failure path returns without the 'finally' block. *)
Setup_NoFinally(r) ==
  /\ pc[r] = "setup"
  /\ \/ /\ Goto(r, "check")
        /\ UNCHANGED outcome
     \/ /\ Goto(r, "done")
        /\ outcome' = [outcome EXCEPT ![r] = FALSE]
  /\ UNCHANGED <<db, k, home, registry, worker, requests, faults>>

(* Reading the configuration and building the stages may raise.            *)
Setup(r) ==
  /\ pc[r] = "setup"
  /\ \/ /\ Goto(r, "check")
        /\ UNCHANGED outcome
     \/ /\ Goto(r, "unregister")
        /\ outcome' = [outcome EXCEPT ![r] = FALSE]
  /\ UNCHANGED <<db, k, home, registry, worker, requests, faults>>

(* Mutant: the flag is looked at once, before the first stage. *)
CheckCancel_FirstStageOnly(r) ==
  /\ pc[r] = "check"
  /\ IF signal[r] # 0 /\ k[r] = 1
     THEN /\ outcome' = [outcome EXCEPT ![r] = FALSE]
          /\ k' = [k EXCEPT ![r] = N + 1]
     ELSE UNCHANGED <<outcome, k>>
  /\ Goto(r, "begin")
  /\ UNCHANGED <<db, home, registry, worker, requests, faults>>

(* Before each pipeline stage the loop looks at the cancel flag; a         *)
(* cancelled pipeline skips to the notify stage.                           *)
CheckCancel(r) ==
  /\ pc[r] = "check"
  /\ IF signal[r] # 0
     THEN /\ outcome' = [outcome EXCEPT ![r] = FALSE]
          /\ k' = [k EXCEPT ![r] = N + 1]
     ELSE UNCHANGED <<outcome, k>>
  /\ Goto(r, "begin")
  /\ UNCHANGED <<db, home, registry, worker, requests, faults>>

(* stage_callback(name, 'running').  If the run was deleted the insert     *)
(* breaks the foreign key, and Orchestrator._notify swallows the error.    *)
BeginStage(r) ==
  /\ pc[r] = "begin"
  /\ stage' = [stage EXCEPT ![r][k[r]] = IF Exists(r) THEN "running" ELSE @]
  /\ Goto(r, "work")
  /\ UNCHANGED <<run, task, k, outcome, home, registry, worker, requests, faults>>

Popen(r) ==
  /\ pc[r] = "work"
  /\ k[r] = AutoPkg
  /\ proc' = [proc EXCEPT ![r] = "running"]
  /\ Goto(r, "popen")
  /\ UNCHANGED <<db, k, outcome, home, registered, signal, procReg, worker, requests, faults>>

RegisterProc(r) ==
  /\ pc[r] = "popen"
  /\ procReg' = [procReg EXCEPT ![r] = TRUE]
  /\ Goto(r, "wait")
  /\ UNCHANGED <<db, k, outcome, home, registered, signal, proc, worker, requests, faults>>

(* The child ends by itself, also after its worker has died.               *)
ProcExit(r) ==
  /\ proc[r] = "running"
  /\ proc' = [proc EXCEPT ![r] = "exited"]
  /\ UNCHANGED <<db, thread, registered, signal, procReg, worker, requests, faults>>

(* RunAutoPkg swallows a non-zero exit code, of a killed child too.        *)
ReapProc(r) ==
  /\ pc[r] = "wait"
  /\ proc[r] = "exited"
  /\ proc' = [proc EXCEPT ![r] = "none"]
  /\ procReg' = [procReg EXCEPT ![r] = FALSE]
  /\ Goto(r, "reaped")
  /\ UNCHANGED <<db, k, outcome, home, registered, signal, worker, requests, faults>>

(* The current stage may be over, ok or not: any stage may raise, also      *)
(* RunAutoPkg before it has started its child.                             *)
StageOver(r, ok) ==
  \/ pc[r] = "work" /\ (k[r] # AutoPkg \/ ~ok)
  \/ pc[r] = "reaped" /\ ok

(* Where the pipeline goes then: a failed stage and the last one are       *)
(* followed by the notify stage, and that one by the 'finally' block.  A   *)
(* failed notification does not fail the run.                              *)
AfterStage(r, ok) ==
  /\ k' = [k EXCEPT ![r] = IF @ > N \/ ~ok THEN N + 1 ELSE @ + 1]
  /\ Goto(r, CASE k[r] = N + 1      -> "unregister"
               [] ok /\ k[r] < N    -> "check"
               [] OTHER             -> "begin")
  /\ outcome' = [outcome EXCEPT ![r] = @ /\ (ok \/ k[r] = N + 1)]

(* Mutant: only a successful stage is reported to the callback. *)
EndStage_SuccessOnly(r) ==
  \E ok \in BOOLEAN :
    /\ StageOver(r, ok)
    /\ stage' = [stage EXCEPT ![r][k[r]] = IF @ = "none" \/ ~ok THEN @ ELSE "success"]
    /\ AfterStage(r, ok)
    /\ UNCHANGED <<run, task, home, registry, worker, requests, faults>>

(* stage_callback(name, 'success' | 'failed') updates the row if there is one. *)
EndStage(r) ==
  \E ok \in BOOLEAN :
    /\ StageOver(r, ok)
    /\ stage' = [stage EXCEPT ![r][k[r]] =
                    IF @ = "none" THEN @ ELSE IF ok THEN "success" ELSE "failed"]
    /\ AfterStage(r, ok)
    /\ UNCHANGED <<run, task, home, registry, worker, requests, faults>>

Unregister(r) ==
  /\ pc[r] = "unregister"
  /\ registered' = [registered EXCEPT ![r] = FALSE]
  /\ procReg' = [procReg EXCEPT ![r] = FALSE]
  /\ Goto(r, "finalRun")
  /\ UNCHANGED <<db, k, outcome, home, signal, proc, worker, requests, faults>>

Final(r) == IF outcome[r] THEN "success" ELSE "failed"

(* Mutant: without exclude(status='cancelled'). *)
FinalRun_NoExclude(r) ==
  /\ pc[r] = "finalRun"
  /\ run' = [run EXCEPT ![r] = IF Exists(r) THEN Final(r) ELSE @]
  /\ Goto(r, "finalTask")
  /\ UNCHANGED <<task, stage, k, outcome, home, registry, worker, requests, faults>>

(* The final status, unless the run was cancelled from outside.            *)
FinalRun(r) ==
  /\ pc[r] = "finalRun"
  /\ run' = [run EXCEPT ![r] = IF Exists(r) /\ @ # "cancelled" THEN Final(r) ELSE @]
  /\ Goto(r, "finalTask")
  /\ UNCHANGED <<task, stage, k, outcome, home, registry, worker, requests, faults>>

(* The thread's last step; its locals, the event among them, go with it.   *)
FinalTask(r) ==
  /\ pc[r] = "finalTask"
  /\ task' = [task EXCEPT ![r] = Final(r)]
  /\ k' = [k EXCEPT ![r] = 1]
  /\ signal' = [signal EXCEPT ![r] = 0]
  /\ Goto(r, "done")
  /\ UNCHANGED <<run, stage, outcome, home, registered, procReg, proc, worker, requests, faults>>

-----------------------------------------------------------------------------
(* RunCancelView.post and cancel_run, request c.                           *)

CancelGoto(c, label) == cancel' = [cancel EXCEPT ![c].pc = label]
CancelEnds(c) == cancel' = [cancel EXCEPT ![c] = IdleCancel]

(* The view fetches the run only if it is active.                          *)
CancelFetch(c, w, r) ==
  /\ cancel[c].pc = "idle"
  /\ worker[w] = "up"
  /\ run[r] \in Active
  /\ cancel' = [cancel EXCEPT ![c] = [IdleCancel EXCEPT !.pc = "stages",
                                                        !.run = r, !.at = w]]
  /\ UNCHANGED <<db, thread, registry, worker, deleting, faults>>

CancelStages(c) ==
  /\ cancel[c].pc = "stages"
  /\ stage' = [stage EXCEPT ![cancel[c].run] =
                 [s \in Stages |-> IF @[s] = "running" THEN "cancelled" ELSE @[s]]]
  /\ CancelGoto(c, "save")
  /\ UNCHANGED <<run, task, thread, registry, worker, deleting, faults>>

(* Mutant: save() without update_fields inserts a row that is gone. *)
CancelSave_AllFields(c) ==
  /\ cancel[c].pc = "save"
  /\ run' = [run EXCEPT ![cancel[c].run] = "cancelled"]
  /\ CancelGoto(c, "lookup")
  /\ UNCHANGED <<task, stage, thread, registry, worker, deleting, faults>>

(* run.save(update_fields=...) writes whatever the row holds by now; if    *)
(* the row is gone it raises and the thread is never signalled.            *)
CancelSave(c) ==
  /\ cancel[c].pc = "save"
  /\ IF run[cancel[c].run] = "deleted"
     THEN UNCHANGED run /\ CancelEnds(c)
     ELSE /\ run' = [run EXCEPT ![cancel[c].run] = "cancelled"]
          /\ CancelGoto(c, "lookup")
  /\ UNCHANGED <<task, stage, thread, registry, worker, deleting, faults>>

(* Mutant: the event is looked up only beside a registered subprocess. *)
CancelLookup_NeedsProc(c) ==
  /\ cancel[c].pc = "lookup"
  /\ LET here == procReg[cancel[c].run] /\ home[cancel[c].run] = cancel[c].at
     IN cancel' = [cancel EXCEPT ![c].pc = "set", ![c].event = here, ![c].proc = here]
  /\ UNCHANGED <<db, thread, registry, worker, deleting, faults>>

(* cancel_run reads the registry of the worker that serves the request.    *)
CancelLookup(c) ==
  /\ cancel[c].pc = "lookup"
  /\ LET r == cancel[c].run
         here == home[r] = cancel[c].at
     IN cancel' = [cancel EXCEPT ![c].pc = "set",
                                 ![c].event = here /\ registered[r],
                                 ![c].proc = here /\ procReg[r]]
  /\ UNCHANGED <<db, thread, registry, worker, deleting, faults>>

CancelSet(c) ==
  /\ cancel[c].pc = "set"
  /\ LET r == cancel[c].run
     IN signal' = [signal EXCEPT ![r] =
                     IF cancel[c].event /\ @ = 0 /\ InFlight(r) THEN k[r] ELSE @]
  /\ CancelGoto(c, "terminate")
  /\ UNCHANGED <<db, thread, registered, procReg, proc, worker, deleting, faults>>

CancelTerminate(c) ==
  /\ cancel[c].pc = "terminate"
  /\ proc' = [proc EXCEPT ![cancel[c].run] =
                IF cancel[c].proc /\ @ = "running" THEN "exited" ELSE @]
  /\ CancelEnds(c)
  /\ UNCHANGED <<db, thread, registered, signal, procReg, worker, deleting, faults>>

(* RunDeleteView.post, and the final delete of the database cleanup, in    *)
(* the worker that serves them.  The queryset's filter is read once, when  *)
(* the rows to delete are collected ...                                    *)
CollectRun(r, w) ==
  /\ worker[w] = "up"
  /\ run[r] \in Settled /\ deleting[r] = NoWorker
  /\ deleting' = [deleting EXCEPT ![r] = w]
  /\ UNCHANGED <<db, thread, registry, worker, cancel, faults>>

(* ... and they are deleted by key, whatever their status is by then: the  *)
(* stage rows cascade, the task stays.                                     *)
DeleteRun(r) ==
  /\ deleting[r] # NoWorker
  /\ deleting' = [deleting EXCEPT ![r] = NoWorker]
  /\ run' = [run EXCEPT ![r] = "deleted"]
  /\ stage' = [stage EXCEPT ![r] = [s \in Stages |-> "none"]]
  /\ UNCHANGED <<task, thread, registry, worker, cancel, faults>>

-----------------------------------------------------------------------------
(* Workers: gunicorn forks them, post_fork repairs the database before the *)
(* worker serves requests.                                                 *)

WorkerGoto(w, label) == worker' = [worker EXCEPT ![w] = label]

(* The master forks a worker at startup and in place of a dead one.        *)
Fork(w) ==
  /\ worker[w] = "down"
  /\ WorkerGoto(w, "boot")
  /\ UNCHANGED <<db, thread, registry, requests, faults>>

(* Mutant: the tasks are repaired only when a run needs repair. *)
MarkCheck_TasksToo(w) ==
  /\ worker[w] = "boot"
  /\ WorkerGoto(w, IF SomeRunActive THEN "markStages" ELSE "up")
  /\ UNCHANGED <<db, thread, registry, requests, faults>>

(* _mark_interrupted_runs: is any run active?                              *)
MarkCheck(w) ==
  /\ worker[w] = "boot"
  /\ WorkerGoto(w, IF SomeRunActive THEN "markStages" ELSE "markTasks")
  /\ UNCHANGED <<db, thread, registry, requests, faults>>

MarkStages(w) ==
  /\ worker[w] = "markStages"
  /\ stage' = [r \in Runs |->
                 [s \in Stages |-> IF run[r] \in Active /\ stage[r][s] = "running"
                                   THEN "failed" ELSE stage[r][s]]]
  /\ WorkerGoto(w, "markRuns")
  /\ UNCHANGED <<run, task, thread, registry, requests, faults>>

(* Mutant: a run that never got past 'pending' is forgotten. *)
MarkRuns_RunningOnly(w) ==
  /\ worker[w] = "markRuns"
  /\ run' = [r \in Runs |-> IF run[r] = "running" THEN "failed" ELSE run[r]]
  /\ WorkerGoto(w, "markTasks")
  /\ UNCHANGED <<task, stage, thread, registry, requests, faults>>

(* Mutant: no filter on the status. *)
MarkRuns_All(w) ==
  /\ worker[w] = "markRuns"
  /\ run' = [r \in Runs |-> IF Exists(r) THEN "failed" ELSE run[r]]
  /\ WorkerGoto(w, "markTasks")
  /\ UNCHANGED <<task, stage, thread, registry, requests, faults>>

MarkRuns(w) ==
  /\ worker[w] = "markRuns"
  /\ run' = [r \in Runs |-> IF run[r] \in Active THEN "failed" ELSE run[r]]
  /\ WorkerGoto(w, "markTasks")
  /\ UNCHANGED <<task, stage, thread, registry, requests, faults>>

MarkTasks(w) ==
  /\ worker[w] = "markTasks"
  /\ task' = [r \in Runs |-> IF task[r] \in Active THEN "failed" ELSE task[r]]
  /\ WorkerGoto(w, "up")
  /\ UNCHANGED <<run, stage, thread, registry, requests, faults>>

(* The process dies: its threads, their locals, the requests it serves and *)
(* its registry go with it; the child process does not.                    *)
Crash(w) ==
  /\ crashes < MaxCrashes
  /\ worker[w] # "down"
  /\ crashes' = crashes + 1
  /\ WorkerGoto(w, "down")
  /\ LET killed(r) == home[r] = w /\ InFlight(r)
     IN /\ pc' = [r \in Runs |-> IF killed(r) THEN "dead" ELSE pc[r]]
        /\ k' = [r \in Runs |-> IF killed(r) THEN 1 ELSE k[r]]
        /\ outcome' = [r \in Runs |-> IF killed(r) THEN TRUE ELSE outcome[r]]
        /\ signal' = [r \in Runs |-> IF killed(r) THEN 0 ELSE signal[r]]
  /\ registered' = [r \in Runs |-> registered[r] /\ home[r] # w]
  /\ procReg' = [r \in Runs |-> procReg[r] /\ home[r] # w]
  /\ cancel' = [c \in Cancellers |-> IF cancel[c].at = w THEN IdleCancel ELSE cancel[c]]
  /\ deleting' = [r \in Runs |-> IF deleting[r] = w THEN NoWorker ELSE deleting[r]]
  /\ UNCHANGED <<db, home, proc, dbErrors>>

-----------------------------------------------------------------------------
(* A query raises, e.g. OperationalError: database is locked.              *)

(* In the trigger it ends the request; in the body of the thread it leads  *)
(* to the 'finally' block; in a stage callback it is swallowed; in the     *)
(* 'finally' block it ends the thread.                                     *)
RunQueryFails(r) ==
  /\ dbErrors < MaxDbErrors
  /\ dbErrors' = dbErrors + 1
  /\ \/ /\ pc[r] \in {"create", "createTask", "finalRun", "finalTask"}
        /\ Goto(r, "dead")
        /\ UNCHANGED <<k, outcome>>
     \/ /\ pc[r] \in {"start", "startTask"}
        /\ Goto(r, "unregister")
        /\ outcome' = [outcome EXCEPT ![r] = FALSE]
        /\ UNCHANGED k
     \/ /\ pc[r] = "begin"
        /\ Goto(r, "work")
        /\ UNCHANGED <<k, outcome>>
     \/ \E ok \in BOOLEAN : StageOver(r, ok) /\ AfterStage(r, ok)
  /\ UNCHANGED <<db, home, registry, worker, requests, crashes>>

(* A cancel or delete request ends with an error page.  At boot            *)
(* OperationalError is taken for a missing table and the rest of the       *)
(* repair is skipped.                                                      *)
OtherQueryFails ==
  /\ dbErrors < MaxDbErrors
  /\ dbErrors' = dbErrors + 1
  /\ \/ /\ \E c \in Cancellers : cancel[c].pc \in {"stages", "save"} /\ CancelEnds(c)
        /\ UNCHANGED <<worker, deleting>>
     \/ /\ \E r \in Runs : /\ deleting[r] # NoWorker
                           /\ deleting' = [deleting EXCEPT ![r] = NoWorker]
        /\ UNCHANGED <<worker, cancel>>
     \/ /\ \E w \in Workers :
             worker[w] \in {"boot", "markStages", "markRuns", "markTasks"} /\ WorkerGoto(w, "up")
        /\ UNCHANGED requests
  /\ UNCHANGED <<db, thread, registry, crashes>>

-----------------------------------------------------------------------------
RunStep(r) ==
  \/ CreateRun(r) \/ CreateTask(r)
  \/ Register(r) \/ StartRun(r) \/ StartTask(r) \/ Setup(r)
  \/ CheckCancel(r) \/ BeginStage(r)
  \/ Popen(r) \/ RegisterProc(r) \/ ReapProc(r) \/ EndStage(r)
  \/ Unregister(r) \/ FinalRun(r) \/ FinalTask(r)

CancelStep(c) ==
  \/ CancelStages(c) \/ CancelSave(c) \/ CancelLookup(c)
  \/ CancelSet(c) \/ CancelTerminate(c)

BootStep(w) ==
  Fork(w) \/ MarkCheck(w) \/ MarkStages(w) \/ MarkRuns(w) \/ MarkTasks(w)

Next ==
  \/ \E r \in Runs, w \in Workers : TriggerCheck(r, w) \/ CollectRun(r, w)
  \/ \E r \in Runs : RunStep(r) \/ ProcExit(r) \/ DeleteRun(r) \/ RunQueryFails(r)
  \/ \E c \in Cancellers, w \in Workers, r \in Runs : CancelFetch(c, w, r)
  \/ \E c \in Cancellers : CancelStep(c)
  \/ \E w \in Workers : BootStep(w) \/ Crash(w)
  \/ OtherQueryFails

(* A thread and a cancel run on while their process lives, gunicorn        *)
(* replaces a dead worker, and autopkg ends; users, crashes and errors     *)
(* need never come.                                                        *)
Fairness ==
  /\ \A r \in Runs : WF_vars(RunStep(r)) /\ WF_vars(ProcExit(r))
  /\ \A c \in Cancellers : WF_vars(CancelStep(c))
  /\ \A w \in Workers : WF_vars(BootStep(w))

Spec == Init /\ [][Next]_vars
FairSpec == Spec /\ Fairness

-----------------------------------------------------------------------------
(* What the code guarantees.                                               *)

Repairing(r, labels) == home[r] \in Workers /\ worker[home[r]] \in labels

(* As long as no query has failed, a Run row is never left pending or      *)
(* running for good: its trigger or thread is still alive in some worker,  *)
(* or the worker that died with it has yet to repair it when it boots      *)
(* (apps.py, _mark_interrupted_runs).  An orphan would refuse every later  *)
(* trigger.                                                                *)
NoOrphanRun ==
  dbErrors = 0 =>
    \A r \in Runs : run[r] \in Active =>
      InFlight(r) \/ Repairing(r, {"down", "boot", "markStages", "markRuns"})

(* The same of the Task rows that API clients poll: no task is left        *)
(* pending or running without a thread that will settle it or a boot that  *)
(* will, also when the crash falls between the two final updates.          *)
NoOrphanTask ==
  dbErrors = 0 =>
    \A r \in Runs : task[r] \in Active =>
      InFlight(r) \/ Repairing(r, WorkerPC \ {"up"})

(* When a thread has ended in order, its task holds its outcome, and the   *)
(* run holds the same one unless it was cancelled or deleted: boots of     *)
(* other workers and cancel requests in flight cannot tear them apart.     *)
RunAndTaskAgree ==
  \A r \in Runs : pc[r] = "done" =>
    /\ task[r] = Final(r)
    /\ run[r] \in {Final(r), "cancelled", "deleted"}

(* Whatever cancels, boots or fails meanwhile, a thread that ends in order *)
(* leaves no stage of its run open.                                        *)
NoOpenStageAfterThread ==
  dbErrors = 0 =>
    \A r \in Runs, s \in Stages : pc[r] = "done" => stage[r][s] # "running"

(* Once the thread has marked its run as running, 'cancelled' is final:    *)
(* neither its own last update nor the repair of a booting worker replaces *)
(* it (runner.py:186-188).                                                 *)
CancelledStays ==
  [][\A r \in Runs : run[r] = "cancelled" /\ pc[r] # "start"
                       => run'[r] \in {"cancelled", "deleted"}]_vars

(* How far the execution of a run has come, and what it has reported, for  *)
(* RunRecord.                                                              *)
PhaseOf(r) ==
  CASE pc[r] \in {"idle", "create", "createTask", "register", "start"} -> "waiting"
    [] pc[r] = "finalTask" -> "reported"
    [] pc[r] \in {"done", "dead"} -> "over"
    [] OTHER -> "executing"
ResultOf(r) == IF pc[r] \in {"finalTask", "done"} THEN Final(r) ELSE "none"

Record == INSTANCE RunRecord WITH
  phase <- [r \in Runs |-> PhaseOf(r)], result <- [r \in Runs |-> ResultOf(r)],
  doomed <- {r \in Runs : deleting[r] # NoWorker}

(* Whatever crashes, fails, is cancelled or repaired meanwhile, the rows   *)
(* of runs and tasks change only as RunRecord says.  Of a deletion it says *)
(* only that the run was settled when the deletion was granted: it may be  *)
(* active again when its row goes.                                         *)
ImplementsRecord == Record!Spec

(* A set cancel event stops the pipeline: no pipeline stage beyond the one *)
(* the thread was in (or about to enter) when the event was set is begun   *)
(* (orchestrator.py:55-56).                                                *)
SignalStopsPipeline ==
  \A r \in Runs :
    signal[r] # 0 /\ k[r] <= N /\ pc[r] \in {"begin", "work", "popen", "wait", "reaped"}
      => k[r] <= signal[r]

(* With one worker process, a run whose row stays 'cancelled' while its    *)
(* pipeline executes has been signalled, or the request that cancelled it  *)
(* is about to do so.  It depends on registering before marking the run    *)
(* running, and on saving before looking the event up.                     *)
BeingSignalled(r) ==
  \E c \in Cancellers :
    cancel[c].run = r /\ (cancel[c].pc = "lookup" \/ (cancel[c].pc = "set" /\ cancel[c].event))

Executing(r) == pc[r] \in ThreadPC \ {"register", "start", "unregister", "finalRun", "finalTask"}

CancelledIsSignalled ==
  \A r \in Runs : run[r] = "cancelled" /\ Executing(r) => signal[r] # 0 \/ BeingSignalled(r)

SingleWorkerCancelledIsSignalled ==
  Cardinality(Workers) = 1 => CancelledIsSignalled

(* Every run that becomes active leaves that status again, through crashes *)
(* and cancellations, so that the trigger is not refused for ever.         *)
RunsSettle == \A r \in Runs : run[r] \in Active ~> run[r] \notin Active

-----------------------------------------------------------------------------
(* What the comments and docs say, and the code does not keep.             *)

(* runner.py:63-64: "only one run may be active at a time".                *)
OneActiveRun ==
  \A r1, r2 \in Runs : run[r1] \in Active /\ run[r2] \in Active => r1 = r2

=============================================================================
