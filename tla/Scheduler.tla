----------------------------- MODULE Scheduler ------------------------------
(***************************************************************************)
(* Who fires the scheduled runs (webapp/scheduler.py).  Every gunicorn     *)
(* worker that boots tries to take scheduler.lock, and the one that gets   *)
(* it starts an APScheduler with the job of the stored schedule            *)
(* (_start_services_in_worker in webapp/apps.py, called by post_fork).     *)
(* Saving the schedule (ScheduleView.post in webapp/views/schedule.py)     *)
(* calls reschedule_job in whichever worker happens to serve the request.  *)
(*                                                                         *)
(* What a job does when it fires is trigger_manual_run, see RunLifecycle.  *)
(***************************************************************************)
EXTENDS Naturals, FiniteSets

CONSTANTS
  Workers, Requests,
  Crons,        \* schedules that can be enabled
  Off, Invalid, \* disabled; enabled, with a field that APScheduler rejects
  NoWorker, NoJob,
  MaxFaults     \* bound on crashes of workers and queries that raise

ASSUME SchedulerAssumption ==
  /\ NoWorker \notin Workers /\ Workers \cap Requests = {}
  /\ NoJob \notin Crons /\ Off \notin Crons /\ Invalid \notin Crons
  /\ IsFiniteSet(Requests) /\ Requests # {}
  /\ MaxFaults \in Nat

VARIABLES
  stored,   \* the Schedule row
  lock,     \* the worker whose process holds scheduler.lock
  up,       \* the workers that serve requests
  current,  \* _scheduler of each worker: its latest instance, 0 if None
  running,  \* the instances that have been started
  job,      \* their job 'autopkg_scheduled_run'
  pc, on,   \* threads that execute reschedule_job, and in which worker
  mine,     \* their local variable 'scheduler'
  seen,     \* the schedule they have read
  saver,    \* history: the worker that served the last save
  overlap,  \* history: two requests have been in one worker at once
  strayed,  \* history: a save was served by a worker without the lock
  faults

process == <<lock, up>>
scheduler == <<current, running, job>>
thread == <<pc, on, mine, seen>>
history == <<saver, overlap, strayed>>
schedulerVars == <<stored, process, scheduler, thread, history, faults>>

Schedules == Crons \cup {Off, Invalid}

(* A worker that boots executes reschedule_job itself.                     *)
Threads == Requests \cup Workers

(* A worker has several instances when several threads have found that     *)
(* _scheduler is None.                                                     *)
Instances == 1..Cardinality(Requests)
PC == {"idle", "fork", "lock", "get", "create", "return", "check", "start", "remove", "read", "add"}

SchedulerTypeOK ==
  /\ stored \in Schedules
  /\ lock \in Workers \cup {NoWorker}
  /\ up \subseteq Workers
  /\ current \in [Workers -> {0} \cup Instances]
  /\ running \in [Workers -> SUBSET Instances]
  /\ job \in [Workers -> [Instances -> Crons \cup {NoJob}]]
  /\ pc \in [Threads -> PC]
  /\ on \in [Threads -> Workers \cup {NoWorker}]
  /\ mine \in [Threads -> {0} \cup Instances]
  /\ \A t \in Threads : pc[t] \in {"check", "start", "remove", "read", "add"} => mine[t] # 0
  /\ seen \in [Threads -> Schedules]
  /\ saver \in Workers \cup {NoWorker} /\ overlap \in BOOLEAN /\ strayed \in BOOLEAN
  /\ faults \in 0..MaxFaults

SchedulerInit ==
  /\ stored = Off
  /\ lock = NoWorker /\ up = {}
  /\ current = [w \in Workers |-> 0]
  /\ running = [w \in Workers |-> {}]
  /\ job = [w \in Workers |-> [k \in Instances |-> NoJob]]
  /\ pc = [t \in Threads |-> IF t \in Workers THEN "fork" ELSE "idle"]
  /\ on = [t \in Threads |-> IF t \in Workers THEN t ELSE NoWorker]
  /\ mine = [t \in Threads |-> 0]
  /\ seen = [t \in Threads |-> Off]
  /\ saver = NoWorker /\ overlap = FALSE /\ strayed = FALSE
  /\ faults = 0

ThreadGoto(t, label) == pc' = [pc EXCEPT ![t] = label]
Fault == faults < MaxFaults /\ faults' = faults + 1

(* The thread has left reschedule_job: the request is answered, or the     *)
(* worker has booted.                                                      *)
End(t) ==
  /\ ThreadGoto(t, "idle")
  /\ mine' = [mine EXCEPT ![t] = 0]
  /\ seen' = [seen EXCEPT ![t] = Off]
  /\ IF t \in Workers
     THEN up' = up \cup {t} /\ UNCHANGED on
     ELSE on' = [on EXCEPT ![t] = NoWorker] /\ UNCHANGED up
  /\ UNCHANGED lock

-----------------------------------------------------------------------------
(* Worker processes.                                                       *)

(* gunicorn forks a worker, the first or in place of one that died; what   *)
(* post_fork does before the lock (mark the runs, warm the caches) is not  *)
(* part of this module.                                                    *)
Fork(w) ==
  /\ pc[w] = "fork"
  /\ ThreadGoto(w, "lock")
  /\ UNCHANGED <<stored, process, scheduler, on, mine, seen, history, faults>>

(* Mutant: a worker that boots after a crash does not try to get the lock. *)
AcquireLock_FirstBoot(w) ==
  /\ pc[w] = "lock"
  /\ \/ /\ lock = NoWorker /\ faults = 0
        /\ lock' = w
        /\ ThreadGoto(w, "get")
        /\ UNCHANGED <<up, on, mine, seen>>
     \/ (lock # NoWorker \/ faults > 0) /\ End(w)
  /\ UNCHANGED <<stored, scheduler, history, faults>>

(* Mutant: whether the lock was got is not looked at.                      *)
AcquireLock_Unchecked(w) ==
  /\ pc[w] = "lock"
  /\ lock' = IF lock = NoWorker THEN w ELSE lock
  /\ ThreadGoto(w, "get")
  /\ UNCHANGED <<stored, up, scheduler, on, mine, seen, history, faults>>

(* acquire_scheduler_lock, without waiting: a worker that does not get the *)
(* lock serves requests and never tries again.                             *)
AcquireLock(w) ==
  /\ pc[w] = "lock"
  /\ \/ /\ lock = NoWorker
        /\ lock' = w
        /\ ThreadGoto(w, "get")
        /\ UNCHANGED <<up, on, mine, seen>>
     \/ lock # NoWorker /\ End(w)
  /\ UNCHANGED <<stored, scheduler, history, faults>>

(* The process dies with its threads and its scheduler; the lock is free.  *)
Crash(w) ==
  /\ pc[w] # "fork"
  /\ Fault
  /\ lock' = IF lock = w THEN NoWorker ELSE lock
  /\ up' = up \ {w}
  /\ current' = [current EXCEPT ![w] = 0]
  /\ running' = [running EXCEPT ![w] = {}]
  /\ job' = [job EXCEPT ![w] = [k \in Instances |-> NoJob]]
  /\ LET Gone(t) == t \in Requests /\ on[t] = w
     IN /\ pc' = [t \in Threads |->
                    IF t = w THEN "fork" ELSE IF Gone(t) THEN "idle" ELSE pc[t]]
        /\ on' = [t \in Threads |-> IF Gone(t) THEN NoWorker ELSE on[t]]
        /\ mine' = [t \in Threads |-> IF t = w \/ Gone(t) THEN 0 ELSE mine[t]]
        /\ seen' = [t \in Threads |-> IF t = w \/ Gone(t) THEN Off ELSE seen[t]]
  /\ UNCHANGED <<stored, history>>

-----------------------------------------------------------------------------
(* ScheduleView.post and reschedule_job.                                   *)

Save(r) ==
  /\ pc[r] = "idle"
  /\ \E w \in up, s \in Schedules :
       /\ stored' = s
       /\ on' = [on EXCEPT ![r] = w]
       /\ saver' = w
       /\ overlap' = (overlap \/ \E q \in Requests : on[q] = w)
       /\ strayed' = (strayed \/ lock # w)
  /\ ThreadGoto(r, "get")
  /\ UNCHANGED <<process, scheduler, mine, seen, faults>>

(* get_scheduler: a new scheduler if the worker has none.                  *)
GetScheduler(t) ==
  /\ pc[t] = "get"
  /\ ThreadGoto(t, IF current[on[t]] = 0 THEN "create" ELSE "return")
  /\ UNCHANGED <<stored, process, scheduler, on, mine, seen, history, faults>>

(* Mutant: the function has no 'global _scheduler'. *)
CreateScheduler_NoGlobal(t) ==
  /\ pc[t] = "create"
  /\ ThreadGoto(t, "return")
  /\ UNCHANGED <<stored, process, scheduler, on, mine, seen, history, faults>>

CreateScheduler(t) ==
  /\ pc[t] = "create"
  /\ current' = [current EXCEPT ![on[t]] = @ + 1]
  /\ ThreadGoto(t, "return")
  /\ UNCHANGED <<stored, process, running, job, on, mine, seen, history, faults>>

(* It returns what the global variable holds by now.                       *)
ReturnScheduler(t) ==
  /\ pc[t] = "return"
  /\ mine' = [mine EXCEPT ![t] = current[on[t]]]
  /\ ThreadGoto(t, "check")
  /\ UNCHANGED <<stored, process, scheduler, on, seen, history, faults>>

CheckRunning(t) ==
  /\ pc[t] = "check"
  /\ ThreadGoto(t, IF mine[t] \in running[on[t]] THEN "remove" ELSE "start")
  /\ UNCHANGED <<stored, process, scheduler, on, mine, seen, history, faults>>

(* start raises if another thread has started the scheduler meanwhile.     *)
StartScheduler(t) ==
  /\ pc[t] = "start"
  /\ \/ /\ mine[t] \notin running[on[t]]
        /\ running' = [running EXCEPT ![on[t]] = @ \cup {mine[t]}]
        /\ ThreadGoto(t, "remove")
        /\ UNCHANGED <<process, on, mine, seen>>
     \/ mine[t] \in running[on[t]] /\ UNCHANGED running /\ End(t)
  /\ UNCHANGED <<stored, current, job, history, faults>>

SetJob(t, j) == job' = [job EXCEPT ![on[t]][mine[t]] = j]

(* Mutant: replace_existing is relied on to replace the job. *)
RemoveJob_Skip(t) ==
  /\ pc[t] = "remove"
  /\ ThreadGoto(t, "read")
  /\ UNCHANGED <<stored, process, scheduler, on, mine, seen, history, faults>>

RemoveJob(t) ==
  /\ pc[t] = "remove"
  /\ SetJob(t, NoJob)
  /\ ThreadGoto(t, "read")
  /\ UNCHANGED <<stored, process, current, running, on, mine, seen, history, faults>>

(* The query can raise, and then the job that was removed does not return. *)
ReadSchedule(t) ==
  /\ pc[t] = "read"
  /\ \/ /\ seen' = [seen EXCEPT ![t] = stored]
        /\ ThreadGoto(t, "add")
        /\ UNCHANGED <<process, on, mine, faults>>
     \/ Fault /\ End(t)
  /\ UNCHANGED <<stored, scheduler, history>>

(* Mutant: the job is removed here, if the schedule is disabled. *)
AddJob_RemoveLate(t) ==
  /\ pc[t] = "add"
  /\ SetJob(t, IF seen[t] \in Crons THEN seen[t] ELSE NoJob)
  /\ End(t)
  /\ UNCHANGED <<stored, current, running, history, faults>>

(* add_job raises for a schedule it cannot parse.                          *)
AddJob(t) ==
  /\ pc[t] = "add"
  /\ IF seen[t] \in Crons THEN SetJob(t, seen[t]) ELSE UNCHANGED job
  /\ End(t)
  /\ UNCHANGED <<stored, current, running, history, faults>>

Reschedule(t) ==
  \/ GetScheduler(t) \/ CreateScheduler(t) \/ ReturnScheduler(t) \/ CheckRunning(t)
  \/ StartScheduler(t) \/ RemoveJob(t) \/ ReadSchedule(t) \/ AddJob(t)

Boot(w) == Fork(w) \/ AcquireLock(w) \/ Reschedule(w)

SchedulerNext ==
  \/ \E w \in Workers : Boot(w) \/ Crash(w)
  \/ \E r \in Requests : Save(r) \/ Reschedule(r)

(* gunicorn replaces workers that died, and post_fork runs to its end.     *)
SchedulerSpec ==
  /\ SchedulerInit /\ [][SchedulerNext]_schedulerVars
  /\ \A w \in Workers : WF_schedulerVars(Boot(w))

-----------------------------------------------------------------------------
JobsOf(w) == {job[w][k] : k \in running[w]} \ {NoJob}
Quiet == up = Workers /\ \A t \in Threads : pc[t] = "idle"

(* An enabled schedule has a job in the scheduler of some worker once all  *)
(* requests have been answered, however they were spread over the workers  *)
(* and interleaved: reschedule_job removes the job before it reads the     *)
(* schedule (scheduler.py:132-141).                                        *)
EnabledIsCovered ==
  faults = 0 /\ Quiet /\ stored \in Crons => \E w \in Workers : JobsOf(w) # {}

(* As long as every save was served by a holder of the lock, nobody else   *)
(* ever fires a job, whoever died or failed; and if the last one was, and  *)
(* requests did not overlap in one worker, the holder fires what was saved *)
(* and nothing else (apps.py:99-101, scheduler.py:132-147).                *)
HolderFires ==
  /\ ~strayed => \A w \in Workers : JobsOf(w) # {} => w = lock
  /\ faults = 0 /\ ~overlap /\ Quiet /\ saver = lock /\ saver # NoWorker
       => JobsOf(saver) = {stored} \cap Crons

(* A lock whose holder died is taken again: by the worker that gunicorn    *)
(* forks in its place (gunicorn_conf.py:14-16).                            *)
LockIsTakenAgain == lock = NoWorker ~> lock # NoWorker
=============================================================================
