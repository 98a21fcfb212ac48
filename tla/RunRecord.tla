----------------------------- MODULE RunRecord -----------------------------
(***************************************************************************)
(* What those who poll a run, and the task it belongs to, may rely on: how *)
(* the two rows go through their statuses.  A run is executed once; only   *)
(* its executor reports an outcome, the same to both rows; 'success' is    *)
(* never taken back but by a cancellation, and what is deleted is gone.    *)
(* Cancellations, deletions and repairs come at any time; a deletion is    *)
(* granted only while the run is settled, but carried out later.           *)
(***************************************************************************)
CONSTANT Runs

VARIABLES
  run, task,  \* the statuses of the rows
  phase,      \* of the execution
  result,     \* what the executor has reported
  doomed      \* runs whose deletion has been granted

record == <<run, task, phase, result, doomed>>

Active == {"pending", "running"}
Settled == {"success", "failed", "cancelled"}

Init ==
  /\ run = [r \in Runs |-> "none"]
  /\ task = [r \in Runs |-> "none"]
  /\ phase = [r \in Runs |-> "waiting"]
  /\ result = [r \in Runs |-> "none"]
  /\ doomed = {}

-----------------------------------------------------------------------------
Turn(r, from, to) == phase[r] = from /\ phase' = [phase EXCEPT ![r] = to]
Unfinished(row) == row \notin {"none", "success"}

Create(r) ==
  /\ phase[r] = "waiting" /\ run[r] = "none"
  /\ run' = [run EXCEPT ![r] = "pending"]
  /\ UNCHANGED <<task, phase, result, doomed>>

Enqueue(r) ==
  /\ phase[r] = "waiting" /\ run[r] # "none" /\ task[r] = "none"
  /\ task' = [task EXCEPT ![r] = "pending"]
  /\ UNCHANGED <<run, phase, result, doomed>>

(* A run that was cancelled or repaired before its executor came to mark   *)
(* it is running again; marking it may fail.                               *)
Start(r) ==
  /\ Unfinished(run[r]) /\ Turn(r, "waiting", "executing")
  /\ \/ run[r] # "deleted" /\ run' = [run EXCEPT ![r] = "running"]
     \/ UNCHANGED run
  /\ UNCHANGED <<task, result, doomed>>

StartTask(r) ==
  /\ phase[r] = "executing" /\ Unfinished(task[r])
  /\ task' = [task EXCEPT ![r] = "running"]
  /\ UNCHANGED <<run, phase, result, doomed>>

Report(r) ==
  /\ Unfinished(run[r]) /\ Turn(r, "executing", "reported")
  /\ \E final \in {"success", "failed"} :
       /\ result' = [result EXCEPT ![r] = final]
       /\ run' = [run EXCEPT ![r] = IF @ \in {"cancelled", "deleted"} THEN @ ELSE final]
  /\ UNCHANGED <<task, doomed>>

ReportTask(r) ==
  /\ Unfinished(task[r]) /\ Turn(r, "reported", "over")
  /\ task' = [task EXCEPT ![r] = result[r]]
  /\ UNCHANGED <<run, result, doomed>>

(* Executors die, and report nothing any more; granted deletions may be    *)
(* lost with them.                                                         *)
Die ==
  \E D \in SUBSET {r \in Runs : phase[r] # "over"} :
    /\ phase' = [r \in Runs |-> IF r \in D THEN "over" ELSE phase[r]]
    /\ result' = [r \in Runs |-> IF r \in D THEN "none" ELSE result[r]]
    /\ doomed' \subseteq doomed
    /\ UNCHANGED <<run, task>>

-----------------------------------------------------------------------------
(* A request that has found the run active may come late.                  *)
Cancel(r) ==
  /\ run[r] \notin {"none", "deleted"}
  /\ run' = [run EXCEPT ![r] = "cancelled"]
  /\ UNCHANGED <<task, phase, result, doomed>>

Grant(r) ==
  /\ run[r] \in Settled
  /\ doomed' = doomed \cup {r}
  /\ UNCHANGED <<run, task, phase, result>>

Delete(r) ==
  /\ r \in doomed
  /\ run' = [run EXCEPT ![r] = "deleted"]
  /\ doomed' = doomed \ {r}
  /\ UNCHANGED <<task, phase, result>>

Failed(row) == [r \in Runs |-> IF row[r] \in Active THEN "failed" ELSE row[r]]

Repair ==
  /\ \/ run' = Failed(run) /\ UNCHANGED task
     \/ task' = Failed(task) /\ UNCHANGED run
  /\ UNCHANGED <<phase, result, doomed>>

Next ==
  \/ \E r \in Runs : \/ Create(r) \/ Enqueue(r) \/ Start(r) \/ StartTask(r)
                     \/ Report(r) \/ ReportTask(r) \/ Cancel(r)
                     \/ Grant(r) \/ Delete(r)
  \/ Die \/ Repair

Spec == Init /\ [][Next]_record
=============================================================================
