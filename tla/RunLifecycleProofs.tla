------------------------- MODULE RunLifecycleProofs -------------------------
(***************************************************************************)
(* Theorems of RunLifecycle, for any number of runs, workers, requests,    *)
(* stages, crashes and query errors.                                       *)
(*                                                                         *)
(* NoOrphanRun and NoOrphanTask say where an active row may be found, but  *)
(* not why a thread that has ended leaves none behind.  The inductive      *)
(* invariant adds that: what a run's rows hold before they are created and *)
(* after each of the two final updates, and that whoever runs has a home.  *)
(* The last section proves the refinement of RunRecord, step by step.      *)
(***************************************************************************)
EXTENDS RunLifecycle, FiniteSetTheorems, TLAPS

HomeKnown == \A r \in Runs : pc[r] # "idle" => home[r] \in Workers

CancelKnowsRun == \A c \in Cancellers : cancel[c].pc # "idle" => run[cancel[c].run] # "none"

RowsFollowThread ==
  \A r \in Runs :
    /\ pc[r] \in {"idle", "create"} => run[r] = "none"
    /\ pc[r] \in {"idle", "create", "createTask"} => task[r] = "none"
    /\ pc[r] \in {"finalTask", "done"} => run[r] \notin Active
    /\ pc[r] = "done" => task[r] \notin Active

DeleteKnowsRun == \A r \in Runs : deleting[r] # NoWorker => run[r] # "none"

RowsInv == /\ HomeKnown /\ CancelKnowsRun /\ DeleteKnowsRun /\ RowsFollowThread
           /\ NoOrphanRun /\ NoOrphanTask

OrphanInv == TypeOK /\ RowsInv

-----------------------------------------------------------------------------
(* Both steps of a delete request.                                         *)
DeleteStep(r) == DeleteRun(r) \/ \E w \in Workers : CollectRun(r, w)

USE DEF Stages, Active, Settled, TriggerPC, ThreadPC, CancelPC, WorkerPC,
        Goto, CancelGoto, WorkerGoto, CancelEnds, Final, db, thread, registry,
        requests, faults

LEMMA InitTypeOK == Init => TypeOK
BY LifecycleAssumption DEF Init, TypeOK, IdleCancel, CancelState

(* Leaving a stage, whether its callback's query failed or not.            *)
LEMMA AfterStageType ==
  ASSUME TypeOK, NEW r \in Runs, NEW ok \in BOOLEAN, AfterStage(r, ok)
  PROVE  /\ k' \in [Runs -> Stages]
         /\ pc' \in [Runs -> {"idle", "done", "dead"} \cup TriggerPC \cup ThreadPC]
         /\ outcome' \in [Runs -> BOOLEAN]
<1> USE LifecycleAssumption DEF TypeOK
<1>1. k' \in [Runs -> Stages]
  BY DEF AfterStage
<1>2. pc' \in [Runs -> {"idle", "done", "dead"} \cup TriggerPC \cup ThreadPC]
  BY DEF AfterStage
<1>3. outcome' \in [Runs -> BOOLEAN]
  <2>1. outcome' = [outcome EXCEPT ![r] = outcome[r] /\ (ok \/ k[r] = N + 1)]
    BY DEF AfterStage
  <2>. QED  BY <2>1
<1>. QED  BY <1>1, <1>2, <1>3

LEMMA CancelEndsType ==
  ASSUME TypeOK, NEW c \in Cancellers, CancelEnds(c)
  PROVE  /\ cancel' \in [Cancellers -> CancelState]
         /\ \A d \in Cancellers : cancel'[d].pc # "idle" => cancel'[d].run \in Runs
<1>1. IdleCancel \in CancelState /\ IdleCancel.pc = "idle"
  BY DEF IdleCancel, CancelState
<1>. QED  BY <1>1 DEF TypeOK

LEMMA RunStepTypeOK ==
  ASSUME TypeOK, NEW r \in Runs, RunStep(r)
  PROVE  TypeOK'
<1> USE LifecycleAssumption DEF TypeOK
<1>1. CASE CreateRun(r)    BY <1>1 DEF CreateRun
<1>2. CASE CreateTask(r)   BY <1>2 DEF CreateTask
<1>3. CASE Register(r)     BY <1>3 DEF Register
<1>4. CASE StartRun(r)     BY <1>4 DEF StartRun
<1>5. CASE StartTask(r)    BY <1>5 DEF StartTask
<1>6. CASE Setup(r)        BY <1>6 DEF Setup
<1>7. CASE CheckCancel(r)
  <2>1. k' \in [Runs -> Stages] /\ outcome' \in [Runs -> BOOLEAN]
    <3>1. CASE signal[r] # 0
      <4>1. k' = [k EXCEPT ![r] = N + 1]  BY <1>7, <3>1 DEF CheckCancel
      <4>2. N + 1 \in Stages  OBVIOUS
      <4>3. outcome' = [outcome EXCEPT ![r] = FALSE]  BY <1>7, <3>1 DEF CheckCancel
      <4>4. k' \in [Runs -> Stages]  BY <4>1, <4>2
      <4>. QED  BY <4>3, <4>4
    <3>2. CASE signal[r] = 0  BY <1>7, <3>2 DEF CheckCancel
    <3>. QED  BY <3>1, <3>2
  <2>2. pc' \in [Runs -> {"idle", "done", "dead"} \cup TriggerPC \cup ThreadPC]
    BY <1>7 DEF CheckCancel
  <2>3. UNCHANGED <<db, home, registry, worker, requests, faults>>
    BY <1>7 DEF CheckCancel
  <2>. QED  BY <2>1, <2>2, <2>3
<1>8. CASE BeginStage(r)   BY <1>8 DEF BeginStage
<1>9. CASE Popen(r)        BY <1>9 DEF Popen
<1>10. CASE RegisterProc(r) BY <1>10 DEF RegisterProc
<1>11. CASE ReapProc(r)    BY <1>11 DEF ReapProc
<1>12. CASE EndStage(r)
  <2>1. PICK ok \in BOOLEAN :
          /\ stage' = [stage EXCEPT ![r][k[r]] =
                         IF @ = "none" THEN @ ELSE IF ok THEN "success" ELSE "failed"]
          /\ AfterStage(r, ok)
          /\ UNCHANGED <<run, task, home, registry, worker, requests, faults>>
    BY <1>12 DEF EndStage
  <2>2. stage' \in [Runs -> [Stages -> {"none", "running"} \cup Settled]]
    BY <2>1
  <2>. QED  BY <2>1, <2>2, AfterStageType
<1>13. CASE Unregister(r)  BY <1>13 DEF Unregister
<1>14. CASE FinalRun(r)    BY <1>14 DEF FinalRun
<1>15. CASE FinalTask(r)   BY <1>15 DEF FinalTask
<1>. QED
  BY <1>1, <1>2, <1>3, <1>4, <1>5, <1>6, <1>7, <1>8, <1>9, <1>10, <1>11, <1>12,
     <1>13, <1>14, <1>15 DEF RunStep

LEMMA CancelTypeOK ==
  ASSUME TypeOK, NEW c \in Cancellers,
         CancelStep(c) \/ \E w \in Workers, r \in Runs : CancelFetch(c, w, r)
  PROVE  TypeOK'
<1> USE LifecycleAssumption DEF TypeOK
<1>a. ASSUME NEW s \in CancelState, cancel' = [cancel EXCEPT ![c] = s],
             s.pc # "idle" => s.run \in Runs
      PROVE  /\ cancel' \in [Cancellers -> CancelState]
             /\ \A d \in Cancellers : cancel'[d].pc # "idle" => cancel'[d].run \in Runs
  BY <1>a
<1>b. /\ IdleCancel \in CancelState /\ IdleCancel.pc = "idle"
      /\ cancel[c] \in CancelState
  BY DEF IdleCancel, CancelState
<1>c. ASSUME NEW l \in CancelPC, cancel[c].pc # "idle", CancelGoto(c, l)
      PROVE  /\ cancel' \in [Cancellers -> CancelState]
             /\ \A d \in Cancellers : cancel'[d].pc # "idle" => cancel'[d].run \in Runs
  <2>1. cancel' = [cancel EXCEPT ![c] = [cancel[c] EXCEPT !.pc = l]]
    BY <1>c
  <2>2. [cancel[c] EXCEPT !.pc = l] \in CancelState /\ [cancel[c] EXCEPT !.pc = l].run = cancel[c].run
    BY <1>b DEF CancelState
  <2>. QED  BY <2>1, <2>2, <1>a, <1>c
<1>1. ASSUME NEW w \in Workers, NEW r \in Runs, CancelFetch(c, w, r)  PROVE TypeOK'
  <2> DEFINE s == [IdleCancel EXCEPT !.pc = "stages", !.run = r, !.at = w]
  <2>1. s \in CancelState /\ s.run \in Runs
    BY DEF IdleCancel, CancelState
  <2>2. cancel' = [cancel EXCEPT ![c] = s] /\ UNCHANGED <<db, thread, registry, worker, deleting, faults>>
    BY <1>1 DEF CancelFetch
  <2>. HIDE DEF s
  <2>. QED  BY <1>a, <2>1, <2>2
<1>2. CASE CancelStages(c)
  <2>1. stage' \in [Runs -> [Stages -> {"none", "running"} \cup Settled]]
    BY <1>2 DEF CancelStages
  <2>2. cancel[c].pc # "idle" /\ CancelGoto(c, "save")
        /\ UNCHANGED <<run, task, thread, registry, worker, deleting, faults>>
    BY <1>2 DEF CancelStages
  <2>. QED  BY <2>1, <2>2, <1>c
<1>3. CASE CancelSave(c)
  <2>1. /\ cancel' \in [Cancellers -> CancelState]
        /\ \A d \in Cancellers : cancel'[d].pc # "idle" => cancel'[d].run \in Runs
    BY <1>3, <1>c, CancelEndsType DEF CancelSave
  <2>2. run' \in [Runs -> {"none", "deleted"} \cup Active \cup Settled]
    BY <1>3 DEF CancelSave
  <2>3. UNCHANGED <<task, stage, thread, registry, worker, deleting, faults>>
    BY <1>3 DEF CancelSave
  <2>. QED  BY <2>1, <2>2, <2>3
<1>4. CASE CancelLookup(c)
  <2>1. PICK e \in BOOLEAN, p \in BOOLEAN :
          cancel' = [cancel EXCEPT ![c].pc = "set", ![c].event = e, ![c].proc = p]
    BY <1>4 DEF CancelLookup
  <2> DEFINE s == [cancel[c] EXCEPT !.pc = "set", !.event = e, !.proc = p]
  <2>2. s \in CancelState /\ s.run = cancel[c].run
    BY <1>b DEF CancelState
  <2>3. cancel' = [cancel EXCEPT ![c] = s]
    BY <2>1
  <2>4. cancel[c].pc # "idle" /\ UNCHANGED <<db, thread, registry, worker, deleting, faults>>
    BY <1>4 DEF CancelLookup
  <2>. HIDE DEF s
  <2>. QED  BY <1>a, <2>2, <2>3, <2>4
<1>5. CASE CancelSet(c)
  <2>1. cancel[c].pc # "idle" /\ CancelGoto(c, "terminate")
        /\ UNCHANGED <<db, thread, registered, procReg, proc, worker, deleting, faults>>
    BY <1>5 DEF CancelSet
  <2>2. signal' \in [Runs -> {0} \cup Stages]
    BY <1>5 DEF CancelSet
  <2>. QED  BY <2>1, <2>2, <1>c
<1>6. CASE CancelTerminate(c)
  <2>1. UNCHANGED <<db, thread, registered, signal, procReg, worker, deleting, faults>>
    BY <1>6 DEF CancelTerminate
  <2>2. proc' \in [Runs -> {"none", "running", "exited"}]
    BY <1>6 DEF CancelTerminate
  <2>3. CancelEnds(c)
    BY <1>6 DEF CancelTerminate
  <2>. QED  BY <2>1, <2>2, <2>3, CancelEndsType
<1>. QED  BY <1>1, <1>2, <1>3, <1>4, <1>5, <1>6 DEF CancelStep

LEMMA WorkerTypeOK ==
  ASSUME TypeOK, NEW w \in Workers, BootStep(w) \/ Crash(w)
  PROVE  TypeOK'
<1> USE LifecycleAssumption DEF TypeOK
<1>1. CASE Fork(w)        BY <1>1 DEF Fork
<1>2. CASE MarkCheck(w)   BY <1>2 DEF MarkCheck
<1>3. CASE MarkStages(w)
  <2>1. stage' \in [Runs -> [Stages -> {"none", "running"} \cup Settled]]
    BY <1>3 DEF MarkStages
  <2>. QED  BY <1>3, <2>1 DEF MarkStages
<1>4. CASE MarkRuns(w)    BY <1>4 DEF MarkRuns
<1>5. CASE MarkTasks(w)   BY <1>5 DEF MarkTasks
<1>6. CASE Crash(w)
  <2>1. /\ pc' \in [Runs -> {"idle", "done", "dead"} \cup TriggerPC \cup ThreadPC]
        /\ k' \in [Runs -> Stages]
        /\ signal' \in [Runs -> {0} \cup Stages]
    BY <1>6 DEF Crash
  <2>7. outcome' \in [Runs -> BOOLEAN]
    <3>1. \A r \in Runs : outcome[r] \in BOOLEAN
      OBVIOUS
    <3>2. PICK f \in [Runs -> BOOLEAN] :
            outcome' = [r \in Runs |-> IF f[r] THEN TRUE ELSE outcome[r]]
      <4> DEFINE f == [r \in Runs |-> home[r] = w /\ InFlight(r)]
      <4>1. f \in [Runs -> BOOLEAN]  OBVIOUS
      <4>2. outcome' = [r \in Runs |-> IF f[r] THEN TRUE ELSE outcome[r]]
        BY <1>6 DEF Crash
      <4>. QED  BY <4>1, <4>2
    <3>. QED  BY <3>1, <3>2
  <2>2. registered' \in [Runs -> BOOLEAN] /\ procReg' \in [Runs -> BOOLEAN]
    BY <1>6 DEF Crash
  <2>3. /\ cancel' \in [Cancellers -> CancelState]
        /\ \A c \in Cancellers : cancel'[c].pc # "idle" => cancel'[c].run \in Runs
    BY <1>6 DEF Crash, IdleCancel, CancelState
  <2>4. worker' \in [Workers -> WorkerPC] /\ deleting' \in [Runs -> Workers \cup {NoWorker}]
    BY <1>6 DEF Crash
  <2>5. crashes' \in 0..MaxCrashes
    BY <1>6 DEF Crash
  <2>6. UNCHANGED <<db, home, proc, dbErrors>>
    BY <1>6 DEF Crash
  <2>. QED  BY <2>1, <2>2, <2>3, <2>4, <2>5, <2>6, <2>7
<1>. QED  BY <1>1, <1>2, <1>3, <1>4, <1>5, <1>6 DEF BootStep

LEMMA QueryFailsTypeOK ==
  ASSUME TypeOK, OtherQueryFails \/ \E r \in Runs : RunQueryFails(r)
  PROVE  TypeOK'
<1> USE LifecycleAssumption DEF TypeOK
<1>1. ASSUME NEW r \in Runs, RunQueryFails(r)  PROVE TypeOK'
  <2>1. /\ dbErrors' \in 0..MaxDbErrors
        /\ UNCHANGED <<db, home, registry, worker, requests, crashes>>
    BY <1>1 DEF RunQueryFails
  <2>2. CASE \E ok \in BOOLEAN : StageOver(r, ok) /\ AfterStage(r, ok)
    BY <2>1, <2>2, AfterStageType
  <2>3. CASE ~ \E ok \in BOOLEAN : StageOver(r, ok) /\ AfterStage(r, ok)
    <3>1. UNCHANGED k /\ (UNCHANGED outcome \/ outcome' = [outcome EXCEPT ![r] = FALSE])
      BY <1>1, <2>3 DEF RunQueryFails
    <3>2. \E l \in {"dead", "unregister", "work"} : Goto(r, l)
      BY <1>1, <2>3 DEF RunQueryFails
    <3>3. outcome' \in [Runs -> BOOLEAN]
      BY <3>1
    <3>4. pc' \in [Runs -> {"idle", "done", "dead"} \cup TriggerPC \cup ThreadPC]
      BY <3>2
    <3>. QED  BY <2>1, <3>1, <3>3, <3>4
  <2>. QED  BY <2>2, <2>3
<1>2. CASE OtherQueryFails
  <2>1. /\ dbErrors' \in 0..MaxDbErrors
        /\ UNCHANGED <<db, thread, registry, crashes>>
    BY <1>2 DEF OtherQueryFails
  <2>2. CASE (\E c \in Cancellers : CancelEnds(c)) /\ UNCHANGED <<worker, deleting>>
    BY <2>1, <2>2, CancelEndsType
  <2>3. CASE (\E w \in Workers : WorkerGoto(w, "up")) /\ UNCHANGED requests
    BY <2>1, <2>3
  <2>4. CASE /\ \E r \in Runs : deleting' = [deleting EXCEPT ![r] = NoWorker]
             /\ UNCHANGED <<worker, cancel>>
    BY <2>1, <2>4
  <2>. QED  BY <1>2, <2>2, <2>3, <2>4 DEF OtherQueryFails
<1>. QED  BY <1>1, <1>2

LEMMA NextTypeOK == TypeOK /\ [Next]_vars => TypeOK'
<1> SUFFICES ASSUME TypeOK, [Next]_vars  PROVE TypeOK'
  OBVIOUS
<1>1. ASSUME NEW r \in Runs, NEW w \in Workers, TriggerCheck(r, w)  PROVE TypeOK'
  BY <1>1 DEF TypeOK, TriggerCheck
<1>2. ASSUME NEW r \in Runs, ProcExit(r)  PROVE TypeOK'
  BY <1>2 DEF TypeOK, ProcExit
<1>4. ASSUME NEW r \in Runs, DeleteRun(r)  PROVE TypeOK'
  <2>1. UNCHANGED <<task, thread, registry, worker, cancel, faults>>
    BY <1>4 DEF DeleteRun
  <2>2. run' \in [Runs -> {"none", "deleted"} \cup Active \cup Settled]
    BY <1>4 DEF DeleteRun, TypeOK
  <2>3. stage' \in [Runs -> [Stages -> {"none", "running"} \cup Settled]]
    BY <1>4 DEF DeleteRun, TypeOK
  <2>4. deleting' \in [Runs -> Workers \cup {NoWorker}]
    BY <1>4 DEF DeleteRun, TypeOK
  <2>. QED  BY <2>1, <2>2, <2>3, <2>4 DEF TypeOK
<1>5. ASSUME NEW r \in Runs, NEW w \in Workers, CollectRun(r, w)  PROVE TypeOK'
  BY <1>5 DEF TypeOK, CollectRun
<1>3. CASE UNCHANGED vars
  BY <1>3 DEF TypeOK, vars
<1>. QED
  BY <1>1, <1>2, <1>3, <1>4, <1>5, RunStepTypeOK, CancelTypeOK, WorkerTypeOK, QueryFailsTypeOK
     DEF Next

(* Every reachable state is well-typed: in particular a status column only *)
(* ever holds one of the values the code writes to it.                     *)
THEOREM TypeCorrect == Spec => []TypeOK
BY InitTypeOK, NextTypeOK, PTL DEF Spec

-----------------------------------------------------------------------------
LEMMA InitRowsInv == Init => RowsInv
BY DEF Init, RowsInv, HomeKnown, CancelKnowsRun, DeleteKnowsRun, RowsFollowThread, NoOrphanRun, NoOrphanTask,
       IdleCancel

(* The thread of a run, and its trigger.                                   *)
LEMMA RunStepRowsInv ==
  ASSUME TypeOK, TypeOK', RowsInv, NEW r \in Runs,
         RunStep(r) \/ \E w \in Workers : TriggerCheck(r, w)
  PROVE  RowsInv'
<1> USE DEF TypeOK, RowsInv, HomeKnown, CancelKnowsRun, DeleteKnowsRun, RowsFollowThread,
            NoOrphanRun, NoOrphanTask, InFlight, Repairing, Exists
<1>0. ASSUME NEW w \in Workers, TriggerCheck(r, w)  PROVE RowsInv'
  BY <1>0 DEF TriggerCheck
<1>1. CASE CreateRun(r)    BY <1>1 DEF CreateRun
<1>2. CASE CreateTask(r)
  <2>1. pc[r] = "createTask" /\ UNCHANGED <<run, home, worker, requests, faults>>
    BY <1>2 DEF CreateTask
  <2>2. CASE task' = [task EXCEPT ![r] = "pending"] /\ Goto(r, "register")
    BY <2>1, <2>2
  <2>3. CASE run[r] \in {"none", "deleted"} /\ UNCHANGED task /\ Goto(r, "dead")
    BY <2>1, <2>3
  <2>. QED  BY <1>2, <2>2, <2>3 DEF CreateTask
<1>3. CASE Register(r)     BY <1>3 DEF Register
<1>4. CASE StartRun(r)     BY <1>4 DEF StartRun
<1>5. CASE StartTask(r)    BY <1>5 DEF StartTask
<1>6. CASE Setup(r)
  <2>1. \E l \in {"check", "unregister"} : Goto(r, l)
    BY <1>6 DEF Setup
  <2>2. pc[r] = "setup" /\ UNCHANGED <<db, home, worker, requests, faults>>
    BY <1>6 DEF Setup
  <2>. QED  BY <2>1, <2>2
<1>7. CASE CheckCancel(r)  BY <1>7 DEF CheckCancel
<1>8. CASE BeginStage(r)   BY <1>8 DEF BeginStage
<1>9. CASE Popen(r)        BY <1>9 DEF Popen
<1>10. CASE RegisterProc(r) BY <1>10 DEF RegisterProc
<1>11. CASE ReapProc(r)    BY <1>11 DEF ReapProc
<1>12. CASE EndStage(r)
  <2>1. \E l \in {"check", "begin", "unregister"} : Goto(r, l)
    BY <1>12 DEF EndStage, AfterStage
  <2>2. pc[r] \in {"work", "reaped"} /\ UNCHANGED <<run, task, home, registry, worker, requests, faults>>
    BY <1>12 DEF EndStage, StageOver
  <2>. QED  BY <2>1, <2>2
<1>13. CASE Unregister(r)  BY <1>13 DEF Unregister
<1>14. CASE FinalRun(r)    BY <1>14 DEF FinalRun
<1>15. CASE FinalTask(r)   BY <1>15 DEF FinalTask
<1>. QED
  BY <1>0, <1>1, <1>2, <1>3, <1>4, <1>5, <1>6, <1>7, <1>8, <1>9, <1>10, <1>11, <1>12,
     <1>13, <1>14, <1>15 DEF RunStep

(* Cancel and delete requests only ever settle a row.                      *)
LEMMA CancelRowsInv ==
  ASSUME TypeOK, TypeOK', RowsInv, NEW c \in Cancellers,
         CancelStep(c) \/ \E w \in Workers, r \in Runs : CancelFetch(c, w, r)
  PROVE  RowsInv'
<1> USE DEF TypeOK, RowsInv, HomeKnown, CancelKnowsRun, DeleteKnowsRun, RowsFollowThread,
            NoOrphanRun, NoOrphanTask, InFlight, Repairing
<1>1. ASSUME NEW w \in Workers, NEW r \in Runs, CancelFetch(c, w, r)  PROVE RowsInv'
  <2> DEFINE s == [IdleCancel EXCEPT !.pc = "stages", !.run = r, !.at = w]
  <2>1. run[r] \in Active /\ cancel' = [cancel EXCEPT ![c] = s]
        /\ UNCHANGED <<db, thread, worker, deleting, faults>>
    BY <1>1 DEF CancelFetch
  <2>2. s.run = r
    BY DEF IdleCancel
  <2>. HIDE DEF s
  <2>. QED  BY <2>1, <2>2
<1>2. CASE CancelStages(c)     BY <1>2 DEF CancelStages
<1>3. CASE CancelSave(c)
  <2>1. cancel[c].pc # "idle" /\ UNCHANGED <<task, thread, worker, deleting, faults>>
    BY <1>3 DEF CancelSave
  <2>2. CASE UNCHANGED run /\ CancelEnds(c)
    BY <2>1, <2>2 DEF IdleCancel
  <2>3. CASE run' = [run EXCEPT ![cancel[c].run] = "cancelled"] /\ CancelGoto(c, "lookup")
    <3>1. \A d \in Cancellers : cancel'[d].run = cancel[d].run
                               /\ (d # c => cancel'[d].pc = cancel[d].pc)
      BY <2>3
    <3>2. CancelKnowsRun' /\ DeleteKnowsRun'
      BY <2>1, <2>3, <3>1
    <3>3. RowsFollowThread' /\ HomeKnown'
      BY <2>1, <2>3
    <3>4. NoOrphanRun' /\ NoOrphanTask'
      BY <2>1, <2>3
    <3>. QED  BY <3>2, <3>3, <3>4
  <2>. QED  BY <1>3, <2>2, <2>3 DEF CancelSave
<1>4. CASE CancelLookup(c)     BY <1>4 DEF CancelLookup
<1>5. CASE CancelSet(c)        BY <1>5 DEF CancelSet
<1>6. CASE CancelTerminate(c)  BY <1>6 DEF CancelTerminate, IdleCancel
<1>. QED  BY <1>1, <1>2, <1>3, <1>4, <1>5, <1>6 DEF CancelStep

LEMMA DeleteRowsInv ==
  ASSUME TypeOK, TypeOK', RowsInv, NEW r \in Runs, DeleteStep(r) \/ ProcExit(r)
  PROVE  RowsInv'
<1> USE DEF TypeOK, RowsInv, HomeKnown, CancelKnowsRun, DeleteKnowsRun, RowsFollowThread,
            NoOrphanRun, NoOrphanTask, InFlight, Repairing
<1>1. CASE DeleteRun(r)
  <2>1. /\ deleting[r] # NoWorker /\ run' = [run EXCEPT ![r] = "deleted"]
        /\ \A q \in Runs : deleting'[q] \in {deleting[q], NoWorker}
        /\ UNCHANGED <<task, thread, worker, cancel, faults>>
    BY <1>1 DEF DeleteRun
  <2>2. \A q \in Runs : run'[q] = run[q] \/ (run'[q] = "deleted" /\ run[q] # "none")
    BY <2>1
  <2>. QED  BY <2>1, <2>2
<1>2. ASSUME NEW w \in Workers, CollectRun(r, w)  PROVE RowsInv'
  BY <1>2 DEF CollectRun
<1>3. CASE ProcExit(r)   BY <1>3 DEF ProcExit
<1>. QED  BY <1>1, <1>2, <1>3 DEF DeleteStep

(* A worker that dies turns its runs over to its own next boot; a booting  *)
(* worker leaves the states that count as repairing only when no row is    *)
(* active.                                                                 *)
LEMMA WorkerRowsInv ==
  ASSUME TypeOK, TypeOK', RowsInv, NEW w \in Workers, BootStep(w) \/ Crash(w)
  PROVE  RowsInv'
<1> USE DEF TypeOK, RowsInv, HomeKnown, CancelKnowsRun, DeleteKnowsRun, RowsFollowThread,
            NoOrphanRun, NoOrphanTask, InFlight, Repairing
<1>1. CASE Fork(w)        BY <1>1 DEF Fork
<1>2. CASE MarkCheck(w)   BY <1>2 DEF MarkCheck, SomeRunActive
<1>3. CASE MarkStages(w)  BY <1>3 DEF MarkStages
<1>4. CASE MarkRuns(w)    BY <1>4 DEF MarkRuns
<1>5. CASE MarkTasks(w)   BY <1>5 DEF MarkTasks
<1>6. CASE Crash(w)
  <2>1. /\ UNCHANGED <<run, task, home, dbErrors>>
        /\ worker' = [worker EXCEPT ![w] = "down"]
        /\ pc' = [r \in Runs |-> IF home[r] = w /\ InFlight(r) THEN "dead" ELSE pc[r]]
        /\ cancel' = [c \in Cancellers |-> IF cancel[c].at = w THEN IdleCancel ELSE cancel[c]]
        /\ \A r \in Runs : deleting'[r] \in {deleting[r], NoWorker}
    BY <1>6 DEF Crash
  <2>2. CancelKnowsRun' /\ DeleteKnowsRun'
    BY <2>1 DEF IdleCancel
  <2>3. (HomeKnown /\ RowsFollowThread)'
    BY <2>1
  <2>4. (NoOrphanRun /\ NoOrphanTask)'
    BY <2>1
  <2>. QED  BY <2>2, <2>3, <2>4
<1>. QED  BY <1>1, <1>2, <1>3, <1>4, <1>5, <1>6 DEF BootStep

(* Once a query has failed the two orphan properties promise nothing.      *)
LEMMA QueryFailsRowsInv ==
  ASSUME TypeOK, TypeOK', RowsInv, OtherQueryFails \/ \E r \in Runs : RunQueryFails(r)
  PROVE  RowsInv'
<1> USE DEF TypeOK, RowsInv, HomeKnown, CancelKnowsRun, DeleteKnowsRun, RowsFollowThread
<1>1. dbErrors' # 0
  BY DEF OtherQueryFails, RunQueryFails
<1>2. NoOrphanRun' /\ NoOrphanTask'
  BY <1>1 DEF NoOrphanRun, NoOrphanTask
<1>3. ASSUME NEW r \in Runs, RunQueryFails(r)  PROVE RowsInv'
  <2>1. /\ \E l \in {"dead", "unregister", "work", "check", "begin"} : Goto(r, l)
        /\ pc[r] # "idle"
    BY <1>3 DEF RunQueryFails, StageOver, AfterStage
  <2>2. UNCHANGED <<db, home, registry, worker, requests, crashes>>
    BY <1>3 DEF RunQueryFails
  <2>. QED  BY <1>2, <2>1, <2>2
<1>4. CASE OtherQueryFails
  <2>1. UNCHANGED <<db, thread, registry, crashes>>
    BY <1>4 DEF OtherQueryFails
  <2>2. /\ UNCHANGED cancel \/ \E c \in Cancellers : CancelEnds(c)
        /\ \A r \in Runs : deleting'[r] \in {deleting[r], NoWorker}
    BY <1>4 DEF OtherQueryFails
  <2>3. CancelKnowsRun'
    <3>1. CASE UNCHANGED cancel
      BY <2>1, <3>1
    <3>2. ASSUME NEW c \in Cancellers, CancelEnds(c)  PROVE CancelKnowsRun'
      <4>1. \A d \in Cancellers : cancel'[d].pc # "idle" => cancel'[d] = cancel[d]
        BY <3>2 DEF IdleCancel
      <4>. QED  BY <2>1, <4>1
    <3>. QED  BY <2>2, <3>1, <3>2
  <2>4. HomeKnown' /\ DeleteKnowsRun' /\ RowsFollowThread'
    BY <2>1, <2>2
  <2>. QED  BY <1>2, <2>3, <2>4
<1>. QED  BY <1>3, <1>4

LEMMA OrphanInvNext == OrphanInv /\ [Next]_vars => OrphanInv'
<1> SUFFICES ASSUME TypeOK, RowsInv, [Next]_vars  PROVE TypeOK' /\ RowsInv'
  BY DEF OrphanInv
<1>1. TypeOK'
  BY NextTypeOK
<1>2. CASE UNCHANGED vars
  <2>1. UNCHANGED <<run, task, pc, home, worker, requests, dbErrors>>
    BY <1>2 DEF vars
  <2>2. HomeKnown' /\ CancelKnowsRun' /\ DeleteKnowsRun' /\ RowsFollowThread'
    BY <2>1 DEF RowsInv, HomeKnown, CancelKnowsRun, DeleteKnowsRun, RowsFollowThread
  <2>3. NoOrphanRun' /\ NoOrphanTask'
    BY <2>1 DEF RowsInv, NoOrphanRun, NoOrphanTask, InFlight, Repairing
  <2>. QED  BY <1>1, <2>2, <2>3 DEF RowsInv
<1>. QED
  BY <1>1, <1>2, RunStepRowsInv, CancelRowsInv, DeleteRowsInv, WorkerRowsInv,
     QueryFailsRowsInv DEF Next, DeleteStep

THEOREM OrphanInvariant == Spec => []OrphanInv
<1>1. Init => OrphanInv
  BY InitTypeOK, InitRowsInv DEF OrphanInv
<1>. QED  BY <1>1, OrphanInvNext, PTL DEF Spec

(* For any number of workers, runs, requests and crashes: a run row is     *)
(* never left active with nobody to settle it (apps.py:134-163).           *)
THEOREM NoRunOrphaned == Spec => []NoOrphanRun
<1>1. OrphanInv => NoOrphanRun
  BY DEF OrphanInv, RowsInv
<1>. QED  BY <1>1, OrphanInvariant, PTL

(* And neither is a task row.                                              *)
THEOREM NoTaskOrphaned == Spec => []NoOrphanTask
<1>1. OrphanInv => NoOrphanTask
  BY DEF OrphanInv, RowsInv
<1>. QED  BY <1>1, OrphanInvariant, PTL

-----------------------------------------------------------------------------
(* What the two final updates leave behind.  RunAndTaskAgree speaks of a   *)
(* thread that has ended; the invariant adds what its run holds between    *)
(* the two, and that a run with a thread had a row.                        *)
HadRow == \A r \in Runs : pc[r] \in ThreadPC \cup {"createTask", "done"} => run[r] # "none"

RunFinal == \A r \in Runs :
  pc[r] \in {"finalTask", "done"} => run[r] \in {Final(r), "cancelled", "deleted"}

TaskFinal == \A r \in Runs : pc[r] = "done" => task[r] = Final(r)

FinalInv == HadRow /\ RunFinal /\ TaskFinal

LEMMA FinalType == ASSUME NEW r \in Runs  PROVE Final(r) \in {"success", "failed"}
OBVIOUS

(* Steps that settle nothing: the rows and outcomes stay, and the thread   *)
(* goes to a step before the final updates, or dies.                       *)
LEMMA FinalUntouched ==
  ASSUME TypeOK, FinalInv, NEW r \in Runs, NEW l \in ThreadPC \cup {"create", "dead"},
         l # "finalTask", Goto(r, l), UNCHANGED <<run, task>>,
         l \in ThreadPC => run[r] # "none",
         \A q \in Runs : q # r => outcome'[q] = outcome[q]
  PROVE  FinalInv'
<1> USE DEF TypeOK, FinalInv
<1>1. HadRow'     BY DEF HadRow
<1>2. RunFinal'   BY DEF RunFinal
<1>3. TaskFinal'  BY DEF TaskFinal
<1>. QED  BY <1>1, <1>2, <1>3

LEMMA RunStepFinalInv ==
  ASSUME TypeOK, TypeOK', FinalInv, NEW r \in Runs, RunStep(r)
  PROVE  FinalInv'
<1> DEFINE Quiet(l) == /\ Goto(r, l)
                       /\ UNCHANGED <<run, task>>
                       /\ \A q \in Runs : q # r => outcome'[q] = outcome[q]
<1>q. ASSUME NEW l \in ThreadPC \cup {"create", "dead"}, l # "finalTask", Quiet(l),
             l \in ThreadPC => run[r] # "none"
      PROVE  FinalInv'
  <2>1. Goto(r, l) /\ UNCHANGED <<run, task>> /\ \A q \in Runs : q # r => outcome'[q] = outcome[q]
    BY <1>q
  <2>2. l # "finalTask" /\ (l \in ThreadPC => run[r] # "none")
    BY <1>q
  <2>. QED  BY <2>1, <2>2, FinalUntouched
<1> USE DEF TypeOK
<1>h. pc[r] \in ThreadPC \cup {"createTask", "done"} => run[r] # "none"
  BY DEF FinalInv, HadRow
<1>1. CASE CreateRun(r)
  BY <1>1 DEF CreateRun, FinalInv, HadRow, RunFinal, TaskFinal
<1>2. CASE CreateTask(r)
  <2>1. CASE Exists(r) /\ task' = [task EXCEPT ![r] = "pending"] /\ Goto(r, "register")
    BY <1>2, <2>1 DEF CreateTask, Exists, FinalInv, HadRow, RunFinal, TaskFinal
  <2>2. CASE UNCHANGED task /\ Goto(r, "dead")
    <3>1. Quiet("dead")  BY <1>2, <2>2 DEF CreateTask
    <3>. QED  BY <1>q, <3>1
  <2>. QED  BY <1>2, <2>1, <2>2 DEF CreateTask
<1>3. CASE Register(r)
  <2>1. Quiet("start") /\ run[r] # "none"  BY <1>3, <1>h DEF Register
  <2>. QED  BY <1>q, <2>1
<1>4. CASE StartRun(r)
  BY <1>4 DEF StartRun, Exists, FinalInv, HadRow, RunFinal, TaskFinal
<1>5. CASE StartTask(r)
  BY <1>5 DEF StartTask, FinalInv, HadRow, RunFinal, TaskFinal
<1>6. CASE Setup(r)
  <2>1. run[r] # "none" /\ (Quiet("check") \/ Quiet("unregister"))
    BY <1>6, <1>h DEF Setup
  <2>. QED  BY <1>q, <2>1
<1>7. CASE CheckCancel(r)
  <2>1. Quiet("begin") /\ run[r] # "none"  BY <1>7, <1>h DEF CheckCancel
  <2>. QED  BY <1>q, <2>1
<1>8. CASE BeginStage(r)
  <2>1. Quiet("work") /\ run[r] # "none"  BY <1>8, <1>h DEF BeginStage
  <2>. QED  BY <1>q, <2>1
<1>9. CASE Popen(r)
  <2>1. Quiet("popen") /\ run[r] # "none"  BY <1>9, <1>h DEF Popen
  <2>. QED  BY <1>q, <2>1
<1>10. CASE RegisterProc(r)
  <2>1. Quiet("wait") /\ run[r] # "none"  BY <1>10, <1>h DEF RegisterProc
  <2>. QED  BY <1>q, <2>1
<1>11. CASE ReapProc(r)
  <2>1. Quiet("reaped") /\ run[r] # "none"  BY <1>11, <1>h DEF ReapProc
  <2>. QED  BY <1>q, <2>1
<1>12. CASE EndStage(r)
  <2>1. run[r] # "none"
    BY <1>12, <1>h DEF EndStage, StageOver
  <2>2. \E l \in {"check", "begin", "unregister"} : Goto(r, l)
    BY <1>12 DEF EndStage, AfterStage
  <2>3. /\ UNCHANGED <<run, task>>
        /\ \A q \in Runs : q # r => outcome'[q] = outcome[q]
    BY <1>12 DEF EndStage, AfterStage
  <2>. QED  BY <1>q, <2>1, <2>2, <2>3
<1>13. CASE Unregister(r)
  <2>1. Quiet("finalRun") /\ run[r] # "none"  BY <1>13, <1>h DEF Unregister
  <2>. QED  BY <1>q, <2>1
<1>14. CASE FinalRun(r)
  BY <1>14, <1>h, FinalType DEF FinalRun, Exists, FinalInv, HadRow, RunFinal, TaskFinal
<1>15. CASE FinalTask(r)
  BY <1>15, <1>h DEF FinalTask, FinalInv, HadRow, RunFinal, TaskFinal
<1>. QED
  BY <1>1, <1>2, <1>3, <1>4, <1>5, <1>6, <1>7, <1>8, <1>9, <1>10, <1>11, <1>12,
     <1>13, <1>14, <1>15 DEF RunStep

(* A trigger begins with a row that is not there yet; a failed query goes  *)
(* to no final update.                                                     *)
LEMMA TriggerFinalInv ==
  ASSUME TypeOK, FinalInv, NEW r \in Runs,
         RunQueryFails(r) \/ \E w \in Workers : TriggerCheck(r, w)
  PROVE  FinalInv'
<1>1. CASE \E w \in Workers : TriggerCheck(r, w)
  <2>1. Goto(r, "create") /\ UNCHANGED <<run, task, outcome>>
    BY <1>1 DEF TriggerCheck
  <2>. QED  BY <2>1, FinalUntouched
<1>2. CASE RunQueryFails(r)
  <2>1. /\ UNCHANGED <<run, task>>
        /\ \A q \in Runs : q # r => outcome'[q] = outcome[q]
    BY <1>2 DEF RunQueryFails, AfterStage, TypeOK
  <2>2. \/ Goto(r, "dead")
        \/ /\ pc[r] \in {"start", "startTask", "begin", "work", "reaped"}
           /\ \E l \in {"unregister", "work", "check", "begin"} : Goto(r, l)
    BY <1>2 DEF RunQueryFails, StageOver, AfterStage
  <2>3. pc[r] \in ThreadPC => run[r] # "none"
    BY DEF FinalInv, HadRow
  <2>. QED  BY <2>1, <2>2, <2>3, FinalUntouched
<1>. QED  BY <1>1, <1>2

(* Nobody else moves a thread that has ended, or undoes its outcome.       *)
LEMMA OthersFinalInv ==
  ASSUME TypeOK, FinalInv,
         \/ \E r \in Runs : DeleteStep(r) \/ ProcExit(r)
         \/ \E c \in Cancellers, w \in Workers, r \in Runs : CancelFetch(c, w, r)
         \/ \E c \in Cancellers : CancelStep(c)
         \/ OtherQueryFails \/ UNCHANGED vars
  PROVE  FinalInv'
<1>1. UNCHANGED <<pc, outcome, task>>
  BY ZenonT(40) DEF DeleteStep, DeleteRun, CollectRun, ProcExit, CancelFetch, CancelStep, CancelStages,
         CancelSave, CancelLookup, CancelSet, CancelTerminate, OtherQueryFails, vars
<1>2. \A r \in Runs : run'[r] \in {run[r], "cancelled", "deleted"}
  <2>1. ASSUME NEW q \in Runs, NEW x \in {"cancelled", "deleted"}, run' = [run EXCEPT ![q] = x]
        PROVE  \A r \in Runs : run'[r] \in {run[r], "cancelled", "deleted"}
    BY <2>1 DEF TypeOK
  <2>2. ASSUME NEW q \in Runs, DeleteRun(q)
        PROVE  \A r \in Runs : run'[r] \in {run[r], "cancelled", "deleted"}
    BY <2>1, <2>2 DEF DeleteRun
  <2>3. ASSUME NEW c \in Cancellers, CancelSave(c)
        PROVE  \A r \in Runs : run'[r] \in {run[r], "cancelled", "deleted"}
    BY <2>3 DEF CancelSave, TypeOK
  <2>4. CASE UNCHANGED run  BY <2>4
  <2>. QED
    BY <2>2, <2>3, <2>4
       DEF DeleteStep, CollectRun, ProcExit, CancelFetch, CancelStep, CancelStages, CancelLookup,
           CancelSet, CancelTerminate, OtherQueryFails, vars
<1>. QED  BY <1>1, <1>2 DEF FinalInv, HadRow, RunFinal, TaskFinal

LEMMA WorkerFinalInv ==
  ASSUME TypeOK, FinalInv, NEW w \in Workers, BootStep(w) \/ Crash(w)
  PROVE  FinalInv'
<1> USE DEF TypeOK, FinalInv, HadRow, RunFinal, TaskFinal
<1>1. CASE Fork(w) \/ MarkCheck(w) \/ MarkStages(w)
  BY <1>1 DEF Fork, MarkCheck, MarkStages
<1>2. CASE MarkRuns(w)   BY <1>2, FinalType DEF MarkRuns
<1>3. CASE MarkTasks(w)  BY <1>3, FinalType DEF MarkTasks
<1>4. CASE Crash(w)
  <2>1. /\ UNCHANGED <<run, task>>
        /\ pc' = [r \in Runs |-> IF home[r] = w /\ InFlight(r) THEN "dead" ELSE pc[r]]
        /\ outcome' = [r \in Runs |-> IF home[r] = w /\ InFlight(r) THEN TRUE ELSE outcome[r]]
    BY <1>4 DEF Crash
  <2>2. \A r \in Runs : pc'[r] # "dead" => pc'[r] = pc[r] /\ Final(r)' = Final(r)
    BY <2>1
  <2>. QED  BY <2>1, <2>2
<1>. QED  BY <1>1, <1>2, <1>3, <1>4 DEF BootStep

LEMMA FinalInvNext == TypeOK /\ TypeOK' /\ FinalInv /\ [Next]_vars => FinalInv'
BY RunStepFinalInv, TriggerFinalInv, OthersFinalInv, WorkerFinalInv
   DEF Next, DeleteStep

(* A thread that ended in order left its outcome in its task, and in its   *)
(* run unless that was cancelled or deleted, for any interleaving of the   *)
(* boots and cancel requests (runner.py:181-194).                          *)
THEOREM OutcomesAgree == Spec => []RunAndTaskAgree
<1>1. Init => FinalInv
  BY DEF Init, FinalInv, HadRow, RunFinal, TaskFinal
<1>2. FinalInv => RunAndTaskAgree
  BY DEF FinalInv, RunFinal, TaskFinal, RunAndTaskAgree
<1>. QED  BY <1>1, <1>2, FinalInvNext, TypeCorrect, PTL DEF Spec

-----------------------------------------------------------------------------
LEMMA StepKeepsCancelled ==
  ASSUME TypeOK, RowsInv, [Next]_vars, NEW r \in Runs,
         run[r] = "cancelled", pc[r] # "start"
  PROVE  run'[r] \in {"cancelled", "deleted"}
<1> USE DEF TypeOK
<1>0. pc[r] # "create"
  BY DEF RowsInv, RowsFollowThread
<1>1. ASSUME NEW q \in Runs, RunStep(q)
      PROVE  run'[r] \in {"cancelled", "deleted"}
  <2>1. CASE CreateRun(q)  BY <1>0, <2>1 DEF CreateRun
  <2>2. CASE StartRun(q)   BY <2>2 DEF StartRun
  <2>3. CASE FinalRun(q)   BY <2>3 DEF FinalRun
  <2>4. CASE UNCHANGED run BY <2>4
  <2>. QED
    BY <1>1, <2>1, <2>2, <2>3, <2>4
       DEF RunStep, CreateTask, Register, StartTask, Setup, CheckCancel, BeginStage, Popen,
           RegisterProc, ReapProc, EndStage, Unregister, FinalTask
<1>2. ASSUME NEW c \in Cancellers, CancelStep(c)
      PROVE  run'[r] \in {"cancelled", "deleted"}
  <2>1. CASE CancelSave(c)  BY <2>1 DEF CancelSave
  <2>2. CASE UNCHANGED run  BY <2>2
  <2>. QED
    BY <1>2, <2>1, <2>2 DEF CancelStep, CancelStages, CancelLookup, CancelSet, CancelTerminate
<1>3. ASSUME NEW w \in Workers, BootStep(w) \/ Crash(w)
      PROVE  run'[r] \in {"cancelled", "deleted"}
  <2>1. CASE MarkRuns(w)    BY <2>1 DEF MarkRuns
  <2>2. CASE Crash(w)       BY <2>2 DEF Crash
  <2>3. CASE UNCHANGED run  BY <2>3
  <2>. QED
    BY <1>3, <2>1, <2>2, <2>3 DEF BootStep, Fork, MarkCheck, MarkStages, MarkTasks
<1>4. ASSUME NEW q \in Runs, DeleteStep(q)
      PROVE  run'[r] \in {"cancelled", "deleted"}
  BY <1>4 DEF DeleteStep, DeleteRun, CollectRun
<1>5. CASE UNCHANGED run  BY <1>5
<1>. QED
  BY <1>1, <1>2, <1>3, <1>4, <1>5
     DEF Next, DeleteStep, TriggerCheck, ProcExit, RunQueryFails, CancelFetch, OtherQueryFails, vars

(* 'cancelled' is final once the thread has marked its run as running, for *)
(* any number of requests, boots and failures (runner.py:186-188).         *)
THEOREM CancelledIsFinal == Spec => CancelledStays
<1>1. OrphanInv /\ [Next]_vars
        => [\A r \in Runs : run[r] = "cancelled" /\ pc[r] # "start"
                              => run'[r] \in {"cancelled", "deleted"}]_vars
  BY StepKeepsCancelled DEF OrphanInv
<1>. QED  BY <1>1, OrphanInvariant, PTL DEF Spec, CancelledStays

-----------------------------------------------------------------------------
(* The cancel flag and the stages.                                         *)

AtStage == {"begin", "work", "popen", "wait", "reaped"}

(* A stage that has ended leads to another look at the flag, to the notify *)
(* stage or to the end.                                                    *)
LEMMA AfterStageGoes ==
  ASSUME TypeOK, NEW r \in Runs, NEW ok \in BOOLEAN, AfterStage(r, ok)
  PROVE  \E l \in {"unregister", "check", "begin"} :
           Goto(r, l) /\ (l = "begin" => k'[r] = N + 1)
<1>1. k \in [Runs -> Stages] /\ k[r] \in 1..(N + 1) /\ N \in Nat
  BY LifecycleAssumption DEF TypeOK
<1> DEFINE l == CASE k[r] = N + 1   -> "unregister"
                  [] ok /\ k[r] < N -> "check"
                  [] OTHER          -> "begin"
<1>2. Goto(r, l)
  BY DEF AfterStage
<1>3. k'[r] = IF k[r] > N \/ ~ok THEN N + 1 ELSE k[r] + 1
  BY <1>1 DEF AfterStage
<1>4. l \in {"unregister", "check", "begin"}
  OBVIOUS
<1>5. l = "begin" => k'[r] = N + 1
  <2>1. CASE ~ok             BY <1>3, <2>1
  <2>2. CASE k[r] = N + 1    BY <1>1, <1>3, <2>2
  <2>3. CASE ok /\ k[r] < N  BY <1>1, <2>3
  <2>4. CASE k[r] = N        BY <1>1, <1>3, <2>4
  <2>. QED  BY <1>1, <2>1, <2>2, <2>3, <2>4
<1>. HIDE DEF l
<1>. QED  BY <1>2, <1>4, <1>5

(* A crash kills a thread or leaves it alone.                              *)
LEMMA CrashKills ==
  ASSUME NEW w \in Workers, Crash(w), NEW r \in Runs
  PROVE  \/ pc'[r] = "dead"
         \/ pc'[r] = pc[r] /\ k'[r] = k[r] /\ signal'[r] = signal[r]
<1> DEFINE killed == home[r] = w /\ InFlight(r)
<1>1. pc'[r] = IF killed THEN "dead" ELSE pc[r]        BY DEF Crash
<1>2. k'[r] = IF killed THEN 1 ELSE k[r]               BY DEF Crash
<1>3. signal'[r] = IF killed THEN 0 ELSE signal[r]     BY DEF Crash
<1>4. CASE killed   BY <1>1, <1>4
<1>5. CASE ~killed  BY <1>1, <1>2, <1>3, <1>5
<1>. QED  BY <1>4, <1>5

LEMMA StepKeepsSignal ==
  ASSUME TypeOK, TypeOK', SignalStopsPipeline, [Next]_vars
  PROVE  SignalStopsPipeline'
<1> USE LifecycleAssumption DEF TypeOK, SignalStopsPipeline
<1>0. ASSUME UNCHANGED <<pc, k, signal>>  PROVE SignalStopsPipeline'
  BY <1>0
<1>1. ASSUME NEW r \in Runs, NEW l \in ThreadPC \cup TriggerPC \cup {"dead"}, Goto(r, l),
             UNCHANGED signal, \A q \in Runs : q # r => k'[q] = k[q],
             l \in AtStage => k'[r] = N + 1 \/ (pc[r] \in AtStage /\ k'[r] = k[r])
                              \/ signal[r] = 0
      PROVE  SignalStopsPipeline'
  BY <1>1 DEF AtStage
<1>7. ASSUME NEW r \in Runs, NEW ok \in BOOLEAN, AfterStage(r, ok), UNCHANGED signal
      PROVE  SignalStopsPipeline'
  <2>1. \A q \in Runs : q # r => k'[q] = k[q]
    BY <1>7 DEF AfterStage
  <2>2. PICK l \in {"unregister", "check", "begin"} : Goto(r, l) /\ (l = "begin" => k'[r] = N + 1)
    BY AfterStageGoes, <1>7
  <2>. QED  BY <1>1, <1>7, <2>1, <2>2 DEF AtStage
<1>2. ASSUME NEW r \in Runs, RunStep(r)  PROVE SignalStopsPipeline'
  <2>1. CASE CheckCancel(r)
    <3>1. /\ Goto(r, "begin") /\ UNCHANGED signal
          /\ signal[r] # 0 => k' = [k EXCEPT ![r] = N + 1]
          /\ signal[r] = 0 => UNCHANGED k
      BY <2>1 DEF CheckCancel
    <3>2. \A q \in Runs : q # r => k'[q] = k[q]
      BY <3>1
    <3>3. k'[r] = N + 1 \/ signal[r] = 0
      BY <3>1
    <3>. QED  BY <1>1, <3>1, <3>2, <3>3
  <2>2. CASE EndStage(r)
    <3>1. PICK ok \in BOOLEAN : AfterStage(r, ok) /\ UNCHANGED registry
      BY <2>2 DEF EndStage
    <3>. QED  BY <3>1, <1>7
  <2>3. CASE FinalTask(r)  BY <2>3 DEF FinalTask
  <2>4. ASSUME NEW l \in ThreadPC \cup TriggerPC \cup {"dead"}, Goto(r, l), UNCHANGED <<k, signal>>,
               l \in AtStage => pc[r] \in AtStage
        PROVE  SignalStopsPipeline'
    BY <1>1, <2>4
  <2>5. CASE UNCHANGED <<k, signal>> /\ \E l \in {"createTask", "register", "dead", "start",
                                   "startTask", "setup", "check", "unregister", "finalRun", "finalTask"} : Goto(r, l)
    BY <2>4, <2>5 DEF AtStage
  <2>6. CASE BeginStage(r) \/ Popen(r) \/ RegisterProc(r) \/ ReapProc(r)
    BY <2>4, <2>6 DEF BeginStage, Popen, RegisterProc, ReapProc, AtStage
  <2>. QED
    BY <1>2, <2>1, <2>2, <2>3, <2>5, <2>6
       DEF RunStep, CreateRun, CreateTask, Register, StartRun, StartTask, Setup, Unregister, FinalRun
<1>3. ASSUME NEW r \in Runs, NEW w \in Workers, TriggerCheck(r, w)  PROVE SignalStopsPipeline'
  BY <1>3, <1>1 DEF TriggerCheck, AtStage
<1>4. ASSUME NEW r \in Runs, RunQueryFails(r)  PROVE SignalStopsPipeline'
  <2>0. UNCHANGED signal
    BY <1>4 DEF RunQueryFails
  <2>1. ASSUME NEW ok \in BOOLEAN, AfterStage(r, ok)  PROVE SignalStopsPipeline'
    BY <2>0, <2>1, <1>7
  <2>2. CASE UNCHANGED k /\ \E l \in {"dead", "unregister"} : Goto(r, l)
    BY <2>0, <2>2, <1>1 DEF AtStage
  <2>3. CASE pc[r] = "begin" /\ Goto(r, "work") /\ UNCHANGED k
    BY <2>0, <2>3, <1>1 DEF AtStage
  <2>. QED  BY <1>4, <2>1, <2>2, <2>3 DEF RunQueryFails
<1>5. ASSUME NEW c \in Cancellers, CancelSet(c)  PROVE SignalStopsPipeline'
  <2>1. /\ UNCHANGED <<pc, k>>
        /\ signal' = [signal EXCEPT ![cancel[c].run] =
                        IF cancel[c].event /\ @ = 0 /\ InFlight(cancel[c].run)
                        THEN k[cancel[c].run] ELSE @]
    BY <1>5 DEF CancelSet
  <2>2. \A r \in Runs : signal'[r] # signal[r] => signal'[r] = k[r]
    BY <2>1
  <2>. QED  BY <2>1, <2>2
<1>6. ASSUME NEW w \in Workers, Crash(w)  PROVE SignalStopsPipeline'
  BY <1>6, CrashKills
<1>. QED
  BY <1>0, <1>2, <1>3, <1>4, <1>5, <1>6
     DEF Next, ProcExit, DeleteRun, CollectRun, CancelFetch, CancelStep, CancelStages, CancelSave,
         CancelLookup,
         CancelTerminate, BootStep, Fork, MarkCheck, MarkStages, MarkRuns, MarkTasks,
         OtherQueryFails, vars

(* A set cancel event stops the pipeline after the stage it was set in,    *)
(* for any number of stages and requests (orchestrator.py:55-56).          *)
THEOREM SignalIsObeyed == Spec => []SignalStopsPipeline
<1>1. Init => SignalStopsPipeline
  BY DEF Init, SignalStopsPipeline
<1>. QED  BY <1>1, StepKeepsSignal, TypeCorrect, PTL DEF Spec

-----------------------------------------------------------------------------
(* Open stages.  NoOpenStageAfterThread looks at a thread that has ended;  *)
(* the invariant says where an open stage is at any time: as long as every *)
(* callback's query succeeded it is the one the thread is in, or was in    *)
(* when it died.                                                           *)
InStage(r) == pc[r] \in {"work", "popen", "wait", "reaped"}

OpenStageIsCurrent ==
  dbErrors = 0 =>
    \A r \in Runs, s \in Stages :
      stage[r][s] = "running" => pc[r] = "dead" \/ (InStage(r) /\ s = k[r])

(* Steps that open no stage, of a thread outside its stages or dying.      *)
LEMMA OpenStageUntouched ==
  ASSUME TypeOK, OpenStageIsCurrent, UNCHANGED dbErrors,
         \A r \in Runs, s \in Stages : stage'[r][s] = "running" => stage[r][s] = "running",
         \A r \in Runs : \/ pc'[r] = "dead"
                         \/ pc'[r] = pc[r] /\ k'[r] = k[r]
                         \/ ~InStage(r) /\ pc[r] # "dead"
                         \/ InStage(r) /\ InStage(r)' /\ k'[r] = k[r]
  PROVE  OpenStageIsCurrent'
BY DEF OpenStageIsCurrent, InStage

LEMMA RunStepOpenStage ==
  ASSUME TypeOK, TypeOK', OpenStageIsCurrent, NEW r \in Runs, RunStep(r)
  PROVE  OpenStageIsCurrent'
<1>s. /\ stage \in [Runs -> [Stages -> {"none", "running"} \cup Settled]]
      /\ k[r] \in Stages
  BY DEF TypeOK
<1>1. ASSUME NEW l \in ThreadPC \cup TriggerPC \cup {"dead", "done"}, Goto(r, l),
             UNCHANGED <<stage, dbErrors>>, \A q \in Runs : q # r => k'[q] = k[q],
             \/ ~InStage(r) /\ pc[r] # "dead"
             \/ InStage(r) /\ l \in {"popen", "wait", "reaped"} /\ UNCHANGED k
      PROVE  OpenStageIsCurrent'
  <2>1. \A q \in Runs : \/ pc'[q] = pc[q] /\ k'[q] = k[q]
                        \/ ~InStage(q) /\ pc[q] # "dead"
                        \/ InStage(q) /\ InStage(q)' /\ k'[q] = k[q]
    BY <1>1 DEF InStage, TypeOK
  <2>. QED  BY <1>1, <2>1, OpenStageUntouched
<1>2. CASE BeginStage(r)
  <2>1. /\ pc' = [pc EXCEPT ![r] = "work"] /\ UNCHANGED <<k, dbErrors>>
        /\ pc[r] = "begin"
    BY <1>2 DEF BeginStage
  <2>2. \A q \in Runs, s \in Stages :
          stage'[q][s] = "running" => stage[q][s] = "running" \/ (q = r /\ s = k[r])
    <3>1. PICK v : stage' = [stage EXCEPT ![r][k[r]] = v]
      BY <1>2 DEF BeginStage
    <3>2. \A q \in Runs, s \in Stages :
            stage'[q][s] = IF q = r /\ s = k[r] THEN v ELSE stage[q][s]
      <4>1. stage' = [stage EXCEPT ![r] = [stage[r] EXCEPT ![k[r]] = v]]
        BY <3>1
      <4>2. \A q \in Runs : stage'[q] = IF q = r THEN [stage[r] EXCEPT ![k[r]] = v] ELSE stage[q]
        BY <1>s, <4>1
      <4>3. \A s \in Stages : [stage[r] EXCEPT ![k[r]] = v][s] = IF s = k[r] THEN v ELSE stage[r][s]
        BY <1>s
      <4>. QED  BY <4>2, <4>3
    <3>. QED  BY <3>2
  <2>. QED  BY <2>1, <2>2 DEF OpenStageIsCurrent, InStage, TypeOK
<1>3. CASE EndStage(r)
  <2>1. /\ InStage(r) /\ UNCHANGED dbErrors
        /\ \A q \in Runs : q # r => pc'[q] = pc[q] /\ k'[q] = k[q]
    <3>1. PICK ok \in BOOLEAN : StageOver(r, ok) /\ AfterStage(r, ok) /\ UNCHANGED faults
      BY <1>3 DEF EndStage
    <3>2. InStage(r)
      BY <3>1 DEF StageOver, InStage
    <3>3. \A q \in Runs : q # r => pc'[q] = pc[q] /\ k'[q] = k[q]
      BY <3>1 DEF AfterStage, TypeOK
    <3>. QED  BY <3>1, <3>2, <3>3
  <2>2. \A q \in Runs, s \in Stages :
          stage'[q][s] = "running" => stage[q][s] = "running" /\ ~(q = r /\ s = k[r])
    <3>1. PICK ok \in BOOLEAN : stage' = [stage EXCEPT ![r][k[r]] =
             IF stage[r][k[r]] = "none" THEN stage[r][k[r]] ELSE IF ok THEN "success" ELSE "failed"]
      BY <1>3 DEF EndStage
    <3>2. PICK v : v # "running" /\ stage' = [stage EXCEPT ![r][k[r]] = v]
      <4>1. CASE stage[r][k[r]] = "none"              BY <3>1, <4>1
      <4>2. CASE stage[r][k[r]] # "none" /\ ok        BY <3>1, <4>2
      <4>3. CASE stage[r][k[r]] # "none" /\ ok = FALSE  BY <3>1, <4>3
      <4>. QED  BY <4>1, <4>2, <4>3
    <3>3. \A q \in Runs, s \in Stages :
            stage'[q][s] = IF q = r /\ s = k[r] THEN v ELSE stage[q][s]
      <4>1. stage' = [stage EXCEPT ![r] = [stage[r] EXCEPT ![k[r]] = v]]
        BY <3>2
      <4>2. \A q \in Runs : stage'[q] = IF q = r THEN [stage[r] EXCEPT ![k[r]] = v] ELSE stage[q]
        BY <1>s, <4>1
      <4>3. \A s \in Stages : [stage[r] EXCEPT ![k[r]] = v][s] = IF s = k[r] THEN v ELSE stage[r][s]
        BY <1>s
      <4>. QED  BY <4>2, <4>3
    <3>. QED  BY <3>2, <3>3
  <2>3. SUFFICES ASSUME dbErrors = 0, NEW q \in Runs, NEW s \in Stages, stage'[q][s] = "running"
                 PROVE  pc'[q] = "dead" \/ (InStage(q)' /\ s = k'[q])
    BY <2>1 DEF OpenStageIsCurrent
  <2>4. pc[q] = "dead" \/ (InStage(q) /\ s = k[q])
    BY <2>2, <2>3 DEF OpenStageIsCurrent
  <2>5. q # r
    BY <2>1, <2>2, <2>3, <2>4 DEF InStage, TypeOK
  <2>. QED  BY <2>1, <2>4, <2>5 DEF InStage, TypeOK
<1>4. CASE CheckCancel(r)
  <2>1. /\ Goto(r, "begin") /\ pc[r] = "check" /\ UNCHANGED <<stage, dbErrors>>
        /\ \A q \in Runs : q # r => k'[q] = k[q]
    BY <1>4 DEF CheckCancel, TypeOK
  <2>. QED  BY <1>1, <2>1 DEF InStage, TypeOK
<1>5. CASE FinalTask(r)
  BY <1>1, <1>5 DEF FinalTask, InStage
<1>6. CASE UNCHANGED <<stage, k, dbErrors>> /\ ~InStage(r) /\ pc[r] # "dead"
             /\ \E l \in ThreadPC \cup TriggerPC \cup {"dead"} : Goto(r, l)
  BY <1>1, <1>6
<1>7. CASE Popen(r) \/ RegisterProc(r) \/ ReapProc(r)
  BY <1>1, <1>7 DEF Popen, RegisterProc, ReapProc, InStage
<1>8. CASE CreateRun(r) \/ CreateTask(r) \/ Register(r) \/ StartRun(r)
  BY <1>6, <1>8 DEF CreateRun, CreateTask, Register, StartRun, InStage
<1>9. CASE StartTask(r) \/ Setup(r) \/ Unregister(r) \/ FinalRun(r)
  BY <1>6, <1>9 DEF StartTask, Setup, Unregister, FinalRun, InStage
<1>. QED
  BY <1>2, <1>3, <1>4, <1>5, <1>7, <1>8, <1>9 DEF RunStep

LEMMA StepKeepsOpenStage ==
  ASSUME TypeOK, TypeOK', OpenStageIsCurrent, [Next]_vars
  PROVE  OpenStageIsCurrent'
<1> USE DEF TypeOK
<1>1. ASSUME NEW r \in Runs, NEW w \in Workers, TriggerCheck(r, w)
      PROVE  OpenStageIsCurrent'
  <2>1. /\ pc[r] = "idle" /\ Goto(r, "create")
        /\ UNCHANGED <<stage, k, dbErrors>>
    BY <1>1 DEF TriggerCheck
  <2>. QED  BY <2>1, OpenStageUntouched DEF InStage
<1>2. CASE OtherQueryFails \/ \E r \in Runs : RunQueryFails(r)
  <2>1. dbErrors' # 0
    BY <1>2 DEF OtherQueryFails, RunQueryFails
  <2>. QED  BY <2>1 DEF OpenStageIsCurrent
<1>3. ASSUME NEW w \in Workers, Crash(w)  PROVE OpenStageIsCurrent'
  <2>1. UNCHANGED <<stage, dbErrors>>
    BY <1>3 DEF Crash
  <2>2. \A r \in Runs : pc'[r] = "dead" \/ (pc'[r] = pc[r] /\ k'[r] = k[r])
    BY <1>3, CrashKills
  <2>. QED  BY <2>1, <2>2, OpenStageUntouched
<1>4. ASSUME UNCHANGED <<pc, k, dbErrors>>,
             \A r \in Runs, s \in Stages : stage'[r][s] = "running" => stage[r][s] = "running"
      PROVE  OpenStageIsCurrent'
  BY <1>4, OpenStageUntouched
<1>5. ASSUME NEW r \in Runs, DeleteRun(r)  PROVE OpenStageIsCurrent'
  BY <1>4, <1>5 DEF DeleteRun
<1>6. ASSUME NEW c \in Cancellers, CancelStages(c)  PROVE OpenStageIsCurrent'
  BY <1>4, <1>6 DEF CancelStages
<1>7. ASSUME NEW w \in Workers, MarkStages(w)  PROVE OpenStageIsCurrent'
  BY <1>4, <1>7 DEF MarkStages
<1>8. CASE UNCHANGED <<stage, pc, k, dbErrors>>
  BY <1>4, <1>8
<1>. QED
  BY <1>1, <1>2, <1>3, <1>5, <1>6, <1>7, <1>8, RunStepOpenStage
     DEF Next, CollectRun, ProcExit, CancelFetch, CancelStep, CancelSave, CancelLookup, CancelSet,
         CancelTerminate, BootStep, Fork, MarkCheck, MarkRuns, MarkTasks, vars

(* A thread that ends in order closed the stages it opened, whatever was   *)
(* cancelled or repaired under it (orchestrator.py:74-104).                *)
THEOREM StagesAreClosed == Spec => []NoOpenStageAfterThread
<1>1. Init => OpenStageIsCurrent
  BY DEF Init, OpenStageIsCurrent
<1>2. OpenStageIsCurrent => NoOpenStageAfterThread
  BY DEF OpenStageIsCurrent, NoOpenStageAfterThread, InStage
<1>. QED  BY <1>1, <1>2, StepKeepsOpenStage, TypeCorrect, PTL DEF Spec

-----------------------------------------------------------------------------
(* Cancelling with a single worker.  The worker that serves the request is *)
(* the run's home, so all that is needed is that the event is registered   *)
(* while the pipeline executes, and that only live workers are served.     *)
RegisteredWhileOn ==
  \A r \in Runs :
    pc[r] \in ThreadPC \ {"register", "finalRun", "finalTask"} => registered[r]

CancelAtWorker == \A c \in Cancellers : cancel[c].pc # "idle" => cancel[c].at \in Workers

RegistryInv == RegisteredWhileOn /\ CancelAtWorker

LEMMA StepKeepsRegistered ==
  ASSUME TypeOK, TypeOK', RegisteredWhileOn, [Next]_vars
  PROVE  RegisteredWhileOn'
<1> USE DEF TypeOK, RegisteredWhileOn
<1>1. ASSUME UNCHANGED <<pc, registered>>  PROVE RegisteredWhileOn'
  BY <1>1
<1>2. ASSUME NEW r \in Runs, NEW l \in ThreadPC \cup TriggerPC \cup {"dead", "done"}, Goto(r, l),
             UNCHANGED registered,
             \/ l \notin ThreadPC \ {"register", "finalRun", "finalTask"}
             \/ pc[r] \in ThreadPC \ {"register", "finalRun", "finalTask"}
      PROVE  RegisteredWhileOn'
  BY <1>2
<1>3. ASSUME NEW r \in Runs, RunStep(r)  PROVE RegisteredWhileOn'
  <2>1. CASE Register(r)    BY <2>1 DEF Register
  <2>2. CASE Unregister(r)  BY <2>2 DEF Unregister
  <2>3. CASE CreateRun(r) \/ CreateTask(r) \/ StartRun(r) \/ StartTask(r)
    BY <1>2, <2>3 DEF CreateRun, CreateTask, StartRun, StartTask
  <2>4. CASE Setup(r) \/ BeginStage(r) \/ FinalRun(r) \/ FinalTask(r)
    BY <1>2, <2>4 DEF Setup, BeginStage, FinalRun, FinalTask
  <2>5. CASE CheckCancel(r)
    <3>1. Goto(r, "begin") /\ pc[r] = "check" /\ UNCHANGED registered
      BY <2>5 DEF CheckCancel
    <3>. QED  BY <1>2, <3>1
  <2>6. CASE Popen(r) \/ RegisterProc(r) \/ ReapProc(r)
    BY <1>2, <2>6 DEF Popen, RegisterProc, ReapProc
  <2>7. CASE EndStage(r)
    <3>1. PICK ok \in BOOLEAN : StageOver(r, ok) /\ AfterStage(r, ok) /\ UNCHANGED registry
      BY <2>7 DEF EndStage
    <3>2. pc[r] \in {"work", "reaped"}
      BY <3>1 DEF StageOver
    <3>3. PICK l \in {"unregister", "check", "begin"} : Goto(r, l)
      BY <3>1, AfterStageGoes
    <3>. QED  BY <1>2, <3>1, <3>2, <3>3
  <2>. QED
    BY <1>3, <2>1, <2>2, <2>3, <2>4, <2>5, <2>6, <2>7 DEF RunStep
<1>4. ASSUME NEW r \in Runs, NEW w \in Workers, TriggerCheck(r, w)  PROVE RegisteredWhileOn'
  BY <1>2, <1>4 DEF TriggerCheck
<1>5. ASSUME NEW r \in Runs, RunQueryFails(r)  PROVE RegisteredWhileOn'
  <2>0. UNCHANGED registered
    BY <1>5 DEF RunQueryFails
  <2>1. ASSUME NEW ok \in BOOLEAN, StageOver(r, ok), AfterStage(r, ok)  PROVE RegisteredWhileOn'
    <3>1. pc[r] \in {"work", "reaped"}
      BY <2>1 DEF StageOver
    <3>2. PICK l \in {"unregister", "check", "begin"} : Goto(r, l)
      BY <2>1, AfterStageGoes
    <3>. QED  BY <1>2, <2>0, <3>1, <3>2
  <2>2. CASE \/ Goto(r, "dead")
             \/ pc[r] \in {"start", "startTask"} /\ Goto(r, "unregister")
             \/ pc[r] = "begin" /\ Goto(r, "work")
    BY <1>2, <2>0, <2>2
  <2>. QED  BY <1>5, <2>1, <2>2 DEF RunQueryFails
<1>6. ASSUME NEW w \in Workers, Crash(w)  PROVE RegisteredWhileOn'
  <2>1. /\ pc' = [r \in Runs |-> IF home[r] = w /\ InFlight(r) THEN "dead" ELSE pc[r]]
        /\ registered' = [r \in Runs |-> registered[r] /\ home[r] # w]
    BY <1>6 DEF Crash
  <2>2. SUFFICES ASSUME NEW r \in Runs,
                        pc'[r] \in ThreadPC \ {"register", "finalRun", "finalTask"}
                 PROVE  registered'[r]
    OBVIOUS
  <2>3. pc'[r] = pc[r] /\ home[r] # w
    BY <2>1, <2>2 DEF InFlight
  <2>. QED  BY <2>1, <2>2, <2>3
<1>. QED
  BY <1>1, <1>3, <1>4, <1>5, <1>6
     DEF Next, ProcExit, DeleteRun, CollectRun, CancelFetch, CancelStep, CancelStages, CancelSave,
         CancelLookup,
         CancelSet, CancelTerminate, BootStep, Fork, MarkCheck, MarkStages, MarkRuns, MarkTasks,
         OtherQueryFails, vars

LEMMA StepKeepsCancelAt ==
  ASSUME TypeOK, CancelAtWorker, [Next]_vars
  PROVE  CancelAtWorker'
<1> USE DEF CancelAtWorker
<1>t. cancel \in [Cancellers -> CancelState]
  BY DEF TypeOK
<1>1. CASE UNCHANGED cancel
  BY <1>1
<1>2. ASSUME NEW c \in Cancellers, NEW w \in Workers, NEW r \in Runs, CancelFetch(c, w, r)
      PROVE  CancelAtWorker'
  <2> DEFINE s == [IdleCancel EXCEPT !.pc = "stages", !.run = r, !.at = w]
  <2>1. s.at \in Workers
    BY DEF IdleCancel
  <2>2. cancel' = [cancel EXCEPT ![c] = s]
    BY <1>2 DEF CancelFetch
  <2>. HIDE DEF s
  <2>. QED  BY <1>t, <2>1, <2>2
<1>3. ASSUME NEW c \in Cancellers, CancelEnds(c)  PROVE CancelAtWorker'
  BY <1>t, <1>3 DEF IdleCancel
<1>4. ASSUME NEW c \in Cancellers, cancel[c].pc # "idle",
             \A d \in Cancellers : /\ cancel'[d].at = cancel[d].at
                                   /\ d # c => cancel'[d].pc = cancel[d].pc
      PROVE  CancelAtWorker'
  BY <1>4
<1>5. ASSUME NEW c \in Cancellers, NEW l, cancel[c].pc # "idle", CancelGoto(c, l)
      PROVE  CancelAtWorker'
  <2>1. \A d \in Cancellers : /\ cancel'[d].at = cancel[d].at
                              /\ d # c => cancel'[d].pc = cancel[d].pc
    BY <1>t, <1>5 DEF CancelState
  <2>. QED  BY <1>4, <1>5, <2>1
<1>6. ASSUME NEW c \in Cancellers, CancelStep(c)  PROVE CancelAtWorker'
  <2>1. CASE CancelStages(c)     BY <1>5, <2>1 DEF CancelStages
  <2>2. CASE CancelSave(c)
    <3>1. CASE CancelEnds(c)            BY <1>3, <3>1
    <3>2. CASE CancelGoto(c, "lookup")  BY <1>5, <2>2, <3>2 DEF CancelSave
    <3>. QED  BY <2>2, <3>1, <3>2 DEF CancelSave
  <2>3. CASE CancelLookup(c)
    <3>1. PICK e, p : cancel' = [cancel EXCEPT ![c].pc = "set", ![c].event = e, ![c].proc = p]
      BY <2>3 DEF CancelLookup
    <3>2. \A d \in Cancellers : /\ cancel'[d].at = cancel[d].at
                                /\ d # c => cancel'[d].pc = cancel[d].pc
      BY <1>t, <3>1 DEF CancelState
    <3>. QED  BY <1>4, <2>3, <3>2 DEF CancelLookup
  <2>4. CASE CancelSet(c)        BY <1>5, <2>4 DEF CancelSet
  <2>5. CASE CancelTerminate(c)  BY <1>3, <2>5 DEF CancelTerminate
  <2>. QED  BY <1>6, <2>1, <2>2, <2>3, <2>4, <2>5 DEF CancelStep
<1>7. ASSUME NEW w \in Workers, Crash(w)  PROVE CancelAtWorker'
  <2>1. cancel' = [c \in Cancellers |-> IF cancel[c].at = w THEN IdleCancel ELSE cancel[c]]
    BY <1>7 DEF Crash
  <2>. QED  BY <2>1 DEF IdleCancel
<1>8. CASE OtherQueryFails
  BY <1>1, <1>3, <1>8 DEF OtherQueryFails
<1>9. ASSUME NEW r \in Runs, RunStep(r) \/ RunQueryFails(r) \/ ProcExit(r) \/ DeleteStep(r)
      PROVE  UNCHANGED cancel
  BY <1>9 DEF RunStep, CreateRun, CreateTask, Register, StartRun, StartTask, Setup, CheckCancel,
         BeginStage, Popen, RegisterProc, ReapProc, EndStage, Unregister, FinalRun, FinalTask,
         RunQueryFails, ProcExit, DeleteStep, DeleteRun, CollectRun
<1>10. ASSUME NEW w \in Workers, BootStep(w) \/ \E r \in Runs : TriggerCheck(r, w)
      PROVE  UNCHANGED cancel
  BY <1>10 DEF BootStep, Fork, MarkCheck, MarkStages, MarkRuns, MarkTasks, TriggerCheck
<1>11. CASE UNCHANGED vars  BY <1>1, <1>11 DEF vars
<1>. QED  BY <1>1, <1>2, <1>6, <1>7, <1>8, <1>9, <1>10, <1>11 DEF Next, DeleteStep

(* A step that begins no execution and cancels nothing, and takes neither  *)
(* the signal nor the request that is about to give it away.               *)
LEMMA SignalUntouched ==
  ASSUME CancelledIsSignalled,
         \A r \in Runs : run'[r] = "cancelled" /\ Executing(r)'
           => /\ run[r] = "cancelled" /\ Executing(r)
              /\ signal[r] # 0 => signal'[r] # 0
              /\ BeingSignalled(r) => signal'[r] # 0 \/ BeingSignalled(r)'
  PROVE  CancelledIsSignalled'
BY DEF CancelledIsSignalled

LEMMA RunStepSignalled ==
  ASSUME TypeOK, CancelledIsSignalled, NEW r \in Runs,
         RunStep(r) \/ RunQueryFails(r) \/ \E w \in Workers : TriggerCheck(r, w)
  PROVE  CancelledIsSignalled'
<1>1. UNCHANGED cancel /\ \A q \in Runs : BeingSignalled(q)' = BeingSignalled(q)
  <2>1. UNCHANGED cancel
    BY DEF RunStep, CreateRun, CreateTask, Register, StartRun, StartTask, Setup, CheckCancel,
           BeginStage, Popen, RegisterProc, ReapProc, EndStage, Unregister, FinalRun, FinalTask,
           RunQueryFails, TriggerCheck
  <2>. QED  BY <2>1 DEF BeingSignalled
<1>2. \A q \in Runs : q # r => /\ run'[q] = run[q] /\ signal'[q] = signal[q]
                               /\ Executing(q)' = Executing(q)
  <2>1. \A q \in Runs : q # r => run'[q] = run[q] /\ signal'[q] = signal[q] /\ pc'[q] = pc[q]
    BY DEF RunStep, CreateRun, CreateTask, Register, StartRun, StartTask, Setup, CheckCancel,
           BeginStage, Popen, RegisterProc, ReapProc, EndStage, AfterStage, Unregister, FinalRun,
           FinalTask, RunQueryFails, TriggerCheck, TypeOK
  <2>. QED  BY <2>1 DEF Executing
<1>3. run'[r] = "cancelled" /\ Executing(r)'
        => run[r] = "cancelled" /\ Executing(r) /\ signal'[r] = signal[r]
  <2> USE DEF TypeOK, Executing
  <2>1. CASE CreateRun(r) \/ CreateTask(r) \/ Register(r) \/ StartRun(r)
    BY <2>1 DEF CreateRun, CreateTask, Register, StartRun, Exists
  <2>2. CASE StartTask(r) \/ Setup(r) \/ BeginStage(r)
    BY <2>2 DEF StartTask, Setup, BeginStage
  <2>3. CASE CheckCancel(r)
    <3>1. pc[r] = "check" /\ UNCHANGED <<run, signal>>
      BY <2>3 DEF CheckCancel
    <3>. QED  BY <3>1
  <2>4. CASE Popen(r) \/ RegisterProc(r) \/ ReapProc(r)
    BY <2>4 DEF Popen, RegisterProc, ReapProc
  <2>5. CASE EndStage(r)
    <3>1. pc[r] \in {"work", "reaped"} /\ UNCHANGED <<run, signal>>
      BY <2>5 DEF EndStage, StageOver
    <3>. QED  BY <3>1
  <2>6. CASE Unregister(r) \/ FinalRun(r) \/ FinalTask(r)
    BY <2>6 DEF Unregister, FinalRun, FinalTask
  <2>7. CASE \E w \in Workers : TriggerCheck(r, w)
    BY <2>7 DEF TriggerCheck
  <2>8. CASE RunQueryFails(r)
    <3>1. UNCHANGED <<run, signal>>
      BY <2>8 DEF RunQueryFails
    <3>2. \/ Goto(r, "dead") \/ Goto(r, "unregister")
          \/ pc[r] \in {"begin", "work", "reaped"}
      BY <2>8 DEF RunQueryFails, StageOver
    <3>. QED  BY <3>1, <3>2
  <2>. QED
    BY <2>1, <2>2, <2>3, <2>4, <2>5, <2>6, <2>7, <2>8 DEF RunStep
<1>. QED  BY <1>1, <1>2, <1>3, SignalUntouched

(* The request itself: after its save it looks for the event, which a      *)
(* single worker has, and then sets it.                                    *)
LEMMA CancelSignalled ==
  ASSUME TypeOK, TypeOK', HomeKnown, RegistryInv, NEW W, Workers = {W}, CancelledIsSignalled,
         NEW c \in Cancellers, CancelStep(c)
  PROVE  CancelledIsSignalled'
<1>0. /\ UNCHANGED <<pc, k, home>> /\ cancel[c].pc # "idle" /\ cancel[c].run \in Runs
      /\ cancel \in [Cancellers -> CancelState] /\ run \in [Runs -> {"none", "deleted"} \cup Active \cup Settled]
      /\ signal \in [Runs -> {0} \cup Stages] /\ k \in [Runs -> Stages]
  BY DEF CancelStep, CancelStages, CancelSave, CancelLookup, CancelSet, CancelTerminate, TypeOK
<1>r. PICK r \in Runs : r = cancel[c].run
  BY <1>0
<1>1. \A q \in Runs : Executing(q)' = Executing(q)
  BY <1>0 DEF Executing
<1>2. ASSUME \A d \in Cancellers : d # c => cancel'[d] = cancel[d], UNCHANGED <<run, signal>>,
             cancel[c].pc \notin {"lookup", "set"}
      PROVE  CancelledIsSignalled'
  <2>1. \A q \in Runs : BeingSignalled(q) => BeingSignalled(q)'
    BY <1>2 DEF BeingSignalled
  <2>. QED  BY <1>1, <1>2, <2>1, SignalUntouched
<1>3. CASE CancelStages(c)
  BY <1>0, <1>2, <1>3 DEF CancelStages
<1>4. CASE CancelTerminate(c)
  BY <1>0, <1>2, <1>4 DEF CancelTerminate
<1>5. CASE CancelSave(c)
  <2>1. CASE UNCHANGED run /\ CancelEnds(c)
    BY <1>0, <1>2, <1>5, <2>1 DEF CancelSave
  <2>2. CASE run' = [run EXCEPT ![cancel[c].run] = "cancelled"] /\ CancelGoto(c, "lookup")
    <3>1. BeingSignalled(r)'
      BY <1>0, <1>r, <2>2 DEF BeingSignalled, CancelState
    <3>2. \A q \in Runs : BeingSignalled(q) => BeingSignalled(q)'
      BY <1>0, <1>5, <2>2 DEF BeingSignalled, CancelSave
    <3>3. UNCHANGED signal /\ \A q \in Runs : q # r => run'[q] = run[q]
      BY <1>0, <1>r, <1>5, <2>2 DEF CancelSave
    <3>. QED  BY <1>1, <3>1, <3>2, <3>3 DEF CancelledIsSignalled
  <2>. QED  BY <1>5, <2>1, <2>2 DEF CancelSave
<1>6. CASE CancelLookup(c)
  <2> DEFINE e == home[r] = cancel[c].at /\ registered[r]
             p == home[r] = cancel[c].at /\ procReg[r]
  <2>1. /\ cancel' = [cancel EXCEPT ![c].pc = "set", ![c].event = e, ![c].proc = p]
        /\ UNCHANGED <<run, signal>>
    BY <1>6, <1>r DEF CancelLookup
  <2>2. \A q \in Runs : BeingSignalled(q) /\ q # r => BeingSignalled(q)'
    BY <1>0, <1>r, <2>1 DEF BeingSignalled
  <2>3. Executing(r) => BeingSignalled(r)'
    <3>1. Executing(r) => e
      BY <1>0, <1>r DEF Executing, RegistryInv, RegisteredWhileOn, CancelAtWorker, HomeKnown
    <3>2. cancel'[c].run = r /\ cancel'[c].pc = "set" /\ cancel'[c].event = e
      BY <1>0, <1>r, <2>1 DEF CancelState
    <3>. QED  BY <3>1, <3>2 DEF BeingSignalled
  <2>. HIDE DEF e, p
  <2>. QED  BY <1>1, <2>1, <2>2, <2>3, SignalUntouched
<1>7. CASE CancelSet(c)
  <2>1. /\ UNCHANGED run /\ CancelGoto(c, "terminate") /\ cancel[c].pc = "set"
        /\ signal' = [signal EXCEPT ![r] =
                        IF cancel[c].event /\ @ = 0 /\ InFlight(r) THEN k[r] ELSE @]
    BY <1>7, <1>r DEF CancelSet
  <2>2. \A q \in Runs : BeingSignalled(q) /\ q # r => BeingSignalled(q)'
    BY <1>0, <1>r, <2>1 DEF BeingSignalled
  <2>3. \A q \in Runs : signal[q] # 0 => signal'[q] # 0
    BY <1>0, <1>r, <2>1
  <2>4. BeingSignalled(r) /\ Executing(r) => signal'[r] # 0 \/ BeingSignalled(r)'
    <3>1. SUFFICES ASSUME NEW d \in Cancellers, cancel[d].run = r, Executing(r),
                          cancel[d].pc = "lookup" \/ (cancel[d].pc = "set" /\ cancel[d].event)
                   PROVE  signal'[r] # 0 \/ BeingSignalled(r)'
      BY DEF BeingSignalled
    <3>2. CASE d # c
      BY <1>0, <1>r, <2>1, <3>1, <3>2 DEF BeingSignalled
    <3>3. CASE d = c
      <4>1. InFlight(r) /\ k[r] # 0 /\ cancel[c].event
        BY <1>0, <1>r, <2>1, <3>1, <3>3, LifecycleAssumption DEF Executing, InFlight
      <4>. QED  BY <1>0, <1>r, <2>1, <4>1
    <3>. QED  BY <3>2, <3>3
  <2>. QED  BY <1>1, <2>1, <2>2, <2>3, <2>4, SignalUntouched
<1>. QED  BY <1>3, <1>4, <1>5, <1>6, <1>7 DEF CancelStep

LEMMA WorkerSignalled ==
  ASSUME TypeOK, HomeKnown, NEW W, Workers = {W}, CancelledIsSignalled,
         NEW w \in Workers, BootStep(w) \/ Crash(w)
  PROVE  CancelledIsSignalled'
<1>1. CASE Crash(w)
  <2>1. \A r \in Runs : ~Executing(r)'
    <3>1. pc' = [r \in Runs |-> IF home[r] = w /\ InFlight(r) THEN "dead" ELSE pc[r]]
      BY <1>1 DEF Crash
    <3>. QED  BY <3>1 DEF Executing, InFlight, HomeKnown
  <2>. QED  BY <2>1 DEF CancelledIsSignalled
<1>2. CASE BootStep(w)
  <2>1. UNCHANGED <<pc, signal, cancel>>
    BY <1>2 DEF BootStep, Fork, MarkCheck, MarkStages, MarkRuns, MarkTasks
  <2>2. \A r \in Runs : run'[r] = "cancelled" => run[r] = "cancelled"
    BY <1>2 DEF BootStep, Fork, MarkCheck, MarkStages, MarkRuns, MarkTasks
  <2>. QED  BY <2>1, <2>2, SignalUntouched DEF Executing, BeingSignalled
<1>. QED  BY <1>1, <1>2

LEMMA OthersSignalled ==
  ASSUME TypeOK, CancelledIsSignalled,
         \/ \E r \in Runs : ProcExit(r) \/ DeleteStep(r)
         \/ \E c \in Cancellers, w \in Workers, r \in Runs : CancelFetch(c, w, r)
         \/ OtherQueryFails \/ UNCHANGED vars
  PROVE  CancelledIsSignalled'
<1>1. UNCHANGED <<pc, signal>> /\ \A r \in Runs : run'[r] = "cancelled" => run[r] = "cancelled"
  BY ZenonT(40)
     DEF ProcExit, DeleteStep, DeleteRun, CollectRun, CancelFetch, OtherQueryFails, vars, TypeOK
<1>2. \A c \in Cancellers : cancel[c].pc \in {"lookup", "set"} => cancel'[c] = cancel[c]
  BY ZenonT(40)
     DEF ProcExit, DeleteStep, DeleteRun, CollectRun, CancelFetch, OtherQueryFails, vars, TypeOK
<1>3. \A r \in Runs : BeingSignalled(r) => BeingSignalled(r)'
  BY <1>2 DEF BeingSignalled
<1>. QED  BY <1>1, <1>3, SignalUntouched DEF Executing

LEMMA StepKeepsSignalled ==
  ASSUME TypeOK, TypeOK', HomeKnown, RegistryInv, SingleWorkerCancelledIsSignalled, [Next]_vars
  PROVE  SingleWorkerCancelledIsSignalled'
<1>1. SUFFICES ASSUME Cardinality(Workers) = 1  PROVE CancelledIsSignalled'
  BY DEF SingleWorkerCancelledIsSignalled
<1>2. PICK W : Workers = {W}
  BY <1>1, FS_Singleton, LifecycleAssumption
<1>3. CancelledIsSignalled
  BY <1>1 DEF SingleWorkerCancelledIsSignalled
<1>. QED
  BY <1>2, <1>3, RunStepSignalled, CancelSignalled, WorkerSignalled, OthersSignalled
     DEF Next, DeleteStep

(* With one worker process a cancelled run that still executes has been    *)
(* signalled or is about to be, for any number of runs and requests        *)
(* (runner.py:47-55, 117-133, 184; runs.py:228-233).                       *)
THEOREM CancelReachesItsRun == Spec => []SingleWorkerCancelledIsSignalled
<1>1. Init => RegistryInv /\ SingleWorkerCancelledIsSignalled
  BY DEF Init, RegistryInv, RegisteredWhileOn, CancelAtWorker, IdleCancel,
         SingleWorkerCancelledIsSignalled, CancelledIsSignalled, Executing
<1>2. OrphanInv /\ OrphanInv' /\ RegistryInv /\ SingleWorkerCancelledIsSignalled /\ [Next]_vars
        => (RegistryInv /\ SingleWorkerCancelledIsSignalled)'
  BY StepKeepsRegistered, StepKeepsCancelAt, StepKeepsSignalled
     DEF OrphanInv, RowsInv, RegistryInv
<1>. QED  BY <1>1, <1>2, OrphanInvariant, PTL DEF Spec

-----------------------------------------------------------------------------
(* RunLifecycle implements RunRecord.  To be marked running, or to be      *)
(* given its outcome, a row must be there and hold no success yet: a       *)
(* thread keeps its task, and only the final updates write 'success'.      *)
ThreadHasTask == \A r \in Runs : pc[r] \in ThreadPC => task[r] # "none"

SuccessIsLast ==
  \A r \in Runs :
    /\ run[r] = "success" => pc[r] \in {"finalTask", "done", "dead"}
    /\ task[r] = "success" => pc[r] = "done"

RecordInv == ThreadHasTask /\ SuccessIsLast

(* Steps that neither settle a row nor end a thread in order.              *)
LEMMA RecordUntouched ==
  ASSUME TypeOK, RecordInv, NEW r \in Runs, UNCHANGED <<run, task>>,
         NEW l \in ThreadPC \cup {"create", "dead"}, Goto(r, l),
         pc[r] \notin {"finalTask", "done", "dead"},
         l \in ThreadPC => pc[r] \in ThreadPC
  PROVE  RecordInv'
BY DEF TypeOK, RecordInv, ThreadHasTask, SuccessIsLast

LEMMA RunStepRecordInv ==
  ASSUME TypeOK, RowsInv, RecordInv, NEW r \in Runs, RunStep(r)
  PROVE  RecordInv'
<1> USE DEF TypeOK
<1>q. ASSUME NEW l \in ThreadPC, Goto(r, l), pc[r] \in ThreadPC \ {"finalTask"},
             UNCHANGED <<run, task>>
      PROVE  RecordInv'
  BY <1>q, RecordUntouched
<1>1. CASE CreateRun(r)
  BY <1>1 DEF CreateRun, RecordInv, ThreadHasTask, SuccessIsLast
<1>2. CASE CreateTask(r)
  <2>1. CASE task' = [task EXCEPT ![r] = "pending"] /\ Goto(r, "register")
    BY <1>2, <2>1, ZenonT(40) DEF CreateTask, RecordInv, ThreadHasTask, SuccessIsLast
  <2>2. CASE UNCHANGED task /\ Goto(r, "dead")
    <3>1. pc[r] = "createTask" /\ UNCHANGED run  BY <1>2 DEF CreateTask
    <3>. QED  BY <2>2, <3>1, RecordUntouched
  <2>. QED  BY <1>2, <2>1, <2>2 DEF CreateTask
<1>3. CASE Register(r)      BY <1>3, <1>q DEF Register
<1>4. CASE StartRun(r)
  BY <1>4 DEF StartRun, RecordInv, ThreadHasTask, SuccessIsLast
<1>5. CASE StartTask(r)
  BY <1>5 DEF StartTask, RecordInv, ThreadHasTask, SuccessIsLast
<1>6. CASE Setup(r)         BY <1>6, <1>q DEF Setup
<1>7. CASE CheckCancel(r)   BY <1>7, <1>q DEF CheckCancel
<1>8. CASE BeginStage(r)    BY <1>8, <1>q DEF BeginStage
<1>9. CASE Popen(r)         BY <1>9, <1>q DEF Popen
<1>10. CASE RegisterProc(r) BY <1>10, <1>q DEF RegisterProc
<1>11. CASE ReapProc(r)     BY <1>11, <1>q DEF ReapProc
<1>12. CASE EndStage(r)
  <2>1. \E l \in {"check", "begin", "unregister"} : Goto(r, l)
    BY <1>12 DEF EndStage, AfterStage
  <2>2. pc[r] \in {"work", "reaped"} /\ UNCHANGED <<run, task>>
    BY <1>12 DEF EndStage, StageOver
  <2>. QED  BY <2>1, <2>2, <1>q
<1>13. CASE Unregister(r)   BY <1>13, <1>q DEF Unregister
<1>14. CASE FinalRun(r)
  BY <1>14 DEF FinalRun, RecordInv, ThreadHasTask, SuccessIsLast
<1>15. CASE FinalTask(r)
  BY <1>15 DEF FinalTask, RecordInv, ThreadHasTask, SuccessIsLast
<1>. QED
  BY <1>1, <1>2, <1>3, <1>4, <1>5, <1>6, <1>7, <1>8, <1>9, <1>10, <1>11, <1>12,
     <1>13, <1>14, <1>15 DEF RunStep

LEMMA OthersRecordInv ==
  ASSUME TypeOK, RowsInv, RecordInv,
         \/ \E r \in Runs : ProcExit(r) \/ DeleteStep(r) \/ RunQueryFails(r)
         \/ \E r \in Runs, w \in Workers : TriggerCheck(r, w)
         \/ \E c \in Cancellers, w \in Workers, r \in Runs : CancelFetch(c, w, r)
         \/ \E c \in Cancellers : CancelStep(c)
         \/ \E w \in Workers : BootStep(w) \/ Crash(w)
         \/ OtherQueryFails \/ UNCHANGED vars
  PROVE  RecordInv'
<1> USE DEF TypeOK
<1>a. ASSUME UNCHANGED pc,
             \A r \in Runs : /\ run'[r] = "success" => run[r] = "success"
                             /\ task'[r] \in {task[r], "failed"}
      PROVE  RecordInv'
  BY <1>a DEF RecordInv, ThreadHasTask, SuccessIsLast
<1>1. ASSUME NEW r \in Runs, NEW w \in Workers, TriggerCheck(r, w)  PROVE RecordInv'
  <2>1. pc[r] = "idle" /\ Goto(r, "create") /\ UNCHANGED <<run, task>>
    BY <1>1 DEF TriggerCheck
  <2>. QED  BY <2>1, RecordUntouched
<1>2. ASSUME NEW r \in Runs, RunQueryFails(r)  PROVE RecordInv'
  <2>1. UNCHANGED <<run, task>>
    BY <1>2 DEF RunQueryFails
  <2>2. CASE pc[r] \in {"create", "createTask", "finalRun", "finalTask"} /\ Goto(r, "dead")
    <3>1. task[r] # "success" /\ (run[r] = "success" => pc[r] = "finalTask")
      BY <2>2 DEF RecordInv, SuccessIsLast
    <3>. QED  BY <2>1, <2>2, <3>1 DEF RecordInv, ThreadHasTask, SuccessIsLast
  <2>3. CASE ~(pc[r] \in {"create", "createTask", "finalRun", "finalTask"} /\ Goto(r, "dead"))
    <3>1. /\ \E l \in {"unregister", "work", "check", "begin"} : Goto(r, l)
          /\ pc[r] \in {"start", "startTask", "begin", "work", "reaped"}
      BY <1>2, <2>3 DEF RunQueryFails, StageOver, AfterStage
    <3>. QED  BY <2>1, <3>1, RecordUntouched
  <2>. QED  BY <2>2, <2>3
<1>3. ASSUME NEW w \in Workers, Crash(w)  PROVE RecordInv'
  <2>1. /\ UNCHANGED <<run, task>>
        /\ \A r \in Runs : pc'[r] = pc[r] \/ (pc'[r] = "dead" /\ pc[r] # "done")
    BY <1>3 DEF Crash, InFlight
  <2>. QED  BY <2>1 DEF RecordInv, ThreadHasTask, SuccessIsLast
<1>4. ASSUME NEW w \in Workers, BootStep(w)  PROVE RecordInv'
  BY <1>4, <1>a DEF BootStep, Fork, MarkCheck, MarkStages, MarkRuns, MarkTasks
<1>5. ASSUME NEW c \in Cancellers, CancelStep(c)  PROVE RecordInv'
  BY <1>5, <1>a, ZenonT(40)
     DEF CancelStep, CancelStages, CancelSave, CancelLookup, CancelSet, CancelTerminate
<1>6. CASE \/ \E r \in Runs : ProcExit(r) \/ DeleteStep(r)
           \/ \E c \in Cancellers, w \in Workers, r \in Runs : CancelFetch(c, w, r)
           \/ OtherQueryFails \/ UNCHANGED vars
  BY <1>6, <1>a, ZenonT(40)
     DEF ProcExit, DeleteStep, DeleteRun, CollectRun, CancelFetch, OtherQueryFails, vars
<1>. QED  BY <1>1, <1>2, <1>3, <1>4, <1>5, <1>6

LEMMA RecordInvNext == TypeOK /\ RowsInv /\ RecordInv /\ [Next]_vars => RecordInv'
BY RunStepRecordInv, OthersRecordInv DEF Next, DeleteStep

Phases == [r \in Runs |-> PhaseOf(r)]
Results == [r \in Runs |-> ResultOf(r)]
Doomed == {r \in Runs : deleting[r] # NoWorker}

(* A thread that goes on moves its own phase and result only.              *)
LEMMA GotoMovesOne ==
  ASSUME TypeOK, NEW r \in Runs, NEW l, Goto(r, l),
         \A q \in Runs : q # r => outcome'[q] = outcome[q]
  PROVE  /\ Phases' = [Phases EXCEPT ![r] = PhaseOf(r)']
         /\ Results' = [Results EXCEPT ![r] = ResultOf(r)']
         /\ Phases[r] = PhaseOf(r) /\ Results[r] = ResultOf(r)
         /\ ResultOf(r)' = ResultOf(r) => UNCHANGED Results
         /\ pc'[r] = l
<1>1. pc'[r] = l /\ \A q \in Runs : q # r => pc'[q] = pc[q]
  BY DEF TypeOK
<1>2. \A q \in Runs : q # r => PhaseOf(q)' = PhaseOf(q) /\ ResultOf(q)' = ResultOf(q)
  BY <1>1 DEF PhaseOf, ResultOf
<1>3. Phases' = [Phases EXCEPT ![r] = PhaseOf(r)']
  BY <1>2 DEF Phases
<1>4. Results' = [Results EXCEPT ![r] = ResultOf(r)']
  BY <1>2 DEF Results
<1>5. ResultOf(r)' = ResultOf(r) => UNCHANGED Results
  BY <1>4 DEF Results
<1>. QED  BY <1>1, <1>3, <1>4, <1>5 DEF Phases, Results

(* A step within a phase shows nothing of itself.                          *)
Waiting == {"idle", "create", "createTask", "register", "start"}
OnTheWay == ThreadPC \ {"register", "start", "finalTask"}

LEMMA WithinPhase ==
  ASSUME TypeOK, NEW r \in Runs, NEW l, Goto(r, l),
         {pc[r], l} \subseteq Waiting \/ {pc[r], l} \subseteq OnTheWay,
         \A q \in Runs : q # r => outcome'[q] = outcome[q]
  PROVE  UNCHANGED <<Phases, Results>>
<1>1. pc'[r] = l
  BY DEF TypeOK
<1>2. PhaseOf(r)' = PhaseOf(r) /\ ResultOf(r)' = "none" /\ ResultOf(r) = "none"
  BY <1>1 DEF PhaseOf, ResultOf, Waiting, OnTheWay
<1>. QED  BY <1>2, GotoMovesOne DEF Phases, Results

LEMMA PhasesKept ==
  ASSUME UNCHANGED <<pc, outcome>>
  PROVE  UNCHANGED <<Phases, Results>>
BY DEF Phases, Results, PhaseOf, ResultOf

(* A trigger or thread that dies without having ended in order.            *)
LEMMA DeathShows ==
  ASSUME TypeOK, NEW D \in SUBSET {r \in Runs : InFlight(r)}, UNCHANGED <<run, task>>,
         \A r \in Runs : deleting'[r] \in {deleting[r], NoWorker},
         \A r \in Runs : IF r \in D THEN pc'[r] = "dead"
                         ELSE pc'[r] = pc[r] /\ outcome'[r] = outcome[r]
  PROVE  Record!Die
<1>1. \A r \in D : PhaseOf(r) # "over" /\ PhaseOf(r)' = "over" /\ ResultOf(r)' = "none"
  BY DEF InFlight, PhaseOf, ResultOf
<1>2. \A r \in Runs : r \notin D => PhaseOf(r)' = PhaseOf(r) /\ ResultOf(r)' = ResultOf(r)
  BY DEF PhaseOf, ResultOf
<1>3. D \in SUBSET {r \in Runs : Phases[r] # "over"}
  BY <1>1 DEF Phases
<1>4. /\ Phases' = [r \in Runs |-> IF r \in D THEN "over" ELSE Phases[r]]
      /\ Results' = [r \in Runs |-> IF r \in D THEN "none" ELSE Results[r]]
  BY <1>1, <1>2 DEF Phases, Results
<1>5. Doomed' \subseteq Doomed
  BY DEF Doomed
<1>. QED  BY <1>3, <1>4, <1>5 DEF Record!Die, Phases, Results, Doomed

RecordNext == Record!Next \/ UNCHANGED Record!record

LEMMA Shows ==
  ASSUME NEW r \in Runs,
         \/ Record!Create(r) \/ Record!Enqueue(r) \/ Record!Start(r) \/ Record!StartTask(r)
         \/ Record!Report(r) \/ Record!ReportTask(r) \/ Record!Cancel(r)
         \/ Record!Grant(r) \/ Record!Delete(r)
  PROVE  RecordNext
BY DEF RecordNext, Record!Next

LEMMA ShowsNothing ==
  ASSUME UNCHANGED <<run, task, deleting, Phases, Results>>
  PROVE  RecordNext
BY DEF RecordNext, Record!record, Phases, Results

LEMMA TriggerShows ==
  ASSUME TypeOK, RowsInv, NEW r \in Runs,
         CreateRun(r) \/ CreateTask(r) \/ \E w \in Workers : TriggerCheck(r, w)
  PROVE  RecordNext
<1>1. CASE \E w \in Workers : TriggerCheck(r, w)
  <2>1. pc[r] = "idle" /\ Goto(r, "create") /\ UNCHANGED <<run, task, deleting, outcome>>
    BY <1>1 DEF TriggerCheck
  <2>. QED  BY <2>1, WithinPhase, ShowsNothing DEF Waiting
<1>2. CASE CreateRun(r)
  <2>1. /\ pc[r] = "create" /\ Goto(r, "createTask") /\ UNCHANGED <<task, deleting, outcome>>
        /\ run' = [run EXCEPT ![r] = "pending"]
    BY <1>2 DEF CreateRun
  <2>2. run[r] = "none"
    BY <2>1 DEF RowsInv, RowsFollowThread
  <2>3. UNCHANGED <<Phases, Results>> /\ Phases[r] = "waiting"
    BY <2>1, WithinPhase DEF Waiting, Phases, PhaseOf
  <2>4. Record!Create(r)
    BY <2>1, <2>2, <2>3 DEF Record!Create, Phases, Results
  <2>. QED  BY <2>4, Shows
<1>3. CASE CreateTask(r)
  <2>1. pc[r] = "createTask" /\ UNCHANGED <<run, deleting, outcome>>
    BY <1>3 DEF CreateTask
  <2>2. CASE Exists(r) /\ task' = [task EXCEPT ![r] = "pending"] /\ Goto(r, "register")
    <3>1. run[r] # "none" /\ task[r] = "none"
      BY <2>1, <2>2 DEF RowsInv, RowsFollowThread, Exists
    <3>2. UNCHANGED <<Phases, Results>> /\ Phases[r] = "waiting"
      BY <2>1, <2>2, WithinPhase DEF Waiting, Phases, PhaseOf
    <3>3. Record!Enqueue(r)
      BY <2>1, <2>2, <3>1, <3>2 DEF Record!Enqueue, Phases, Results
    <3>. QED  BY <3>3, Shows
  <2>3. CASE UNCHANGED task /\ Goto(r, "dead")
    <3>1. {r} \in SUBSET {q \in Runs : InFlight(q)}
      BY <2>1 DEF InFlight
    <3>2. Record!Die
      BY <2>1, <2>3, <3>1, DeathShows DEF TypeOK
    <3>. QED  BY <3>2 DEF RecordNext, Record!Next
  <2>. QED  BY <1>3, <2>2, <2>3 DEF CreateTask
<1>. QED  BY <1>1, <1>2, <1>3

(* Marking the run as running, or failing to.                              *)
LEMMA StartShows ==
  ASSUME TypeOK, HadRow, RecordInv, NEW r \in Runs, pc[r] = "start",
         NEW l \in {"startTask", "unregister"}, Goto(r, l),
         \/ run' = [run EXCEPT ![r] = IF Exists(r) THEN "running" ELSE @]
         \/ UNCHANGED run,
         UNCHANGED <<task, deleting>>, \A q \in Runs : q # r => outcome'[q] = outcome[q]
  PROVE  Record!Start(r)
<1>1. run[r] \notin {"none", "success"}
  BY DEF HadRow, RecordInv, SuccessIsLast
<1>2. pc'[r] = l
  BY GotoMovesOne
<1>3. /\ PhaseOf(r) = "waiting" /\ ResultOf(r) = "none"
      /\ PhaseOf(r)' = "executing" /\ ResultOf(r)' = "none"
  BY <1>2 DEF PhaseOf, ResultOf
<1>4. Phases[r] = "waiting" /\ Phases' = [Phases EXCEPT ![r] = "executing"] /\ UNCHANGED Results
  BY <1>3, GotoMovesOne
<1>5. (run[r] # "deleted" /\ run' = [run EXCEPT ![r] = "running"]) \/ UNCHANGED run
  BY <1>1 DEF Exists, TypeOK
<1>. QED
  BY <1>1, <1>4, <1>5 DEF Record!Start, Record!Turn, Record!Unfinished, Phases, Results

LEMMA FinalShows ==
  ASSUME TypeOK, FinalInv, RecordInv, NEW r \in Runs, FinalRun(r) \/ FinalTask(r)
  PROVE  Record!Report(r) \/ Record!ReportTask(r)
<1>1. UNCHANGED outcome
  BY DEF FinalRun, FinalTask
<1>2. CASE FinalRun(r)
  <2>1. /\ pc[r] = "finalRun" /\ Goto(r, "finalTask") /\ UNCHANGED <<task, deleting>>
        /\ run' = [run EXCEPT ![r] = IF Exists(r) /\ run[r] # "cancelled" THEN Final(r) ELSE run[r]]
    BY <1>2 DEF FinalRun
  <2>2. run[r] \notin {"none", "success"}
    BY <2>1 DEF FinalInv, HadRow, RecordInv, SuccessIsLast
  <2>3. pc'[r] = "finalTask"
    BY <1>1, <2>1, GotoMovesOne
  <2>4. /\ PhaseOf(r) = "executing" /\ PhaseOf(r)' = "reported"
        /\ ResultOf(r)' = Final(r)
    BY <1>1, <2>1, <2>3 DEF PhaseOf, ResultOf
  <2>5. /\ Phases[r] = "executing" /\ Phases' = [Phases EXCEPT ![r] = "reported"]
        /\ Results' = [Results EXCEPT ![r] = Final(r)]
    BY <1>1, <2>1, <2>4, GotoMovesOne
  <2>6. run' = [run EXCEPT ![r] = IF run[r] \in {"cancelled", "deleted"} THEN run[r] ELSE Final(r)]
    BY <2>1, <2>2 DEF Exists
  <2>7. Record!Report(r)
    BY <2>1, <2>2, <2>5, <2>6, FinalType
       DEF Record!Report, Record!Turn, Record!Unfinished, Phases, Results
  <2>. QED  BY <2>7
<1>3. CASE FinalTask(r)
  <2>1. /\ pc[r] = "finalTask" /\ Goto(r, "done") /\ UNCHANGED <<run, deleting>>
        /\ task' = [task EXCEPT ![r] = Final(r)]
    BY <1>3 DEF FinalTask
  <2>2. task[r] \notin {"none", "success"}
    BY <2>1 DEF RecordInv, ThreadHasTask, SuccessIsLast
  <2>3. pc'[r] = "done"
    BY <1>1, <2>1, GotoMovesOne
  <2>4. /\ PhaseOf(r) = "reported" /\ PhaseOf(r)' = "over"
        /\ ResultOf(r) = Final(r) /\ ResultOf(r)' = Final(r)
    BY <1>1, <2>1, <2>3 DEF PhaseOf, ResultOf
  <2>5. /\ Phases[r] = "reported" /\ Phases' = [Phases EXCEPT ![r] = "over"]
        /\ UNCHANGED Results /\ Results[r] = Final(r)
    BY <1>1, <2>1, <2>4, GotoMovesOne
  <2>6. Record!ReportTask(r)
    BY <2>1, <2>2, <2>5 DEF Record!ReportTask, Record!Turn, Record!Unfinished, Phases, Results
  <2>. QED  BY <2>6
<1>. QED  BY <1>2, <1>3

LEMMA RunStepShows ==
  ASSUME TypeOK, RowsInv, FinalInv, RecordInv, NEW r \in Runs, RunStep(r)
  PROVE  RecordNext
<1> DEFINE Quiet(l) == /\ Goto(r, l)
                       /\ UNCHANGED <<run, task, deleting>>
                       /\ \A q \in Runs : q # r => outcome'[q] = outcome[q]
<1>q. ASSUME NEW l \in OnTheWay, pc[r] \in OnTheWay, Quiet(l)  PROVE RecordNext
  BY <1>q, WithinPhase, ShowsNothing, ZenonT(40)
<1>a. CASE pc[r] \in {"create", "createTask"}
  <2>1. CreateRun(r) \/ CreateTask(r)
    BY <1>a DEF RunStep, Register, StartRun, StartTask, Setup, CheckCancel, BeginStage, Popen,
                RegisterProc, ReapProc, EndStage, StageOver, Unregister, FinalRun, FinalTask
  <2>. QED  BY <2>1, TriggerShows
<1>3. CASE Register(r)
  <2>1. Quiet("start") /\ pc[r] = "register"  BY <1>3 DEF Register
  <2>. QED  BY <2>1, WithinPhase, ShowsNothing DEF Waiting
<1>4. CASE StartRun(r)
  BY <1>4, StartShows, Shows DEF StartRun, FinalInv
<1>5. CASE StartTask(r)
  <2>1. /\ pc[r] = "startTask" /\ Goto(r, "setup") /\ UNCHANGED <<run, deleting, outcome>>
        /\ task' = [task EXCEPT ![r] = "running"]
    BY <1>5 DEF StartTask
  <2>2. task[r] \notin {"none", "success"}
    BY <2>1 DEF RecordInv, ThreadHasTask, SuccessIsLast
  <2>3. UNCHANGED <<Phases, Results>> /\ Phases[r] = "executing"
    BY <2>1, WithinPhase DEF OnTheWay, Phases, PhaseOf
  <2>4. Record!StartTask(r)
    BY <2>1, <2>2, <2>3 DEF Record!StartTask, Record!Unfinished, Phases, Results
  <2>. QED  BY <2>4, Shows
<1>6. CASE Setup(r)
  <2>1. pc[r] = "setup" /\ (Quiet("check") \/ Quiet("unregister"))  BY <1>6 DEF Setup, TypeOK
  <2>. QED  BY <1>q, <2>1 DEF OnTheWay
<1>7. CASE CheckCancel(r)
  <2>1. pc[r] = "check" /\ Quiet("begin")  BY <1>7 DEF CheckCancel, TypeOK
  <2>. QED  BY <1>q, <2>1 DEF OnTheWay
<1>8. CASE BeginStage(r)
  <2>1. pc[r] = "begin" /\ Quiet("work")  BY <1>8 DEF BeginStage
  <2>. QED  BY <1>q, <2>1 DEF OnTheWay
<1>9. CASE Popen(r)
  <2>1. pc[r] = "work" /\ Quiet("popen")  BY <1>9 DEF Popen
  <2>. QED  BY <1>q, <2>1 DEF OnTheWay
<1>10. CASE RegisterProc(r)
  <2>1. pc[r] = "popen" /\ Quiet("wait")  BY <1>10 DEF RegisterProc
  <2>. QED  BY <1>q, <2>1 DEF OnTheWay
<1>11. CASE ReapProc(r)
  <2>1. pc[r] = "wait" /\ Quiet("reaped")  BY <1>11 DEF ReapProc
  <2>. QED  BY <1>q, <2>1 DEF OnTheWay
<1>12. CASE EndStage(r)
  <2>1. \E l \in {"check", "begin", "unregister"} : Goto(r, l)
    BY <1>12 DEF EndStage, AfterStage
  <2>2. pc[r] \in {"work", "reaped"} /\ UNCHANGED <<run, task, deleting>>
    BY <1>12 DEF EndStage, StageOver
  <2>3. \A q \in Runs : q # r => outcome'[q] = outcome[q]
    BY <1>12 DEF EndStage, AfterStage, TypeOK
  <2>. QED  BY <1>q, <2>1, <2>2, <2>3 DEF OnTheWay
<1>13. CASE Unregister(r)
  <2>1. pc[r] = "unregister" /\ Quiet("finalRun")  BY <1>13 DEF Unregister
  <2>. QED  BY <1>q, <2>1 DEF OnTheWay
<1>14. CASE FinalRun(r) \/ FinalTask(r)
  BY <1>14, FinalShows, Shows
<1>. QED
  BY <1>a, <1>3, <1>4, <1>5, <1>6, <1>7, <1>8, <1>9, <1>10, <1>11, <1>12, <1>13, <1>14
     DEF RunStep, CreateRun, CreateTask

LEMMA RunQueryFailsShows ==
  ASSUME TypeOK, FinalInv, RecordInv, NEW r \in Runs, RunQueryFails(r)
  PROVE  RecordNext
<1>1. UNCHANGED <<run, task, deleting>> /\ \A q \in Runs : q # r => outcome'[q] = outcome[q]
  BY DEF RunQueryFails, AfterStage, TypeOK
<1>2. CASE Goto(r, "dead") /\ pc[r] \in {"create", "createTask", "finalRun", "finalTask"}
  <2>1. {r} \in SUBSET {q \in Runs : InFlight(q)}
    BY <1>2 DEF InFlight
  <2>2. Record!Die
    BY <1>1, <1>2, <2>1, DeathShows, ZenonT(40) DEF TypeOK
  <2>. QED  BY <2>2 DEF RecordNext, Record!Next
<1>3. CASE pc[r] = "start" /\ Goto(r, "unregister")
  BY <1>1, <1>3, StartShows, Shows DEF FinalInv
<1>4. CASE /\ pc[r] \in {"startTask", "begin", "work", "reaped"}
           /\ \E l \in {"unregister", "work", "check", "begin"} : Goto(r, l)
  BY <1>1, <1>4, WithinPhase, ShowsNothing DEF OnTheWay
<1>. QED
  BY <1>2, <1>3, <1>4 DEF RunQueryFails, StageOver, AfterStage

LEMMA WorkerShows ==
  ASSUME TypeOK, NEW w \in Workers, BootStep(w) \/ Crash(w)
  PROVE  RecordNext
<1>1. CASE Crash(w)
  <2> DEFINE D == {r \in Runs : home[r] = w /\ InFlight(r)}
  <2>1. /\ UNCHANGED <<run, task>>
        /\ \A r \in Runs : deleting'[r] \in {deleting[r], NoWorker}
        /\ \A r \in Runs : IF r \in D THEN pc'[r] = "dead"
                           ELSE pc'[r] = pc[r] /\ outcome'[r] = outcome[r]
    BY <1>1 DEF Crash, TypeOK
  <2>2. D \in SUBSET {r \in Runs : InFlight(r)}
    OBVIOUS
  <2>. HIDE DEF D
  <2>3. Record!Die
    BY <2>1, <2>2, DeathShows
  <2>. QED  BY <2>3 DEF RecordNext, Record!Next
<1>2. CASE Fork(w) \/ MarkCheck(w) \/ MarkStages(w)
  BY <1>2, PhasesKept, ShowsNothing DEF Fork, MarkCheck, MarkStages
<1>3. CASE MarkRuns(w) \/ MarkTasks(w)
  <2>1. UNCHANGED <<deleting, Phases, Results>>
    BY <1>3, PhasesKept DEF MarkRuns, MarkTasks
  <2>2. \/ run' = Record!Failed(run) /\ UNCHANGED task
        \/ task' = Record!Failed(task) /\ UNCHANGED run
    BY <1>3 DEF MarkRuns, MarkTasks, Record!Failed, Record!Active
  <2>3. Record!Repair
    BY <2>1, <2>2 DEF Record!Repair, Phases, Results
  <2>. QED  BY <2>3 DEF RecordNext, Record!Next
<1>. QED  BY <1>1, <1>2, <1>3 DEF BootStep

(* A cancel request that has found the run active saves over whatever the  *)
(* row holds by then, if it is still there.                                *)
LEMMA RequestShows ==
  ASSUME TypeOK, RowsInv,
         \/ \E r \in Runs : DeleteStep(r) \/ ProcExit(r)
         \/ \E c \in Cancellers, w \in Workers, r \in Runs : CancelFetch(c, w, r)
         \/ \E c \in Cancellers : CancelStep(c)
         \/ OtherQueryFails \/ UNCHANGED vars
  PROVE  RecordNext
<1>1. UNCHANGED <<pc, outcome, task>>
  BY DEF DeleteStep, DeleteRun, CollectRun, ProcExit, CancelFetch, CancelStep, CancelStages,
         CancelSave, CancelLookup, CancelSet, CancelTerminate, OtherQueryFails, vars
<1>2. UNCHANGED <<Phases, Results>>
  BY <1>1, PhasesKept
<1>3. CASE UNCHANGED <<run, deleting>>
  BY <1>1, <1>2, <1>3, ShowsNothing
<1>4. ASSUME NEW r \in Runs, DeleteRun(r)  PROVE RecordNext
  <2>1. /\ r \in Doomed /\ Doomed' = Doomed \ {r}
        /\ run' = [run EXCEPT ![r] = "deleted"]
    BY <1>4 DEF DeleteRun, Doomed, TypeOK
  <2>2. Record!Delete(r)
    BY <1>1, <1>2, <2>1 DEF Record!Delete, Phases, Results, Doomed
  <2>. QED  BY <2>2, Shows
<1>6. ASSUME NEW r \in Runs, NEW w \in Workers, CollectRun(r, w)  PROVE RecordNext
  <2>1. run[r] \in Settled /\ Doomed' = Doomed \cup {r} /\ UNCHANGED run
    BY <1>6, LifecycleAssumption DEF CollectRun, Doomed, TypeOK
  <2>2. Record!Grant(r)
    BY <1>1, <1>2, <2>1 DEF Record!Grant, Record!Settled, Phases, Results, Doomed
  <2>. QED  BY <2>2, Shows
<1>7. CASE OtherQueryFails
  <2>1. /\ UNCHANGED run
        /\ \A r \in Runs : deleting'[r] \in {deleting[r], NoWorker}
    BY <1>7 DEF OtherQueryFails, TypeOK
  <2>2. {} \in SUBSET {r \in Runs : InFlight(r)}
    OBVIOUS
  <2>3. Record!Die
    BY <1>1, <2>1, <2>2, DeathShows
  <2>. QED  BY <2>3 DEF RecordNext, Record!Next
<1>5. ASSUME NEW c \in Cancellers, CancelSave(c)  PROVE RecordNext
  <2> DEFINE r == cancel[c].run
  <2>1. r \in Runs /\ run[r] # "none"
    BY <1>5 DEF CancelSave, TypeOK, RowsInv, CancelKnowsRun
  <2>2. /\ UNCHANGED deleting
        /\ UNCHANGED run \/ (run[r] # "deleted" /\ run' = [run EXCEPT ![r] = "cancelled"])
    BY <1>5 DEF CancelSave
  <2>. HIDE DEF r
  <2>3. CASE run[r] # "deleted" /\ run' = [run EXCEPT ![r] = "cancelled"]
    <3>1. Record!Cancel(r)
      BY <1>1, <1>2, <2>1, <2>2, <2>3 DEF Record!Cancel, Phases, Results
    <3>. QED  BY <2>1, <3>1, Shows
  <2>. QED  BY <1>3, <2>2, <2>3
<1>. QED
  BY <1>3, <1>4, <1>5, <1>6, <1>7, ZenonT(40)
     DEF DeleteStep, ProcExit, CancelFetch, CancelStep, CancelStages, CancelLookup, CancelSet,
         CancelTerminate, vars

LEMMA StepIsRecorded ==
  OrphanInv /\ FinalInv /\ RecordInv /\ [Next]_vars => [Record!Next]_(Record!record)
<1> SUFFICES ASSUME TypeOK, RowsInv, FinalInv, RecordInv, [Next]_vars  PROVE RecordNext
  BY DEF OrphanInv, RecordNext
<1>. QED
  BY TriggerShows, RunStepShows, RunQueryFailsShows, WorkerShows, RequestShows
     DEF Next, DeleteStep

(* Every step of triggers, threads, requests, crashes and repairs changes  *)
(* the rows of runs and tasks as RunRecord says, for any number of them:   *)
(* no outcome is reported twice, revoked, or given to a row that is gone.  *)
(* A deletion is granted only to a settled run (runs.py:207-211), but its  *)
(* row may go later, in whatever status the run is by then                 *)
(* (runner.py:72-198, runs.py:195-240, apps.py:134-163).                   *)
THEOREM RowsAreKeptAsRecorded == Spec => ImplementsRecord
<1>1. Init => Record!Init
  BY DEF Init, Record!Init, PhaseOf, ResultOf
<1>2. Init => FinalInv /\ RecordInv
  BY DEF Init, FinalInv, HadRow, RunFinal, TaskFinal, RecordInv, ThreadHasTask, SuccessIsLast
<1>3. OrphanInv /\ FinalInv /\ RecordInv /\ OrphanInv' /\ [Next]_vars => (FinalInv /\ RecordInv)'
  BY FinalInvNext, RecordInvNext DEF OrphanInv
<1>4. Spec => [](OrphanInv /\ FinalInv /\ RecordInv)
  BY <1>2, <1>3, OrphanInvariant, PTL DEF Spec
<1>5. Spec => [][Record!Next]_(Record!record)
  BY <1>4, StepIsRecorded, PTL DEF Spec
<1>. QED  BY <1>1, <1>5, PTL DEF Spec, ImplementsRecord, Record!Spec

=============================================================================
