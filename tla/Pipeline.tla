------------------------------ MODULE Pipeline ------------------------------
(***************************************************************************)
(* Orchestrator.execute (libs/orchestrator.py), the protocol of its stages *)
(* (libs/stage.py), and the one resource the stages share with every other *)
(* pipeline on the machine: the mount point of the remote repository       *)
(* (stages/mount_repo.py, RemoteRepositoryMounter in libs/hosts.py).       *)
(*                                                                         *)
(* Several pipelines can execute at once: the check in trigger_manual_run  *)
(* is not atomic, and the thread of a cancelled run works on while the     *)
(* next run is admitted (see RunLifecycle).  All of them mount at the same *)
(* path, in any worker process.  A step is one system call or external     *)
(* command on the mount point; stages that do not touch it are one step.   *)
(***************************************************************************)
EXTENDS Naturals, Sequences

CONSTANTS
  Pipelines,  \* threads inside Orchestrator.execute
  MaxFaults   \* bound on failed umounts, checks that raise, and crashes

ASSUME PipelineAssumption == MaxFaults \in Nat

VARIABLES
  pc,         \* where each pipeline is
  st,         \* index of its current stage
  conf,       \* its configuration
  flag,       \* its cancel event is set
  completed,  \* indices of the stages whose cleanup it owes
  success,    \* the result it will return
  dir,        \* the mount point directory exists
  mounts,     \* whose share is mounted on it, the topmost last
  faults

control == <<pc, st, conf, flag, completed, success>>
world == <<dir, mounts>>
vars == <<control, world, faults>>

-----------------------------------------------------------------------------
(* STAGE_CLASSES without the notification stage, which comes last and is   *)
(* treated apart.                                                          *)
StageSeq == <<"environment", "mount", "update", "trust", "autopkg", "gc">>
Last == Len(StageSeq)
MountStage == 2

(* repository.type, and for 'local' whether repository.share is still set. *)
Confs == {"remote", "local", "localNoShare"}
Remote(p) == conf[p] = "remote"

PC == {"idle", "check", "work", "mkdir", "connect", "rmdirEmpty", "verify",
       "cleanup", "umount", "rmdir", "notify", "done", "dead"}
Ended == {"idle", "done", "dead"}
Working == {"work", "mkdir", "connect", "rmdirEmpty", "verify"}
At(p, name) == pc[p] = "work" /\ StageSeq[st[p]] = name

TypeOK ==
  /\ pc \in [Pipelines -> PC]
  /\ st \in [Pipelines -> 1..(Last + 1)]
  /\ \A p \in Pipelines : pc[p] \in Working => st[p] <= Last
  /\ conf \in [Pipelines -> Confs]
  /\ flag \in [Pipelines -> BOOLEAN]
  /\ completed \in [Pipelines -> SUBSET (1..Last)]
  /\ success \in [Pipelines -> BOOLEAN]
  /\ dir \in BOOLEAN
  /\ mounts \in Seq(Pipelines)
  /\ faults \in 0..MaxFaults

Init ==
  /\ pc = [p \in Pipelines |-> "idle"]
  /\ st = [p \in Pipelines |-> 1]
  /\ conf = [p \in Pipelines |-> "remote"]
  /\ flag = [p \in Pipelines |-> FALSE]
  /\ completed = [p \in Pipelines |-> {}]
  /\ success = [p \in Pipelines |-> TRUE]
  /\ dir = FALSE
  /\ mounts = <<>>
  /\ faults = 0

Goto(p, label) == pc' = [pc EXCEPT ![p] = label]
Fault == faults < MaxFaults /\ faults' = faults + 1

-----------------------------------------------------------------------------
(* The loop of execute.                                                    *)

(* The stages are built from the configuration read at this moment.        *)
Start(p) ==
  /\ pc[p] = "idle"
  /\ \E c \in Confs : conf' = [conf EXCEPT ![p] = c]
  /\ Goto(p, "check")
  /\ UNCHANGED <<st, flag, completed, success, world, faults>>

SetCancelFlag(p) ==
  /\ pc[p] \notin Ended
  /\ flag' = [flag EXCEPT ![p] = TRUE]
  /\ UNCHANGED <<pc, st, conf, completed, success, world, faults>>

(* The head of the loop: the end, the cancel flag, or the next stage.      *)
NextStage(p) ==
  /\ pc[p] = "check"
  /\ \/ st[p] > Last /\ Goto(p, "cleanup") /\ UNCHANGED success
     \/ st[p] <= Last /\ flag[p] /\ Goto(p, "cleanup")
          /\ success' = [success EXCEPT ![p] = FALSE]
     \/ st[p] <= Last /\ ~flag[p] /\ Goto(p, "work") /\ UNCHANGED success
  /\ UNCHANGED <<st, conf, flag, completed, world, faults>>

(* The stage returned: it is owed a cleanup.                               *)
Complete(p) ==
  /\ completed' = [completed EXCEPT ![p] = @ \cup {st[p]}]
  /\ st' = [st EXCEPT ![p] = @ + 1]
  /\ Goto(p, "check")
  /\ UNCHANGED <<conf, flag, success>>

(* Mutant: completed.append(stage) comes before the call of the stage. *)
Raise_AfterAppend(p) ==
  /\ completed' = [completed EXCEPT ![p] = @ \cup {st[p]}]
  /\ success' = [success EXCEPT ![p] = FALSE]
  /\ Goto(p, "cleanup")
  /\ UNCHANGED <<st, conf, flag>>

(* Mutant: the except block does not record the failure. *)
Raise_StillSuccess(p) ==
  /\ Goto(p, "cleanup")
  /\ UNCHANGED <<st, conf, flag, completed, success>>

(* The stage raised, or one of its checks failed: no cleanup for it.       *)
Raise(p) ==
  /\ success' = [success EXCEPT ![p] = FALSE]
  /\ Goto(p, "cleanup")
  /\ UNCHANGED <<st, conf, flag, completed>>

-----------------------------------------------------------------------------
(* The stages.                                                             *)

(* These leave the mount point alone; each may succeed or raise.           *)
PlainStage(p, name) ==
  /\ At(p, name)
  /\ Complete(p) \/ Raise(p)
  /\ UNCHANGED <<world, faults>>

(* Failed updates are only logged; raises if autopkg cannot be started.    *)
UpdateRepos(p) == PlainStage(p, "update")

(* Raises if the trust information of a recipe cannot be updated.          *)
TrustVerification(p) == PlainStage(p, "trust")

(* Failed recipes are only logged; raises if the recipe list is missing or *)
(* empty, or autopkg cannot be started.                                    *)
RunAutoPkg(p) == PlainStage(p, "autopkg")

(* A failed repoclean is only logged; raises if it cannot be started.      *)
GarbageCollector(p) == PlainStage(p, "gc")

(* is_no_mount_conflict searches the share's name in the device of every   *)
(* mounted disk; an empty name is found in each of them.                   *)
MountConflict(p) == mounts # <<>> \/ conf[p] = "localNoShare"

EnvironmentCheck(p) ==
  /\ At(p, "environment")
  /\ Raise(p) \/ (~MountConflict(p) /\ Complete(p))
  /\ UNCHANGED <<world, faults>>

(* A local repository is only looked at.                                   *)
MountLocal(p) ==
  /\ At(p, "mount") /\ ~Remote(p)
  /\ Complete(p) \/ Raise(p)
  /\ UNCHANGED <<world, faults>>

(* pre_check: the server can be reached and the mount point does not exist *)
MountPreCheck(p) ==
  /\ At(p, "mount") /\ Remote(p)
  /\ \/ ~dir /\ Goto(p, "mkdir") /\ UNCHANGED <<st, conf, flag, completed, success>>
     \/ Raise(p)
  /\ UNCHANGED <<world, faults>>

(* Mutant: os.makedirs(..., exist_ok=True). *)
Mkdir_ExistOk(p) ==
  /\ pc[p] = "mkdir"
  /\ dir' = TRUE
  /\ Goto(p, "connect")
  /\ UNCHANGED <<st, conf, flag, completed, success, mounts, faults>>

(* os.mkdir raises if the directory appeared since it was looked for.      *)
Mkdir(p) ==
  /\ pc[p] = "mkdir"
  /\ \/ ~dir /\ dir' = TRUE /\ Goto(p, "connect")
          /\ UNCHANGED <<st, conf, flag, completed, success>>
     \/ dir /\ UNCHANGED dir /\ Raise(p)
  /\ UNCHANGED <<mounts, faults>>

(* mount_smbfs or sshfs.                                                   *)
Connect(p) ==
  /\ pc[p] = "connect"
  /\ \/ mounts' = Append(mounts, p) /\ Goto(p, "verify")
     \/ UNCHANGED mounts /\ Goto(p, "rmdirEmpty")
  /\ UNCHANGED <<st, conf, flag, completed, success, dir, faults>>

(* os.rmdir refuses a directory with something mounted on it.              *)
RemoveDir == dir' = (dir /\ mounts # <<>>)

RmdirEmpty(p) ==
  /\ pc[p] = "rmdirEmpty"
  /\ RemoveDir
  /\ Raise(p)
  /\ UNCHANGED <<mounts, faults>>

(* Mutant: a failed post_check raises without the stage's own cleanup. *)
Verify_NoCleanup(p) ==
  /\ pc[p] = "verify"
  /\ Complete(p) \/ Raise(p)
  /\ UNCHANGED <<world, faults>>

(* post_check looks into the mounted repository.  If it returns False the  *)
(* stage cleans up after itself; if it raises (Path.is_dir does on an I/O  *)
(* error) nobody unmounts.                                                 *)
Verify(p) ==
  /\ pc[p] = "verify"
  /\ \/ Complete(p) /\ UNCHANGED faults
     \/ Goto(p, "umount") /\ UNCHANGED <<st, conf, flag, completed, success, faults>>
     \/ Raise(p) /\ Fault
  /\ UNCHANGED world

-----------------------------------------------------------------------------
(* The finally block.                                                      *)

(* The cleanups run in reverse order; only the mount stage's touches the   *)
(* mount point.                                                            *)
Cleanup(p) ==
  /\ pc[p] = "cleanup"
  /\ Goto(p, IF MountStage \in completed[p] /\ Remote(p) THEN "umount" ELSE "notify")
  /\ UNCHANGED <<st, conf, flag, completed, success, world, faults>>

(* umount takes the topmost mount away, or fails with a warning.           *)
Umount(p) ==
  /\ pc[p] = "umount"
  /\ \/ mounts # <<>> /\ mounts' = SubSeq(mounts, 1, Len(mounts) - 1) /\ UNCHANGED faults
     \/ UNCHANGED mounts /\ Fault
  /\ Goto(p, "rmdir")
  /\ UNCHANGED <<st, conf, flag, completed, success, dir>>

Rmdir(p) ==
  /\ pc[p] = "rmdir"
  /\ RemoveDir
  /\ \/ /\ MountStage \in completed[p]
        /\ Goto(p, "notify")
        /\ UNCHANGED <<st, conf, flag, completed, success>>
     \/ MountStage \notin completed[p] /\ Raise(p)
  /\ UNCHANGED <<mounts, faults>>

Notify(p) ==
  /\ pc[p] = "notify"
  /\ Goto(p, "done")
  /\ UNCHANGED <<st, conf, flag, completed, success, world, faults>>

-----------------------------------------------------------------------------
(* The worker process dies.  The mount survives it, and so does a mount    *)
(* command that it was waiting for.                                        *)
Crash(p) ==
  /\ pc[p] \notin Ended
  /\ Fault
  /\ Goto(p, "dead")
  /\ \/ UNCHANGED mounts
     \/ pc[p] = "connect" /\ mounts' = Append(mounts, p)
  /\ UNCHANGED <<st, conf, flag, completed, success, dir>>

(* Where a pipeline is the one that has to remove the mount point.         *)
Holds(p) ==
  /\ Remote(p)
  /\ \/ pc[p] \in {"connect", "rmdirEmpty", "verify", "umount", "rmdir"}
     \/ pc[p] \in {"check", "work", "cleanup"} /\ MountStage \in completed[p]
holders == {p \in Pipelines : Holds(p)}

(* "please delete it manually": somebody clears what was left behind.      *)
ClearMountPoint ==
  /\ dir /\ holders = {}
  /\ dir' = FALSE
  /\ mounts' = <<>>
  /\ UNCHANGED <<control, faults>>

Step(p) ==
  \/ Start(p) \/ SetCancelFlag(p) \/ NextStage(p)
  \/ UpdateRepos(p) \/ TrustVerification(p) \/ RunAutoPkg(p) \/ GarbageCollector(p)
  \/ EnvironmentCheck(p) \/ MountLocal(p) \/ MountPreCheck(p)
  \/ Mkdir(p) \/ Connect(p) \/ RmdirEmpty(p) \/ Verify(p)
  \/ Cleanup(p) \/ Umount(p) \/ Rmdir(p) \/ Notify(p) \/ Crash(p)

Next == ClearMountPoint \/ \E p \in Pipelines : Step(p)

Spec == Init /\ [][Next]_vars

-----------------------------------------------------------------------------
(* While a pipeline runs autopkg or repoclean against a remote repository, *)
(* what is mounted at the path is the share that this pipeline mounted and *)
(* checked, and nothing on top of it, whatever other pipelines attempt:    *)
(* the directory is looked for and created in two steps.                   *)
WorksOnOwnMount ==
  \A p \in Pipelines :
    Remote(p) /\ (At(p, "autopkg") \/ At(p, "gc")) => dir /\ mounts = <<p>>

(* No pipeline ever takes away a share that another one has mounted: a     *)
(* stage that failed is not in 'completed' (orchestrator.py:81-83).        *)
UnmountsOnlyOwn ==
  [][\A p \in Pipelines : pc[p] = "umount" /\ pc'[p] # pc[p] /\ mounts' # mounts
        => mounts[Len(mounts)] = p]_vars

(* Unless a umount failed, a check raised or a process died, the machine   *)
(* is left as it was found once every pipeline is over: however each of    *)
(* them ended, there is no mount and no directory that would refuse the    *)
(* next run.                                                               *)
NothingLeftBehind ==
  faults = 0 /\ (\A p \in Pipelines : pc[p] \in Ended) => ~dir /\ mounts = <<>>

(* execute returns True exactly when every stage has been completed; a     *)
(* cancel during the last stage comes too late to change that.             *)
SuccessIsComplete ==
  \A p \in Pipelines : pc[p] \in {"notify", "done"} => (success[p] <=> completed[p] = 1..Last)

(* mkdir and rmdir implement the lock that the pipelines rely on.          *)
Lock == INSTANCE MountLock WITH stuck <- (dir /\ holders = {})
ImplementsLock == Lock!Spec

=============================================================================
