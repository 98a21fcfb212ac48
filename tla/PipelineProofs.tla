--------------------------- MODULE PipelineProofs ---------------------------
(***************************************************************************)
(* Theorems of Pipeline, for any number of pipelines and faults: the mount *)
(* point is a lock (MountLock), a pipeline works on the share it has       *)
(* mounted itself, and unmounts no other.                                  *)
(*                                                                         *)
(* The invariant behind them says which stages are completed at each place *)
(* of the loop (LoopInv), and what is mounted at each place of the one     *)
(* pipeline that holds the mount point (MountInv).  CleanInv adds to it    *)
(* who is to remove a directory that is there.                             *)
(***************************************************************************)
EXTENDS Pipeline, SequenceTheorems, TLAPS

(* Inside the mount stage of a remote repository, and in the loop at all.  *)
InMount == {"mkdir", "connect", "rmdirEmpty", "verify"}
InLoop == {"idle", "check", "work"} \cup InMount

ResultDue(p) ==
  \/ pc[p] \in {"cleanup", "notify", "done"}
  \/ pc[p] \in {"umount", "rmdir"} /\ MountStage \in completed[p]

LoopAt(p) ==
  /\ pc[p] = "idle" => st[p] = 1
  /\ pc[p] \in InLoop => success[p] /\ completed[p] = 1..(st[p] - 1)
  /\ pc[p] \in InMount => st[p] = MountStage
  /\ pc[p] \in InMount \cup {"umount", "rmdir"} => Remote(p)
  /\ ResultDue(p) => (success[p] <=> completed[p] = 1..Last)

LoopInv == \A p \in Pipelines : LoopAt(p)

MountedBy(p) ==
  CASE pc[p] \in {"connect", "rmdirEmpty"} -> mounts = <<>>
    [] pc[p] = "rmdir"                     -> mounts = <<>> \/ mounts = <<p>>
    [] OTHER                               -> mounts = <<p>>

MountInv ==
  /\ \A p, q \in Pipelines : Holds(p) /\ Holds(q) => p = q
  /\ \A p \in Pipelines : Holds(p) => dir /\ MountedBy(p)
  /\ ~dir => mounts = <<>>

PipelineInv == TypeOK /\ LoopInv /\ MountInv

-----------------------------------------------------------------------------
(* The stages by their position.                                           *)
LEMMA StagePositions ==
  /\ Last = 6 /\ MountStage = 2
  /\ \A i \in 1..6 :
       /\ StageSeq[i] = "environment" <=> i = 1
       /\ StageSeq[i] = "mount" <=> i = 2
       /\ StageSeq[i] = "autopkg" <=> i = 5
       /\ StageSeq[i] = "gc" <=> i = 6
<1>1. Last = 6 /\ MountStage = 2
  BY DEF Last, StageSeq, MountStage
<1>2. ASSUME NEW i \in 1..6
      PROVE  /\ StageSeq[i] = "environment" <=> i = 1
             /\ StageSeq[i] = "mount" <=> i = 2
             /\ StageSeq[i] = "autopkg" <=> i = 5
             /\ StageSeq[i] = "gc" <=> i = 6
  <2>1. /\ StageSeq[1] = "environment" /\ StageSeq[2] = "mount" /\ StageSeq[3] = "update"
        /\ StageSeq[4] = "trust" /\ StageSeq[5] = "autopkg" /\ StageSeq[6] = "gc"
    BY DEF StageSeq
  <2>2. i = 1 \/ i = 2 \/ i = 3 \/ i = 4 \/ i = 5 \/ i = 6
    OBVIOUS
  <2>. QED  BY <2>1, <2>2
<1>. QED  BY <1>1, <1>2

(* The stack of mounts.                                                    *)
LEMMA MountStack ==
  ASSUME mounts \in Seq(Pipelines), NEW p \in Pipelines
  PROVE  /\ Append(mounts, p) \in Seq(Pipelines)
         /\ mounts # <<>> => SubSeq(mounts, 1, Len(mounts) - 1) \in Seq(Pipelines)
         /\ mounts = <<>> => Append(mounts, p) = <<p>>
         /\ mounts = <<p>> => SubSeq(mounts, 1, Len(mounts) - 1) = <<>>
<1>1. Append(mounts, p) \in Seq(Pipelines)
  BY AppendProperties
<1>2. mounts # <<>> => SubSeq(mounts, 1, Len(mounts) - 1) \in Seq(Pipelines)
  <2>1. Len(mounts) \in Nat
    BY LenProperties
  <2>2. \A i \in 1..(Len(mounts) - 1) : mounts[i] \in Pipelines
    BY <2>1, LenProperties, ElementOfSeq
  <2>. QED  BY <2>1, <2>2, SubSeqProperties
<1>3. mounts = <<>> => Append(mounts, p) = <<p>>
  OBVIOUS
<1>4. mounts = <<p>> => SubSeq(mounts, 1, Len(mounts) - 1) = <<>>
  BY SubSeqEmpty
<1>. QED  BY <1>1, <1>2, <1>3, <1>4

USE DEF Goto, Fault

LEMMA InitTypeOK == Init => TypeOK
<1> SUFFICES ASSUME Init PROVE TypeOK
  OBVIOUS
<1>1. pc \in [Pipelines -> PC] /\ \A p \in Pipelines : pc[p] \notin Working
  BY DEF Init, PC, Working
<1>2. /\ st \in [Pipelines -> 1..(Last + 1)]
      /\ completed \in [Pipelines -> SUBSET (1..Last)]
  BY StagePositions DEF Init
<1>3. /\ conf \in [Pipelines -> Confs]
      /\ flag \in [Pipelines -> BOOLEAN]
      /\ success \in [Pipelines -> BOOLEAN]
  BY DEF Init, Confs
<1>4. mounts \in Seq(Pipelines)
  <2>1. mounts = <<>>
    BY DEF Init
  <2>. QED  BY <2>1
<1>5. dir \in BOOLEAN
  BY DEF Init
<1>6. faults \in 0..MaxFaults
  BY PipelineAssumption DEF Init
<1>. QED  BY <1>1, <1>2, <1>3, <1>4, <1>5, <1>6 DEF TypeOK

(* What Complete and Raise leave well typed.                               *)
LEMMA CompleteType ==
  ASSUME TypeOK, NEW p \in Pipelines, pc[p] \in Working, Complete(p)
  PROVE  /\ pc' \in [Pipelines -> PC]
         /\ st' \in [Pipelines -> 1..(Last + 1)]
         /\ \A q \in Pipelines : pc'[q] \in Working => st'[q] <= Last
         /\ completed' \in [Pipelines -> SUBSET (1..Last)]
         /\ conf' = conf /\ flag' = flag /\ success' = success
<1> USE StagePositions DEF TypeOK, Complete
<1>1. pc' \in [Pipelines -> PC]
  BY DEF PC
<1>2. st[p] \in 1..Last
  OBVIOUS
<1>3. st' \in [Pipelines -> 1..(Last + 1)]
  BY <1>2
<1>4. \A q \in Pipelines : pc'[q] \in Working => st'[q] <= Last
  BY DEF Working
<1>5. completed' \in [Pipelines -> SUBSET (1..Last)]
  BY <1>2
<1>. QED  BY <1>1, <1>3, <1>4, <1>5

LEMMA RaiseType ==
  ASSUME TypeOK, NEW p \in Pipelines, Raise(p)
  PROVE  /\ pc' \in [Pipelines -> PC]
         /\ \A q \in Pipelines : pc'[q] \in Working => st'[q] <= Last
         /\ success' \in [Pipelines -> BOOLEAN]
         /\ st' = st /\ conf' = conf /\ flag' = flag /\ completed' = completed
BY DEF TypeOK, Raise, PC, Working

LEMMA TypeOKNext ==
  ASSUME TypeOK, [Next]_vars
  PROVE  TypeOK'
<1> USE StagePositions, PipelineAssumption
<1>1. CASE UNCHANGED vars
  BY <1>1 DEF TypeOK, vars, control, world
<1>2. CASE ClearMountPoint
  BY <1>2, EmptySeq DEF ClearMountPoint, TypeOK, control
<1>3. ASSUME NEW p \in Pipelines, Step(p) PROVE TypeOK'
  <2>1. CASE Start(p)
    BY <2>1 DEF Start, TypeOK, PC, Working, world
  <2>2. CASE SetCancelFlag(p)
    BY <2>2 DEF SetCancelFlag, TypeOK, world
  <2>3. CASE NextStage(p)
    <3>1. /\ pc' \in [Pipelines -> PC]
          /\ \A q \in Pipelines : pc'[q] \in Working => st[q] <= Last
      BY <2>3 DEF NextStage, TypeOK, PC, Working
    <3>2. success' \in [Pipelines -> BOOLEAN]
      BY <2>3 DEF NextStage, TypeOK
    <3>. QED  BY <2>3, <3>1, <3>2 DEF NextStage, TypeOK, world
  <2>4. ASSUME NEW name, PlainStage(p, name) PROVE TypeOK'
    <3>1. CASE Complete(p)
      BY <2>4, <3>1, CompleteType DEF PlainStage, At, TypeOK, Working, world
    <3>2. CASE Raise(p)
      BY <2>4, <3>2, RaiseType DEF PlainStage, TypeOK, world
    <3>. QED  BY <2>4, <3>1, <3>2 DEF PlainStage
  <2>5. CASE EnvironmentCheck(p)
    BY <2>5, CompleteType, RaiseType DEF EnvironmentCheck, At, TypeOK, Working, world
  <2>6. CASE MountLocal(p)
    BY <2>6, CompleteType, RaiseType DEF MountLocal, At, TypeOK, Working, world
  <2>7. CASE MountPreCheck(p)
    <3>1. CASE Raise(p)
      BY <2>7, <3>1, RaiseType DEF MountPreCheck, TypeOK, world
    <3>2. CASE ~Raise(p)
      BY <2>7, <3>2 DEF MountPreCheck, At, TypeOK, PC, Working, world
    <3>. QED  BY <3>1, <3>2
  <2>8. CASE Mkdir(p)
    <3>1. CASE Raise(p)
      BY <2>8, <3>1, RaiseType DEF Mkdir, TypeOK
    <3>2. CASE ~Raise(p)
      BY <2>8, <3>2 DEF Mkdir, TypeOK, PC, Working
    <3>. QED  BY <3>1, <3>2
  <2>9. CASE Connect(p)
    <3>1. mounts' \in Seq(Pipelines)
      BY <2>9, MountStack DEF Connect, TypeOK
    <3>. QED  BY <2>9, <3>1 DEF Connect, TypeOK, PC, Working
  <2>10. CASE RmdirEmpty(p)
    BY <2>10, RaiseType DEF RmdirEmpty, RemoveDir, TypeOK
  <2>11. CASE Verify(p)
    <3>1. CASE Complete(p)
      BY <2>11, <3>1, CompleteType DEF Verify, TypeOK, Working, world
    <3>2. CASE Raise(p)
      BY <2>11, <3>2, RaiseType DEF Verify, TypeOK, world
    <3>3. CASE ~Complete(p) /\ ~Raise(p)
      BY <2>11, <3>3 DEF Verify, TypeOK, PC, Working, world
    <3>. QED  BY <3>1, <3>2, <3>3
  <2>12. CASE Cleanup(p)
    BY <2>12 DEF Cleanup, TypeOK, PC, Working, world
  <2>13. CASE Umount(p)
    <3>1. mounts' \in Seq(Pipelines)
      BY <2>13, MountStack DEF Umount, TypeOK
    <3>. QED  BY <2>13, <3>1 DEF Umount, TypeOK, PC, Working
  <2>14. CASE Rmdir(p)
    <3>1. CASE Raise(p)
      BY <2>14, <3>1, RaiseType DEF Rmdir, RemoveDir, TypeOK
    <3>2. CASE ~Raise(p)
      BY <2>14, <3>2 DEF Rmdir, RemoveDir, TypeOK, PC, Working
    <3>. QED  BY <3>1, <3>2
  <2>15. CASE Notify(p)
    BY <2>15 DEF Notify, TypeOK, PC, Working, world
  <2>16. CASE Crash(p)
    <3>1. mounts' \in Seq(Pipelines)
      BY <2>16, MountStack DEF Crash, TypeOK
    <3>. QED  BY <2>16, <3>1 DEF Crash, TypeOK, PC, Working
  <2>. QED
    BY <1>3, <2>1, <2>2, <2>3, <2>4, <2>5, <2>6, <2>7, <2>8, <2>9, <2>10, <2>11,
       <2>12, <2>13, <2>14, <2>15, <2>16
    DEF Step, UpdateRepos, TrustVerification, RunAutoPkg, GarbageCollector
<1>. QED  BY <1>1, <1>2, <1>3 DEF Next

(* The types hold for any number of pipelines and faults.                  *)
THEOREM TypeCorrect == Spec => []TypeOK
<1>1. TypeOK /\ [Next]_vars => TypeOK'  BY TypeOKNext
<1>. QED  BY InitTypeOK, <1>1, PTL DEF Spec

-----------------------------------------------------------------------------
(* LoopInv: a step of p leaves the other pipelines where they are.         *)
OthersStay(p) ==
  \A q \in Pipelines \ {p} :
    /\ pc'[q] = pc[q] /\ st'[q] = st[q] /\ conf'[q] = conf[q]
    /\ completed'[q] = completed[q] /\ success'[q] = success[q]

LEMMA InitLoopInv == Init => LoopInv
<1> SUFFICES ASSUME Init, NEW p \in Pipelines PROVE LoopAt(p)
  BY DEF LoopInv
<1>1. pc[p] = "idle" /\ st[p] = 1 /\ completed[p] = 1..(st[p] - 1)
  BY DEF Init
<1>2. success[p]
  BY DEF Init
<1>. QED  BY <1>1, <1>2 DEF LoopAt, InMount, ResultDue

LEMMA StepOthers ==
  ASSUME TypeOK, NEW p \in Pipelines, Step(p)
  PROVE  OthersStay(p)
<1> USE DEF OthersStay, TypeOK
<1>1. Complete(p) \/ Raise(p) => OthersStay(p)
  BY DEF Complete, Raise
<1>2. Start(p) \/ SetCancelFlag(p) \/ NextStage(p) => OthersStay(p)
  BY DEF Start, SetCancelFlag, NextStage
<1>3. EnvironmentCheck(p) \/ MountLocal(p) \/ UpdateRepos(p) \/ TrustVerification(p)
        \/ RunAutoPkg(p) \/ GarbageCollector(p) => OthersStay(p)
  BY <1>1 DEF EnvironmentCheck, MountLocal, UpdateRepos, TrustVerification, RunAutoPkg,
              GarbageCollector, PlainStage
<1>4. MountPreCheck(p) \/ Mkdir(p) \/ RmdirEmpty(p) \/ Verify(p) \/ Rmdir(p) => OthersStay(p)
  BY <1>1 DEF MountPreCheck, Mkdir, RmdirEmpty, Verify, Rmdir
<1>5. Connect(p) \/ Cleanup(p) \/ Umount(p) \/ Notify(p) \/ Crash(p) => OthersStay(p)
  BY DEF Connect, Cleanup, Umount, Notify, Crash
<1>. QED  BY <1>2, <1>3, <1>4, <1>5 DEF Step

(* A stage that returned, and one that did not.                            *)
LEMMA CompleteLoop ==
  ASSUME TypeOK, NEW p \in Pipelines, LoopAt(p), pc[p] \in Working, Complete(p)
  PROVE  LoopAt(p)'
<1> USE StagePositions DEF TypeOK
<1>1. st[p] \in 1..6 /\ success[p] /\ completed[p] = 1..(st[p] - 1)
  BY DEF LoopAt, Working, InLoop, InMount
<1>2. /\ pc'[p] = "check" /\ success' = success
      /\ st'[p] = st[p] + 1 /\ completed'[p] = completed[p] \cup {st[p]}
  BY DEF Complete
<1>3. completed'[p] = 1..(st'[p] - 1)
  BY <1>1, <1>2
<1>. QED  BY <1>1, <1>2, <1>3 DEF LoopAt, InMount, ResultDue

LEMMA RaiseLoop ==
  ASSUME TypeOK, NEW p \in Pipelines, Raise(p), Last \notin completed[p] \/ MountStage \notin completed[p]
  PROVE  LoopAt(p)'
<1>1. /\ pc'[p] = "cleanup" /\ ~success'[p] /\ completed' = completed
  BY DEF Raise, TypeOK
<1>2. completed'[p] # 1..Last
  BY <1>1, StagePositions
<1>. QED  BY <1>1, <1>2 DEF LoopAt, InLoop, InMount, ResultDue

LEMMA StepLoop ==
  ASSUME TypeOK, NEW p \in Pipelines, LoopAt(p), Step(p)
  PROVE  LoopAt(p)'
<1> USE StagePositions DEF TypeOK, LoopAt, InLoop, InMount, ResultDue
<1>1. ASSUME pc[p] \in Working, Complete(p) \/ Raise(p)
      PROVE  LoopAt(p)'
  <2>1. completed[p] = 1..(st[p] - 1) /\ st[p] \in 1..6
    BY <1>1 DEF Working
  <2>2. Last \notin completed[p]
    BY <2>1
  <2>. QED  BY <1>1, <2>2, CompleteLoop, RaiseLoop
<1>2. CASE Start(p)
  BY <1>2 DEF Start, Remote
<1>3. CASE SetCancelFlag(p)
  BY <1>3 DEF SetCancelFlag, Remote
<1>4. CASE NextStage(p)
  <2>1. pc[p] = "check" /\ success[p] /\ completed[p] = 1..(st[p] - 1) /\ completed' = completed
        /\ st' = st
    BY <1>4 DEF NextStage
  <2>2. CASE st[p] > Last
    <3>1. st[p] = 7
      BY <2>2
    <3>. QED  BY <1>4, <2>1, <2>2, <3>1 DEF NextStage
  <2>3. CASE st[p] <= Last /\ flag[p]
    <3>1. pc'[p] = "cleanup" /\ ~success'[p]
      BY <1>4, <2>3 DEF NextStage
    <3>2. Last \notin completed'[p] /\ Last \in 1..Last
      BY <2>1, <2>3
    <3>. QED  BY <3>1, <3>2
  <2>4. CASE st[p] <= Last /\ ~flag[p]
    BY <1>4, <2>1, <2>4 DEF NextStage
  <2>. QED  BY <2>2, <2>3, <2>4
<1>5. CASE UpdateRepos(p) \/ TrustVerification(p) \/ RunAutoPkg(p) \/ GarbageCollector(p)
             \/ EnvironmentCheck(p) \/ MountLocal(p)
  BY <1>1, <1>5 DEF UpdateRepos, TrustVerification, RunAutoPkg, GarbageCollector, PlainStage,
                    EnvironmentCheck, MountLocal, At, Working
<1>6. CASE MountPreCheck(p)
  <2>1. CASE Raise(p)
    BY <1>1, <1>6, <2>1 DEF MountPreCheck, At, Working
  <2>2. CASE ~Raise(p)
    <3>1. pc[p] = "work" /\ st[p] = MountStage /\ Remote(p)
      BY <1>6 DEF MountPreCheck, At, Working
    <3>. QED  BY <1>6, <2>2, <3>1 DEF MountPreCheck, Remote
  <2>. QED  BY <2>1, <2>2
<1>7. CASE Mkdir(p)
  <2>1. CASE Raise(p)
    BY <1>1, <1>7, <2>1 DEF Mkdir, Working
  <2>2. CASE ~Raise(p)
    BY <1>7, <2>2 DEF Mkdir, Remote
  <2>. QED  BY <2>1, <2>2
<1>8. CASE Connect(p)
  BY <1>8 DEF Connect, Remote
<1>9. CASE RmdirEmpty(p)
  BY <1>1, <1>9 DEF RmdirEmpty, Working
<1>10. CASE Verify(p)
  <2>1. CASE Complete(p) \/ Raise(p)
    BY <1>1, <1>10, <2>1 DEF Verify, Working
  <2>2. CASE ~(Complete(p) \/ Raise(p))
    BY <1>10, <2>2 DEF Verify, Remote
  <2>. QED  BY <2>1, <2>2
<1>11. CASE Cleanup(p)
  BY <1>11 DEF Cleanup, Remote
<1>12. CASE Umount(p)
  BY <1>12 DEF Umount, Remote
<1>13. CASE Rmdir(p)
  <2>1. CASE MountStage \notin completed[p] /\ Raise(p)
    BY <2>1, RaiseLoop
  <2>2. CASE MountStage \in completed[p]
    BY <1>13, <2>2 DEF Rmdir, Remote
  <2>. QED  BY <1>13, <2>1, <2>2 DEF Rmdir
<1>14. CASE Notify(p)
  BY <1>14 DEF Notify, Remote
<1>15. CASE Crash(p)
  BY <1>15 DEF Crash
<1>. QED
  BY <1>2, <1>3, <1>4, <1>5, <1>6, <1>7, <1>8, <1>9, <1>10, <1>11, <1>12, <1>13, <1>14, <1>15
  DEF Step

LEMMA LoopInvNext ==
  ASSUME TypeOK, LoopInv, [Next]_vars
  PROVE  LoopInv'
<1>1. CASE UNCHANGED control
  BY <1>1 DEF LoopInv, LoopAt, ResultDue, Remote, control
<1>2. ASSUME NEW p \in Pipelines, Step(p) PROVE LoopInv'
  <2>1. LoopAt(p)'
    BY <1>2, StepLoop DEF LoopInv
  <2>2. ASSUME NEW q \in Pipelines \ {p} PROVE LoopAt(q)'
    BY <1>2, StepOthers DEF LoopInv, LoopAt, ResultDue, Remote, OthersStay
  <2>. QED  BY <2>1, <2>2 DEF LoopInv
<1>. QED  BY <1>1, <1>2 DEF Next, ClearMountPoint, vars, control

-----------------------------------------------------------------------------
(* MountInv and the lock: what a step of p can do to the mount point.      *)
HolderStep(p) ==
  /\ Holds(p)' /\ ~Holds(p) => ~dir
  /\ ~Holds(p)' /\ ~Holds(p) => UNCHANGED world
  /\ Holds(p)' => dir' /\ MountedBy(p)'
  /\ ~dir' => mounts' = <<>>

LEMMA InitMountInv == Init => MountInv
<1> SUFFICES ASSUME Init PROVE MountInv
  OBVIOUS
<1>1. \A p \in Pipelines : ~Holds(p)
  BY DEF Init, Holds
<1>2. mounts = <<>>
  BY DEF Init
<1>. QED  BY <1>1, <1>2 DEF MountInv

(* A stage that leaves the mount point alone does not change whose it is.  *)
LEMMA PlainHolder ==
  ASSUME TypeOK, MountInv, NEW p \in Pipelines, LoopAt(p), pc[p] = "work",
         StageSeq[st[p]] # "mount" \/ ~Remote(p), Complete(p) \/ Raise(p), UNCHANGED world
  PROVE  HolderStep(p)
<1>1. MountStage \in completed'[p] /\ Remote(p) => MountStage \in completed[p]
  BY StagePositions DEF Complete, Raise, TypeOK, Working
<1>2. MountStage \in completed[p] => MountStage \in completed'[p]
  BY DEF Complete, Raise, TypeOK
<1>3. pc'[p] \in {"check", "cleanup"} /\ conf' = conf
  BY DEF Complete, Raise, TypeOK
<1>4. Holds(p)' <=> Holds(p)
  BY <1>1, <1>2, <1>3 DEF Holds, Remote
<1>. QED  BY <1>3, <1>4 DEF HolderStep, MountInv, MountedBy, world

LEMMA StepHolder ==
  ASSUME TypeOK, MountInv, NEW p \in Pipelines, LoopAt(p), Step(p)
  PROVE  HolderStep(p)
<1> USE DEF TypeOK, HolderStep, Holds, Remote, MountedBy, MountInv, world
<1>1. CASE Start(p)
  <2>1. completed'[p] = {} /\ pc'[p] = "check" /\ UNCHANGED world
    BY <1>1 DEF Start, LoopAt, InLoop
  <2>. QED  BY <1>1, <2>1 DEF Start
<1>2. CASE SetCancelFlag(p)
  BY <1>2 DEF SetCancelFlag
<1>3. CASE NextStage(p)
  BY <1>3 DEF NextStage
<1>4. CASE UpdateRepos(p) \/ TrustVerification(p) \/ RunAutoPkg(p) \/ GarbageCollector(p)
  BY <1>4, PlainHolder DEF UpdateRepos, TrustVerification, RunAutoPkg, GarbageCollector,
                           PlainStage, At
<1>5. CASE EnvironmentCheck(p) \/ MountLocal(p)
  BY <1>5, PlainHolder DEF EnvironmentCheck, MountLocal, At
<1>6. CASE MountPreCheck(p)
  <2>1. MountStage \notin completed[p] /\ UNCHANGED <<completed, conf, world>>
    BY <1>6, StagePositions DEF MountPreCheck, Raise, At, LoopAt, InLoop, Working
  <2>2. pc[p] = "work" /\ pc'[p] \in {"mkdir", "cleanup"}
    BY <1>6 DEF MountPreCheck, Raise, At
  <2>. QED  BY <2>1, <2>2
<1>7. ASSUME pc[p] \in InMount PROVE Remote(p) /\ MountStage \notin completed[p] /\ st[p] = MountStage
  BY <1>7, StagePositions DEF LoopAt, InLoop, InMount
<1>8. CASE Mkdir(p)
  BY <1>7, <1>8 DEF Mkdir, Raise, InMount
<1>9. CASE Connect(p)
  <2>1. Holds(p) /\ mounts = <<>> /\ dir
    BY <1>7, <1>9 DEF Connect, InMount
  <2>. QED  BY <1>9, <2>1, MountStack DEF Connect
<1>10. CASE RmdirEmpty(p)
  <2>1. Holds(p) /\ ~Holds(p)'
    BY <1>7, <1>10 DEF RmdirEmpty, Raise, InMount
  <2>. QED  BY <1>10, <2>1 DEF RmdirEmpty, RemoveDir
<1>11. CASE Verify(p)
  <2>1. Holds(p) /\ mounts = <<p>> /\ dir /\ UNCHANGED world
    BY <1>7, <1>11 DEF Verify, InMount
  <2>2. pc'[p] \in {"check", "umount", "cleanup"}
    BY <1>11 DEF Verify, Complete, Raise
  <2>. QED  BY <2>1, <2>2
<1>12. CASE Cleanup(p)
  BY <1>12 DEF Cleanup
<1>13. CASE Umount(p)
  <2>1. Holds(p) /\ mounts = <<p>> /\ dir
    BY <1>13 DEF Umount, LoopAt
  <2>. QED  BY <1>13, <2>1, MountStack DEF Umount
<1>14. CASE Rmdir(p)
  <2>1. Holds(p) /\ ~Holds(p)'
    BY <1>14 DEF Rmdir, Raise, LoopAt
  <2>. QED  BY <1>14, <2>1 DEF Rmdir, RemoveDir
<1>15. CASE Notify(p)
  BY <1>15 DEF Notify
<1>16. CASE Crash(p)
  <2>1. ~Holds(p)' /\ dir' = dir
    BY <1>16 DEF Crash
  <2>2. CASE mounts' = mounts
    BY <2>1, <2>2
  <2>3. CASE mounts' # mounts
    BY <1>7, <1>16, <2>1, <2>3 DEF Crash, InMount
  <2>. QED  BY <2>2, <2>3
<1>. QED
  BY <1>1, <1>2, <1>3, <1>4, <1>5, <1>6, <1>8, <1>9, <1>10, <1>11, <1>12, <1>13, <1>14, <1>15,
     <1>16
  DEF Step

LEMMA MountInvNext ==
  ASSUME TypeOK, LoopInv, MountInv, [Next]_vars
  PROVE  MountInv'
<1>1. CASE UNCHANGED vars
  BY <1>1 DEF MountInv, Holds, Remote, MountedBy, vars, control, world
<1>2. CASE ClearMountPoint
  <2>1. \A p \in Pipelines : ~Holds(p)'
    BY <1>2 DEF ClearMountPoint, holders, Holds, Remote, control
  <2>. QED  BY <1>2, <2>1 DEF ClearMountPoint, MountInv
<1>3. ASSUME NEW p \in Pipelines, Step(p) PROVE MountInv'
  <2>1. HolderStep(p)
    BY <1>3, StepHolder DEF LoopInv
  <2>2. ASSUME NEW q \in Pipelines \ {p} PROVE Holds(q)' <=> Holds(q)
    BY <1>3, StepOthers DEF OthersStay, Holds, Remote
  <2>3. ASSUME NEW q \in Pipelines \ {p}, Holds(q)'
        PROVE  ~Holds(p) /\ ~Holds(p)' /\ dir' /\ MountedBy(q)'
    <3>1. Holds(q) /\ dir /\ MountedBy(q) /\ ~Holds(p)
      BY <2>2, <2>3 DEF MountInv
    <3>2. ~Holds(p)' /\ UNCHANGED world
      BY <2>1, <3>1 DEF HolderStep
    <3>. QED  BY <1>3, <3>1, <3>2, StepOthers DEF OthersStay, MountedBy, world
  <2>4. ASSUME NEW q \in Pipelines, NEW r \in Pipelines, Holds(q)', Holds(r)' PROVE q = r
    <3>1. CASE q = p \/ r = p
      BY <2>3, <2>4, <3>1
    <3>2. CASE q # p /\ r # p
      BY <2>2, <2>4, <3>2 DEF MountInv
    <3>. QED  BY <3>1, <3>2
  <2>5. ASSUME NEW q \in Pipelines, Holds(q)' PROVE dir' /\ MountedBy(q)'
    BY <2>1, <2>3, <2>5 DEF HolderStep
  <2>. QED  BY <2>1, <2>4, <2>5 DEF MountInv, HolderStep
<1>. QED  BY <1>1, <1>2, <1>3 DEF Next

(* The invariant that the theorems below rest on.                          *)
THEOREM Invariant == Spec => []PipelineInv
<1>1. Init => PipelineInv
  BY InitTypeOK, InitLoopInv, InitMountInv DEF PipelineInv
<1>2. PipelineInv /\ [Next]_vars => PipelineInv'
  BY TypeOKNext, LoopInvNext, MountInvNext DEF PipelineInv
<1>. QED  BY <1>1, <1>2, PTL DEF Spec

-----------------------------------------------------------------------------
(* While a pipeline runs autopkg or repoclean against a remote repository, *)
(* its own share, and nothing else, is mounted at the path.                *)
THEOREM OwnMount == Spec => []WorksOnOwnMount
<1>1. ASSUME PipelineInv, NEW p \in Pipelines, Remote(p), At(p, "autopkg") \/ At(p, "gc")
      PROVE  dir /\ mounts = <<p>>
  <2>1. pc[p] = "work" /\ completed[p] = 1..(st[p] - 1) /\ st[p] \in {5, 6}
    BY <1>1, StagePositions DEF PipelineInv, TypeOK, LoopInv, LoopAt, InLoop, At, Working
  <2>2. Holds(p)
    BY <1>1, <2>1, StagePositions DEF Holds
  <2>. QED  BY <1>1, <2>1, <2>2 DEF PipelineInv, MountInv, MountedBy
<1>2. PipelineInv => WorksOnOwnMount
  BY <1>1 DEF WorksOnOwnMount
<1>. QED  BY <1>2, Invariant, PTL

(* No pipeline ever takes away a share that another one has mounted.       *)
THEOREM OwnUmount == Spec => UnmountsOnlyOwn
<1>1. ASSUME PipelineInv, NEW p \in Pipelines, pc[p] = "umount"
      PROVE  mounts[Len(mounts)] = p
  <2>1. Holds(p)
    BY <1>1 DEF PipelineInv, LoopInv, LoopAt, Holds
  <2>2. mounts = <<p>>
    BY <1>1, <2>1 DEF PipelineInv, MountInv, MountedBy
  <2>. QED  BY <2>2
<1>2. PipelineInv => [\A p \in Pipelines :
                       pc[p] = "umount" /\ pc'[p] # pc[p] /\ mounts' # mounts
                         => mounts[Len(mounts)] = p]_vars
  BY <1>1
<1>. QED  BY <1>2, Invariant, PTL DEF UnmountsOnlyOwn

(* execute returns True exactly when every stage has been completed.       *)
THEOREM Result == Spec => []SuccessIsComplete
<1>1. PipelineInv => SuccessIsComplete
  BY DEF PipelineInv, LoopInv, LoopAt, ResultDue, SuccessIsComplete
<1>. QED  BY <1>1, Invariant, PTL

-----------------------------------------------------------------------------
(* Without faults, whoever gives the mount point back removes it.          *)
CleanInv ==
  faults = 0 =>
    /\ \A p \in Pipelines : pc[p] = "rmdir" => mounts = <<>>
    /\ dir => \E p \in Pipelines : Holds(p)

CleanStep(p) ==
  faults' = 0 =>
    /\ faults = 0
    /\ pc'[p] = "rmdir" => mounts' = <<>>
    /\ Holds(p) /\ ~Holds(p)' => ~dir'

LEMMA StepClean ==
  ASSUME PipelineInv, CleanInv, NEW p \in Pipelines, Step(p)
  PROVE  CleanStep(p)
<1> SUFFICES ASSUME faults' = 0
             PROVE  /\ faults = 0
                    /\ pc'[p] = "rmdir" => mounts' = <<>>
                    /\ Holds(p) /\ ~Holds(p)' => ~dir'
  BY DEF CleanStep
<1> USE DEF PipelineInv, TypeOK, Holds, Remote
<1>1. faults \in Nat /\ ~Fault
  BY PipelineAssumption
<1>2. CASE Start(p) \/ SetCancelFlag(p) \/ NextStage(p) \/ MountPreCheck(p) \/ Mkdir(p)
             \/ Connect(p) \/ Notify(p)
  BY <1>2 DEF Start, SetCancelFlag, NextStage, MountPreCheck, Mkdir, Connect, Notify, Raise, At,
              CleanInv, world
<1>3. CASE UpdateRepos(p) \/ TrustVerification(p) \/ RunAutoPkg(p) \/ GarbageCollector(p)
             \/ EnvironmentCheck(p) \/ MountLocal(p)
  BY <1>3 DEF UpdateRepos, TrustVerification, RunAutoPkg, GarbageCollector, PlainStage,
              EnvironmentCheck, MountLocal, At, Complete, Raise
<1>4. CASE RmdirEmpty(p)
  <2>1. pc[p] = "rmdirEmpty" /\ pc'[p] = "cleanup" /\ faults' = faults
    BY <1>4 DEF RmdirEmpty, Raise
  <2>2. mounts = <<>>
    BY <2>1 DEF LoopInv, LoopAt, InMount, MountInv, MountedBy
  <2>3. ~dir'
    BY <1>4, <2>2 DEF RmdirEmpty, RemoveDir
  <2>. QED  BY <2>1, <2>3
<1>5. CASE Verify(p)
  <2>1. pc[p] = "verify" /\ st[p] = MountStage /\ Remote(p)
    BY <1>5 DEF Verify, LoopInv, LoopAt, InMount
  <2>2. CASE Complete(p) /\ UNCHANGED faults
    <3>1. pc'[p] = "check" /\ MountStage \in completed'[p] /\ conf' = conf
      BY <2>1, <2>2 DEF Complete
    <3>. QED  BY <2>1, <2>2, <3>1
  <2>3. CASE pc'[p] = "umount" /\ UNCHANGED <<conf, faults>>
    BY <2>1, <2>3
  <2>. QED  BY <1>1, <1>5, <2>2, <2>3 DEF Verify
<1>6. CASE Cleanup(p)
  BY <1>6 DEF Cleanup
<1>7. CASE Umount(p)
  <2>1. mounts = <<p>>
    BY <1>7 DEF Umount, LoopInv, LoopAt, MountInv, MountedBy
  <2>. QED  BY <1>1, <1>7, <2>1, MountStack DEF Umount
<1>8. CASE Rmdir(p)
  BY <1>8 DEF Rmdir, RemoveDir, Raise, CleanInv
<1>9. CASE Crash(p)
  BY <1>1, <1>9 DEF Crash
<1>. QED  BY <1>2, <1>3, <1>4, <1>5, <1>6, <1>7, <1>8, <1>9 DEF Step

LEMMA CleanInvNext ==
  ASSUME PipelineInv, PipelineInv', CleanInv, [Next]_vars
  PROVE  CleanInv'
<1> SUFFICES ASSUME faults' = 0
             PROVE  /\ \A q \in Pipelines : pc'[q] = "rmdir" => mounts' = <<>>
                    /\ dir' => \E q \in Pipelines : Holds(q)'
  BY DEF CleanInv
<1>1. CASE UNCHANGED vars
  BY <1>1 DEF CleanInv, Holds, Remote, vars, control, world
<1>2. CASE ClearMountPoint
  BY <1>2 DEF ClearMountPoint
<1>3. ASSUME NEW p \in Pipelines, Step(p)
      PROVE  /\ \A q \in Pipelines : pc'[q] = "rmdir" => mounts' = <<>>
             /\ dir' => \E q \in Pipelines : Holds(q)'
  <2>1. HolderStep(p) /\ OthersStay(p)
    BY <1>3, StepHolder, StepOthers DEF PipelineInv, LoopInv
  <2>2. /\ faults = 0
        /\ pc'[p] = "rmdir" => mounts' = <<>>
        /\ Holds(p) /\ ~Holds(p)' => ~dir'
    BY <1>3, StepClean DEF CleanStep
  <2>3. ASSUME NEW q \in Pipelines \ {p}
        PROVE  pc'[q] = pc[q] /\ (Holds(q)' <=> Holds(q))
    BY <2>1 DEF OthersStay, Holds, Remote
  <2>4. ASSUME NEW q \in Pipelines \ {p}, pc'[q] = "rmdir" PROVE mounts' = <<>>
    <3>1. Holds(q) /\ mounts = <<>>
      BY <2>2, <2>3, <2>4 DEF CleanInv, PipelineInv, LoopInv, LoopAt, Holds
    <3>2. ~Holds(p) /\ ~Holds(p)'
      BY <2>3, <3>1 DEF PipelineInv, MountInv
    <3>. QED  BY <2>1, <3>1, <3>2 DEF HolderStep, world
  <2>5. ASSUME dir', ~Holds(p)' PROVE \E q \in Pipelines : Holds(q)'
    <3>1. ~Holds(p) /\ dir
      BY <2>1, <2>2, <2>5 DEF HolderStep, world
    <3>2. PICK q \in Pipelines : Holds(q)
      BY <2>2, <3>1 DEF CleanInv
    <3>. QED  BY <2>3, <3>1, <3>2
  <2>. QED  BY <2>2, <2>4, <2>5
<1>. QED  BY <1>1, <1>2, <1>3 DEF Next

(* Unless a umount failed, a check raised or a process died, the machine   *)
(* is left as it was found once every pipeline is over.                    *)
THEOREM MachineLeftClean == Spec => []NothingLeftBehind
<1>1. Init => CleanInv
  BY DEF Init, CleanInv
<1>2. PipelineInv /\ PipelineInv' /\ CleanInv /\ [Next]_vars => CleanInv'
  BY CleanInvNext
<1>3. PipelineInv /\ CleanInv => NothingLeftBehind
  BY DEF PipelineInv, MountInv, CleanInv, NothingLeftBehind, Ended, Holds
<1>. QED  BY <1>1, <1>2, <1>3, Invariant, PTL DEF Spec

-----------------------------------------------------------------------------
(* mkdir, rmdir and what happens in between them implement the lock that   *)
(* MountLock states.                                                       *)
LEMMA LockStep ==
  ASSUME TypeOK, MountInv, NEW p \in Pipelines, HolderStep(p), OthersStay(p)
  PROVE  [Lock!Next]_(Lock!lock)
<1> USE DEF Lock!Next, Lock!Acquire, Lock!Release, Lock!Abandon
<1>1. \A q \in Pipelines \ {p} : q \in holders' <=> q \in holders
  BY DEF holders, Holds, Remote, OthersStay
<1>2. (p \in holders <=> Holds(p)) /\ (p \in holders' <=> Holds(p)')
  BY DEF holders
<1>3. holders \subseteq Pipelines /\ holders' \subseteq Pipelines
  BY DEF holders
<1>4. Holds(p) => holders = {p} /\ dir
  BY <1>2, <1>3 DEF holders, MountInv
<1>5. ~dir => holders = {}
  BY DEF holders, MountInv
<1>6. CASE Holds(p) /\ Holds(p)'
  <2>1. holders' = {p} /\ holders = {p}
    BY <1>1, <1>2, <1>3, <1>4, <1>6
  <2>2. dir' /\ dir
    BY <1>4, <1>6 DEF HolderStep
  <2>. QED  BY <2>1, <2>2 DEF Lock!lock
<1>7. CASE Holds(p) /\ ~Holds(p)'
  <2>1. holders = {p} /\ holders' = {}
    BY <1>1, <1>2, <1>3, <1>4, <1>7
  <2>. QED  BY <2>1
<1>8. CASE ~Holds(p) /\ Holds(p)'
  <2>1. ~dir /\ holders = {} /\ holders' = {p}
    BY <1>1, <1>2, <1>3, <1>5, <1>8 DEF HolderStep
  <2>. QED  BY <2>1
<1>9. CASE ~Holds(p) /\ ~Holds(p)'
  <2>1. \A q \in Pipelines : q \in holders' <=> q \in holders
    BY <1>1, <1>2, <1>9
  <2>2. holders' = holders
    BY <1>3, <2>1
  <2>3. dir' = dir
    BY <1>9 DEF HolderStep, world
  <2>. QED  BY <2>2, <2>3 DEF Lock!lock
<1>. QED  BY <1>6, <1>7, <1>8, <1>9

THEOREM MountPointIsLock == Spec => ImplementsLock
<1>1. Init => Lock!Init
  BY DEF Init, Lock!Init, holders, Holds
<1>2. PipelineInv /\ [Next]_vars => [Lock!Next]_(Lock!lock)
  <2> SUFFICES ASSUME PipelineInv, [Next]_vars PROVE [Lock!Next]_(Lock!lock)
    OBVIOUS
  <2>1. CASE UNCHANGED vars
    <3>1. dir' = dir /\ holders' = holders
      BY <2>1 DEF holders, Holds, Remote, vars, control, world
    <3>. QED  BY <3>1 DEF Lock!lock
  <2>2. CASE ClearMountPoint
    <3>1. holders' = holders /\ dir /\ holders = {} /\ ~dir'
      BY <2>2 DEF ClearMountPoint, holders, Holds, Remote, control
    <3>. QED  BY <3>1 DEF Lock!Next, Lock!Clear
  <2>3. ASSUME NEW p \in Pipelines, Step(p) PROVE [Lock!Next]_(Lock!lock)
    BY <2>3, StepHolder, StepOthers, LockStep DEF PipelineInv, LoopInv
  <2>. QED  BY <2>1, <2>2, <2>3 DEF Next
<1>. QED  BY <1>1, <1>2, Invariant, PTL DEF Spec, ImplementsLock, Lock!Spec
=============================================================================
