------------------------------ MODULE MountLock ------------------------------
(***************************************************************************)
(* What the mount point of the remote Munki repository promises to the     *)
(* pipelines that share it: it belongs to at most one of them at a time,   *)
(* and once somebody has gone without giving it back, to nobody until an   *)
(* administrator has cleared it.                                           *)
(***************************************************************************)
CONSTANT Pipelines

VARIABLES holders, stuck

lock == <<holders, stuck>>

Init == holders = {} /\ stuck = FALSE

Acquire(p) ==
  /\ holders = {} /\ ~stuck
  /\ holders' = {p}
  /\ UNCHANGED stuck

Release(p) ==
  /\ holders = {p}
  /\ holders' = {}
  /\ UNCHANGED stuck

(* The holder dies, or fails to unmount.                                   *)
Abandon(p) ==
  /\ holders = {p}
  /\ holders' = {}
  /\ stuck' = TRUE

Clear ==
  /\ stuck
  /\ stuck' = FALSE
  /\ UNCHANGED holders

Next == Clear \/ \E p \in Pipelines : Acquire(p) \/ Release(p) \/ Abandon(p)

Spec == Init /\ [][Next]_lock
=============================================================================
