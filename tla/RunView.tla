------------------------------ MODULE RunView ------------------------------
(***************************************************************************)
(* What the page of a run promises to its viewers.  The run writes log     *)
(* rows and changes the status of its stages; a page that follows it shows *)
(* a growing prefix of the rows, is told that the run is complete only     *)
(* when it shows all there was at the end, and claims that the run is over *)
(* only when it is.  How the rows get there is left open.                  *)
(***************************************************************************)
EXTENDS Naturals

CONSTANT Viewers

VARIABLES
  logs, stages,  \* log rows and stage changes of the run
  ended, atEnd,  \* whether it is over, and what there was when it ended
  page,          \* what each page is doing
  rows, stage    \* the log rows and the stage change it shows

run == <<logs, stages, ended, atEnd>>
pages == <<page, rows, stage>>
view == <<run, pages>>

Init ==
  /\ logs = 0 /\ stages = 0 /\ ~ended
  /\ atEnd = [logs |-> 0, stages |-> 0]
  /\ page = [v \in Viewers |-> "away"]
  /\ rows = [v \in Viewers |-> {}]
  /\ stage = [v \in Viewers |-> 0]

-----------------------------------------------------------------------------
WriteLog == logs' = logs + 1 /\ UNCHANGED <<stages, ended, atEnd, pages>>

ChangeStage == stages' = stages + 1 /\ UNCHANGED <<logs, ended, atEnd, pages>>

End ==
  /\ ~ended /\ ended' = TRUE
  /\ atEnd' = [logs |-> logs, stages |-> stages]
  /\ UNCHANGED <<logs, stages, pages>>

-----------------------------------------------------------------------------
Turn(v, from, to) == page[v] = from /\ page' = [page EXCEPT ![v] = to]

Follow(v) == ~ended /\ Turn(v, "away", "following") /\ UNCHANGED <<run, rows, stage>>

(* A page that is opened when the run is over shows all of it.             *)
Read(v) ==
  /\ ended /\ Turn(v, "away", "over")
  /\ rows' = [rows EXCEPT ![v] = 1..logs]
  /\ stage' = [stage EXCEPT ![v] = stages]
  /\ UNCHANGED run

Prefix(S) == \A n \in S : 1..n \subseteq S

Show(v) ==
  /\ page[v] = "following"
  /\ \E more \in SUBSET (1..logs) :
       rows[v] \subseteq more /\ Prefix(more) /\ rows' = [rows EXCEPT ![v] = more]
  /\ \E s \in 0..stages : stage' = [stage EXCEPT ![v] = s]
  /\ UNCHANGED <<run, page>>

Complete(v) ==
  /\ ended /\ 1..atEnd.logs \subseteq rows[v] /\ atEnd.stages <= stage[v]
  /\ Turn(v, "following", "complete")
  /\ UNCHANGED <<run, rows, stage>>

(* The end is known, but rows may be missing.                              *)
Close(v) ==
  /\ ended /\ Turn(v, "following", "over")
  /\ stage' = [stage EXCEPT ![v] = stages]
  /\ UNCHANGED <<run, rows>>

GiveUp(v) == Turn(v, "following", "disconnected") /\ UNCHANGED <<run, rows, stage>>

Next ==
  \/ WriteLog \/ ChangeStage \/ End
  \/ \E v \in Viewers : Follow(v) \/ Read(v) \/ Show(v) \/ Complete(v) \/ Close(v) \/ GiveUp(v)

Spec == Init /\ [][Next]_view
=============================================================================
