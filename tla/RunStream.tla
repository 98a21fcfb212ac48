----------------------------- MODULE RunStream -----------------------------
(***************************************************************************)
(* How a browser follows one run live: the broadcaster that polls the      *)
(* database in each worker (webapp/run_broadcaster.py), the event stream   *)
(* that a viewer reads from it (run_stream in webapp/views/runs.py), and   *)
(* the page's script, which falls back to run_status when the stream       *)
(* breaks (templates/webapp/runs/detail.html).                             *)
(*                                                                         *)
(* The run itself is abstract here (RunLifecycle details it): it writes    *)
(* log rows 1, 2, ... and changes the status of its stages (numbered       *)
(* changes) until its status is terminal, and when it was cancelled or     *)
(* marked as failed from outside also after that.                          *)
(***************************************************************************)
EXTENDS Naturals, Sequences

CONSTANTS
  Workers, Viewers,
  NoWorker,   \* where a viewer that has no stream is connected
  MaxLogs,    \* bound on the log rows of the run
  MaxStages,  \* bound on its stage changes
  MaxFaults   \* bound on polls that raise, connections that break, failed requests

ASSUME StreamAssumption ==
  /\ NoWorker \notin Workers
  /\ MaxLogs \in Nat /\ MaxStages \in Nat /\ MaxFaults \in Nat

VARIABLES
  \* the database
  ended, logs, stages,
  atEnd,     \* history: the rows there were when the run's status became terminal
  \* the broadcaster of each worker
  bpc, sawEnd, lastLog, lastStage,
  frames,    \* new_frames
  events,    \* _events
  \* the page of each viewer
  vpc, at, cursor,
  lastLogId, \* the last log row the server has rendered into the page
  shown,     \* how often each log row is on the page, 2 standing for more
  vstage,    \* the last stage change the page shows
  faults

db == <<ended, logs, stages, atEnd>>
broadcaster == <<bpc, sawEnd, lastLog, lastStage, frames, events>>
viewer == <<vpc, at, cursor, lastLogId, shown, vstage>>
streamVars == <<db, broadcaster, viewer, faults>>

-----------------------------------------------------------------------------
LogFrame(n, hasId) == [type |-> "log", n |-> n, id |-> hasId]
StageFrame(n) == [type |-> "stage", n |-> n, id |-> FALSE]
CompleteFrame == [type |-> "complete", n |-> 0, id |-> FALSE]
DoneFrame == [type |-> "done", n |-> 0, id |-> FALSE]
Frame == {LogFrame(n, hasId) : n \in 1..MaxLogs, hasId \in BOOLEAN}
           \cup {StageFrame(n) : n \in 1..MaxStages} \cup {CompleteFrame, DoneFrame}

BPC == {"none", "poll", "logs", "stages", "publish",
        "lateLogs", "lateStages", "latePublish", "notify", "done"}
VPC == {"away", "loading", "open", "broken", "disconnected", "complete", "closed"}
Live == {"poll", "logs", "stages", "publish", "lateLogs", "lateStages", "latePublish", "notify"}

StreamTypeOK ==
  /\ ended \in BOOLEAN /\ logs \in 0..MaxLogs /\ stages \in 0..MaxStages
  /\ atEnd \in [logs : 0..MaxLogs, stages : 0..MaxStages]
  /\ bpc \in [Workers -> BPC]
  /\ sawEnd \in [Workers -> BOOLEAN]
  /\ lastLog \in [Workers -> 0..MaxLogs]
  /\ lastStage \in [Workers -> 0..MaxStages]
  /\ frames \in [Workers -> Seq(Frame)] /\ events \in [Workers -> Seq(Frame)]
  /\ vpc \in [Viewers -> VPC]
  /\ at \in [Viewers -> Workers \cup {NoWorker}]
  /\ cursor \in [Viewers -> Nat]
  /\ \A v \in Viewers : vpc[v] = "open" => at[v] # NoWorker /\ cursor[v] <= Len(events[at[v]])
  /\ lastLogId \in [Viewers -> 0..MaxLogs]
  /\ shown \in [Viewers -> [1..MaxLogs -> 0..2]]
  /\ vstage \in [Viewers -> 0..MaxStages]
  /\ faults \in 0..MaxFaults

StreamInit ==
  /\ ended = FALSE /\ logs = 0 /\ stages = 0
  /\ atEnd = [logs |-> 0, stages |-> 0]
  /\ bpc = [w \in Workers |-> "none"]
  /\ sawEnd = [w \in Workers |-> FALSE]
  /\ lastLog = [w \in Workers |-> 0]
  /\ lastStage = [w \in Workers |-> 0]
  /\ frames = [w \in Workers |-> <<>>]
  /\ events = [w \in Workers |-> <<>>]
  /\ vpc = [v \in Viewers |-> "away"]
  /\ at = [v \in Viewers |-> NoWorker]
  /\ cursor = [v \in Viewers |-> 0]
  /\ lastLogId = [v \in Viewers |-> 0]
  /\ shown = [v \in Viewers |-> [n \in 1..MaxLogs |-> 0]]
  /\ vstage = [v \in Viewers |-> 0]
  /\ faults = 0

-----------------------------------------------------------------------------
(* The run.  DBLogHandler.emit and stage_callback autocommit each row.     *)

WriteLog ==
  /\ logs < MaxLogs
  /\ logs' = logs + 1
  /\ UNCHANGED <<ended, stages, atEnd, broadcaster, viewer, faults>>

ChangeStage ==
  /\ stages < MaxStages
  /\ stages' = stages + 1
  /\ UNCHANGED <<ended, logs, atEnd, broadcaster, viewer, faults>>

EndRun ==
  /\ ~ended
  /\ ended' = TRUE
  /\ atEnd' = [logs |-> logs, stages |-> stages]
  /\ UNCHANGED <<logs, stages, broadcaster, viewer, faults>>

-----------------------------------------------------------------------------
(* RunBroadcaster._run, one step per query and per use of the lock.        *)

BGoto(w, label) == bpc' = [bpc EXCEPT ![w] = label]

PollRun(w) ==
  /\ bpc[w] = "poll"
  /\ sawEnd' = [sawEnd EXCEPT ![w] = ended]
  /\ frames' = [frames EXCEPT ![w] = <<>>]
  /\ BGoto(w, "logs")
  /\ UNCHANGED <<db, lastLog, lastStage, events, viewer, faults>>

(* LogEntry.objects.filter(id__gt=last_log_id).order_by('id')              *)
NewLogs(w, hasId) ==
  [i \in 1..(logs - lastLog[w]) |-> LogFrame(lastLog[w] + i, hasId)]

PollLogs(w) ==
  /\ bpc[w] = "logs"
  /\ frames' = [frames EXCEPT ![w] = @ \o NewLogs(w, TRUE)]
  /\ lastLog' = [lastLog EXCEPT ![w] = logs]
  /\ BGoto(w, "stages")
  /\ UNCHANGED <<db, sawEnd, lastStage, events, viewer, faults>>

(* A frame only if the status is not the one seen last.                    *)
NewStages(w) == IF stages = lastStage[w] THEN <<>> ELSE <<StageFrame(stages)>>

PollStages(w) ==
  /\ bpc[w] = "stages"
  /\ frames' = [frames EXCEPT ![w] = @ \o NewStages(w)]
  /\ lastStage' = [lastStage EXCEPT ![w] = stages]
  /\ BGoto(w, "publish")
  /\ UNCHANGED <<db, sawEnd, lastLog, events, viewer, faults>>

(* Mutant: so as not to send them twice, the last poll's frames are not    *)
(* published before the final pass, which starts with an empty list.       *)
Publish_NotLast(w) ==
  /\ bpc[w] = "publish"
  /\ events' = [events EXCEPT ![w] = IF sawEnd[w] THEN @ ELSE @ \o frames[w]]
  /\ frames' = [frames EXCEPT ![w] = <<>>]
  /\ BGoto(w, IF sawEnd[w] THEN "lateLogs" ELSE "poll")
  /\ UNCHANGED <<db, sawEnd, lastLog, lastStage, viewer, faults>>

Publish(w) ==
  /\ bpc[w] = "publish"
  /\ events' = [events EXCEPT ![w] = @ \o frames[w]]
  /\ BGoto(w, IF sawEnd[w] THEN "lateLogs" ELSE "poll")
  /\ UNCHANGED <<db, sawEnd, lastLog, lastStage, frames, viewer, faults>>

(* The final pass, a little later, collects what came in meanwhile into    *)
(* the same list, so that the last poll's frames are published twice.  Its *)
(* own log frames lack the id.                                             *)
LateLogs(w) ==
  /\ bpc[w] = "lateLogs"
  /\ frames' = [frames EXCEPT ![w] = @ \o NewLogs(w, FALSE)]
  /\ lastLog' = [lastLog EXCEPT ![w] = logs]
  /\ BGoto(w, "lateStages")
  /\ UNCHANGED <<db, sawEnd, lastStage, events, viewer, faults>>

LateStages(w) ==
  /\ bpc[w] = "lateStages"
  /\ frames' = [frames EXCEPT ![w] = @ \o NewStages(w)]
  /\ lastStage' = [lastStage EXCEPT ![w] = stages]
  /\ BGoto(w, "latePublish")
  /\ UNCHANGED <<db, sawEnd, lastLog, events, viewer, faults>>

LatePublish(w) ==
  /\ bpc[w] = "latePublish"
  /\ events' = [events EXCEPT ![w] = (@ \o frames[w]) \o <<CompleteFrame, DoneFrame>>]
  /\ BGoto(w, "notify")
  /\ UNCHANGED <<db, sawEnd, lastLog, lastStage, frames, viewer, faults>>

(* After notifying the run list, the thread marks itself as done.          *)
Finish(w) ==
  /\ bpc[w] = "notify"
  /\ BGoto(w, "done")
  /\ UNCHANGED <<db, sawEnd, lastLog, lastStage, frames, events, viewer, faults>>

(* Mutant: _done is not set in a 'finally' block. *)
PollRaises_NoFinally(w) ==
  /\ bpc[w] \in Live \ {"publish", "latePublish", "notify"}
  /\ faults < MaxFaults /\ faults' = faults + 1
  /\ BGoto(w, "dead")
  /\ UNCHANGED <<db, sawEnd, lastLog, lastStage, frames, events, viewer>>

(* A query raises: the thread ends without the terminal frames.            *)
PollRaises(w) ==
  /\ bpc[w] \in Live \ {"publish", "latePublish", "notify"}
  /\ faults < MaxFaults /\ faults' = faults + 1
  /\ BGoto(w, "done")
  /\ UNCHANGED <<db, sawEnd, lastLog, lastStage, frames, events, viewer>>

(* _DONE_TTL passes and the manager drops the broadcaster; by then every   *)
(* viewer has read to the end.                                             *)
Expire(w) ==
  /\ bpc[w] = "done"
  /\ \A v \in Viewers : vpc[v] = "open" => at[v] # w
  /\ BGoto(w, "none")
  /\ sawEnd' = [sawEnd EXCEPT ![w] = FALSE]
  /\ lastLog' = [lastLog EXCEPT ![w] = 0]
  /\ lastStage' = [lastStage EXCEPT ![w] = 0]
  /\ frames' = [frames EXCEPT ![w] = <<>>]
  /\ events' = [events EXCEPT ![w] = <<>>]
  /\ UNCHANGED <<db, viewer, faults>>

(* _BroadcasterManager.get: the worker's broadcaster, or a new one that    *)
(* polls from the beginning.                                               *)
GetBroadcaster(w) ==
  /\ BGoto(w, IF bpc[w] = "none" THEN "poll" ELSE bpc[w])
  /\ UNCHANGED <<sawEnd, lastLog, lastStage, frames, events>>

-----------------------------------------------------------------------------
(* A viewer's page.                                                        *)

VGoto(v, label) == vpc' = [vpc EXCEPT ![v] = label]

(* Mutant: the reader goes on where it was, as after a Last-Event-ID. *)
Connect_KeepCursor(v) ==
  \E w \in Workers :
    /\ GetBroadcaster(w)
    /\ VGoto(v, "open")
    /\ at' = [at EXCEPT ![v] = w]
    /\ UNCHANGED cursor

(* startSSE: a new EventSource has no Last-Event-ID, so the stream starts  *)
(* at the first event; any worker may serve it.                            *)
Connect(v) ==
  \E w \in Workers :
    /\ GetBroadcaster(w)
    /\ VGoto(v, "open")
    /\ at' = [at EXCEPT ![v] = w]
    /\ cursor' = [cursor EXCEPT ![v] = 0]

(* Mutant: last_log_id comes from a later query than the rows. *)
RenderLogs_LateId(v) ==
  \E m \in 0..logs :
    /\ shown' = [shown EXCEPT ![v] = [n \in 1..MaxLogs |-> IF n <= m THEN 1 ELSE 0]]
    /\ lastLogId' = [lastLogId EXCEPT ![v] = logs]
    /\ vstage' = [vstage EXCEPT ![v] = stages]

(* The rows that the server has rendered into the page.                    *)
RenderLogs(v) ==
  /\ shown' = [shown EXCEPT ![v] = [n \in 1..MaxLogs |-> IF n <= logs THEN 1 ELSE 0]]
  /\ lastLogId' = [lastLogId EXCEPT ![v] = logs]
  /\ vstage' = [vstage EXCEPT ![v] = stages]

(* RunDetailView reads the run first: a page whose run is over opens no    *)
(* stream.                                                                 *)
OpenPage(v) ==
  /\ vpc[v] = "away"
  /\ VGoto(v, IF ended THEN "closed" ELSE "loading")
  /\ IF ended
     THEN RenderLogs(v)
     ELSE UNCHANGED <<shown, lastLogId, vstage>>
  /\ UNCHANGED <<db, broadcaster, at, cursor, faults>>

(* The log rows follow in a query of their own; then the script starts.    *)
LoadPage(v) ==
  /\ vpc[v] = "loading"
  /\ RenderLogs(v)
  /\ Connect(v)
  /\ UNCHANGED <<db, faults>>

Unread(v) == SubSeq(events[at[v]], cursor[v] + 1, Len(events[at[v]]))

CloseStream(v) ==
  /\ at' = [at EXCEPT ![v] = NoWorker]
  /\ cursor' = [cursor EXCEPT ![v] = 0]

(* onmessage.  A log frame that carries the id of a row the server has     *)
(* rendered is skipped; 'complete' closes the stream.                      *)
OnMessage(v) ==
  /\ vpc[v] = "open" /\ Unread(v) # <<>>
  /\ LET f == Head(Unread(v))
     IN /\ shown' = IF f.type = "log" /\ ~(f.id /\ f.n <= lastLogId[v])
                    THEN [shown EXCEPT ![v][f.n] = IF @ = 0 THEN 1 ELSE 2] ELSE shown
        /\ vstage' = [vstage EXCEPT ![v] = IF f.type = "stage" THEN f.n ELSE @]
        /\ IF f.type = "complete"
           THEN VGoto(v, "complete") /\ CloseStream(v)
           ELSE cursor' = [cursor EXCEPT ![v] = @ + 1] /\ UNCHANGED <<vpc, at>>
  /\ UNCHANGED <<db, broadcaster, lastLogId, faults>>

(* The server ends the stream when the broadcaster is done and all of its  *)
(* events have been read; onerror fires.                                   *)
StreamEnds(v) ==
  /\ vpc[v] = "open" /\ Unread(v) = <<>> /\ bpc[at[v]] = "done"
  /\ VGoto(v, "broken")
  /\ at' = [at EXCEPT ![v] = NoWorker]
  /\ UNCHANGED <<db, broadcaster, cursor, lastLogId, shown, vstage, faults>>

(* The connection breaks.                                                  *)
Drop(v) ==
  /\ vpc[v] = "open"
  /\ faults < MaxFaults /\ faults' = faults + 1
  /\ VGoto(v, "broken")
  /\ at' = [at EXCEPT ![v] = NoWorker]
  /\ UNCHANGED <<db, broadcaster, cursor, lastLogId, shown, vstage>>

(* Mutant: any answer is taken for a terminal status. *)
FetchStatus_AnyAnswer(v) ==
  /\ vpc[v] = "broken"
  /\ VGoto(v, "closed")
  /\ vstage' = [vstage EXCEPT ![v] = stages]
  /\ UNCHANGED <<db, broadcaster, at, cursor, lastLogId, shown, faults>>

(* _fetchRunStatus: either the final state, without the missing log rows,  *)
(* or a new stream; if the request fails the page says "disconnected".     *)
FetchStatus(v) ==
  /\ vpc[v] = "broken"
  /\ \/ /\ ended
        /\ VGoto(v, "closed")
        /\ vstage' = [vstage EXCEPT ![v] = stages]
        /\ UNCHANGED <<broadcaster, at, cursor, faults>>
     \/ /\ ~ended
        /\ Connect(v)
        /\ UNCHANGED <<vstage, faults>>
     \/ /\ faults < MaxFaults /\ faults' = faults + 1
        /\ VGoto(v, "disconnected")
        /\ UNCHANGED <<broadcaster, at, cursor, vstage>>
  /\ UNCHANGED <<db, lastLogId, shown>>

-----------------------------------------------------------------------------
PollStep(w) ==
  \/ PollRun(w) \/ PollLogs(w) \/ PollStages(w) \/ Publish(w)
  \/ LateLogs(w) \/ LateStages(w) \/ LatePublish(w) \/ Finish(w)

PageStep(v) == LoadPage(v) \/ OnMessage(v) \/ StreamEnds(v) \/ FetchStatus(v)

StreamNext ==
  \/ WriteLog \/ ChangeStage \/ EndRun
  \/ \E w \in Workers : PollStep(w) \/ PollRaises(w) \/ Expire(w)
  \/ \E v \in Viewers : PageStep(v) \/ OpenPage(v) \/ Drop(v)

Fairness ==
  /\ \A w \in Workers : WF_streamVars(PollStep(w))
  /\ \A v \in Viewers : WF_streamVars(PageStep(v))

StreamSpec == StreamInit /\ [][StreamNext]_streamVars /\ Fairness

-----------------------------------------------------------------------------
(* A page that was told 'complete' shows every log row and every stage     *)
(* change there was when the run ended: the status is read before the rows *)
(* and published after them (run_broadcaster.py:84-176).                   *)
CompleteIsComplete ==
  \A v \in Viewers : vpc[v] = "complete" =>
    /\ \A n \in 1..atEnd.logs : shown[v][n] > 0
    /\ atEnd.stages <= vstage[v]

(* A page never shows a log row without the rows before it, whichever      *)
(* workers serve it and however often it reconnects: what the server has   *)
(* rendered and what it streams neither miss each other nor reorder.       *)
NoGap ==
  \A v \in Viewers, m, n \in 1..MaxLogs : m < n /\ shown[v][n] > 0 => shown[v][m] > 0

(* A page that follows the run gets to know its end, although polls raise  *)
(* and connections break now and then; only if asking for the status fails *)
(* too does it say that it is disconnected.                                *)
SeesTheEnd ==
  \A v \in Viewers :
    ended /\ vpc[v] \in {"loading", "open", "broken"}
      ~> vpc[v] \in {"complete", "closed", "disconnected"}

(* What a page is doing, and the log rows on it, for RunView.              *)
PageOf(v) ==
  CASE vpc[v] \in {"loading", "open", "broken"} -> "following"
    [] vpc[v] = "closed" -> "over"
    [] OTHER -> vpc[v]
OnPage(v) == {n \in 1..MaxLogs : shown[v][n] > 0}

View == INSTANCE RunView WITH
  page <- [v \in Viewers |-> PageOf(v)], rows <- [v \in Viewers |-> OnPage(v)], stage <- vstage

(* Whatever broadcasters and connections do, a page keeps the promise of   *)
(* RunView: what it shows are rows of the run, without gaps, and none is   *)
(* ever taken back; 'complete' and the terminal status are true when they  *)
(* are told, and nothing follows them.                                     *)
ImplementsView == View!Spec
=============================================================================
