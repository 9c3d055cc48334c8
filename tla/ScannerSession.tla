--------------------------- MODULE ScannerSession ---------------------------
(***************************************************************************)
(* One scan session: a worker of oxidexd (scan_with_scannerd) on one side  *)
(* of a socket, the connection thread of oxidex-scannerd (handle_client)   *)
(* and the scan thread it spawns (run_scan_job) on the other.  A worker    *)
(* starts one scan per connection, so the job table of the connection      *)
(* holds one job.                                                          *)
(*                                                                         *)
(* Frames of the two scanner threads are kept whole by the writer lock and *)
(* are atomic here.  A write blocks while the socket buffer is full.       *)
(***************************************************************************)
EXTENDS Naturals, Sequences

CONSTANTS
  BufferSize,    \* frames the socket holds before a write to the worker blocks
  MaxProgress,   \* progress events of one scan (a bound)
  IdCycle        \* request identifiers are counted modulo this (a bound); the
                 \* code counts in 64 bits

ASSUME SessionAssumption ==
  /\ BufferSize \in Nat \ {0}
  /\ MaxProgress \in Nat
  /\ IdCycle \in Nat /\ IdCycle > 2

VARIABLES
  worker,     \* where scan_with_scannerd is
  flag,       \* the cancel flag of the daemon's job
  nextId,     \* its request counter
  result,     \* how scan_with_scannerd returned
  requests,   \* requests on their way to the scanner daemon
  frames,     \* responses and events on their way to the worker
  alive,      \* does the scanner daemon run?
  connection, \* where the connection thread is
  answer,     \* the response it is about to write
  scan,       \* where the scan thread is
  progress,   \* progress events sent
  job         \* the entry of the job table: state, cancel flag, payload

workerVars  == <<worker, nextId, result>>
scannerVars == <<alive, connection, answer, scan, progress, job>>
vars == <<worker, flag, nextId, result, requests, frames, scannerVars>>

-----------------------------------------------------------------------------
(* Values *)

Ids     == 0 .. IdCycle
Methods == {"start_scan", "take_result", "cancel_scan"}
Request == [id : Ids, method : Methods]

\* "to" is the method that a frame answers; an event answers none and has no
\* identifier, which is 0 here.
Frame  == [id : Ids, to : Methods \cup {"none"}, says : {"ok", "notReady", "refused"}]
Event  == [id |-> 0, to |-> "none", says |-> "notReady"]
NoJob  == [state |-> "none", cancelled |-> FALSE, payload |-> FALSE]

JobStates   == {"none", "Running", "Finished", "Failed", "Cancelled"}
Waiting     == {"starting", "taking", "cancelling"}
WorkerPlaces == {"connecting", "polling", "ended"} \cup Waiting
ScanPlaces  == {"none", "scanning", "reporting", "complete", "cancelEvent",
                "finishEvent", "failing", "failingCancelled", "failEvent", "done"}

TypeOK ==
  /\ worker \in WorkerPlaces
  /\ flag \in BOOLEAN
  /\ nextId \in 2 .. IdCycle
  /\ result \in {"none", "index", "cancelled", "failed"}
  /\ requests \in Seq(Request)
  /\ frames \in Seq(Frame)
  /\ Len(frames) <= BufferSize
  /\ alive \in BOOLEAN
  /\ connection \in {"none", "reading", "answering", "ended"}
  /\ answer \in Frame
  /\ scan \in ScanPlaces
  /\ progress \in 0 .. MaxProgress
  /\ job \in [state : JobStates, cancelled : BOOLEAN, payload : BOOLEAN]

Init ==
  /\ worker = "connecting"
  /\ flag = FALSE
  /\ nextId = 2
  /\ result = "none"
  /\ requests = <<>>
  /\ frames = <<>>
  /\ alive \in BOOLEAN
  /\ connection = "none"
  /\ answer = Event
  /\ scan = "none"
  /\ progress = 0
  /\ job = NoJob

\* The scanner daemon's side of the socket is closed when neither of its threads
\* holds it any more.
Hangup == ~alive \/ (connection = "ended" /\ scan \in {"none", "done"})

-----------------------------------------------------------------------------
(* The worker: scan_with_scannerd and read_until_response *)

Send(id, method, place) ==
  /\ requests' = Append(requests, [id |-> id, method |-> method])
  /\ worker' = place

\* It returns and closes the socket; what was not read is lost.
Return(r) ==
  /\ worker' = "ended"
  /\ result' = r
  /\ frames' = <<>>

Connect ==
  /\ worker = "connecting" /\ alive
  /\ Send(1, "start_scan", "starting")
  /\ connection' = "reading"
  /\ UNCHANGED <<flag, nextId, result, frames, alive, answer, scan, progress, job>>

ConnectFails ==
  /\ worker = "connecting"
  /\ Return("failed")
  /\ UNCHANGED <<flag, nextId, requests, scannerVars>>

\* Mutant: the counter of the requests runs off its type.
NextIdUnbounded(n) == n + 1

NextId(n) == IF n = IdCycle THEN 2 ELSE n + 1

\* Mutant: the worker leaves without waiting for the answer to its cancel request.
PollCancelledAndLeave ==
  /\ worker = "polling" /\ ~Hangup /\ flag
  /\ requests' = Append(requests, [id |-> nextId, method |-> "cancel_scan"])
  /\ Return("cancelled")
  /\ UNCHANGED <<flag, nextId, scannerVars>>

\* The top of the loop: one look at the cancel flag, then the next request.
\* The cancel request repeats the identifier of the last poll.
PollCancelled ==
  /\ worker = "polling" /\ ~Hangup /\ flag
  /\ Send(nextId, "cancel_scan", "cancelling")
  /\ UNCHANGED <<flag, nextId, result, frames, scannerVars>>

PollTake ==
  /\ worker = "polling" /\ ~Hangup /\ ~flag
  /\ nextId' = NextId(nextId)
  /\ Send(nextId', "take_result", "taking")
  /\ UNCHANGED <<flag, result, frames, scannerVars>>

\* A write to a closed socket, or the end of the stream while reading.
HangupSeen ==
  /\ Hangup
  /\ worker = "polling" \/ (worker \in Waiting /\ frames = <<>>)
  /\ Return(IF worker = "cancelling" THEN "cancelled" ELSE "failed")
  /\ UNCHANGED <<flag, nextId, requests, scannerVars>>

\* Mutant: the first frame is taken for the answer, event or not.
IsAnswerAny(f) == TRUE

IsAnswer(f) == f.id = IF worker = "starting" THEN 1 ELSE nextId

SkipFrame ==
  /\ worker \in Waiting /\ frames # <<>>
  /\ ~IsAnswer(Head(frames))
  /\ frames' = Tail(frames)
  /\ UNCHANGED <<workerVars, flag, requests, scannerVars>>

Answered == worker \in Waiting /\ frames # <<>> /\ IsAnswer(Head(frames))

\* The scan is under way, or the scanner has no result yet.
GoOnPolling ==
  /\ Answered
  /\ \/ worker = "starting" /\ Head(frames).says = "ok"
     \/ worker = "taking" /\ Head(frames).says = "notReady"
  /\ worker' = "polling"
  /\ frames' = Tail(frames)
  /\ UNCHANGED <<flag, nextId, result, requests, scannerVars>>

\* The worker has what it waited for: the result, an error, or the answer to its
\* cancel request, whatever that says.
Finish ==
  /\ Answered
  /\ CASE worker = "starting"   -> Head(frames).says # "ok" /\ Return("failed")
       [] worker = "taking"     -> \/ Head(frames).says = "ok" /\ Return("index")
                                   \/ Head(frames).says = "refused" /\ Return("failed")
       [] worker = "cancelling" -> Return("cancelled")
  /\ UNCHANGED <<flag, nextId, requests, scannerVars>>

\* cancel_scan_job of the daemon
RaiseFlag ==
  /\ ~flag /\ worker # "ended"
  /\ flag' = TRUE
  /\ UNCHANGED <<workerVars, requests, frames, scannerVars>>

-----------------------------------------------------------------------------
(* The connection thread: handle_client.  It shares the job table with the  *)
(* scan thread, which keeps it locked while it writes "scan_cancelled".     *)

TableLocked == scan = "cancelEvent"

Answering(r, says) ==
  /\ connection' = "answering"
  /\ answer' = [id |-> r.id, to |-> r.method, says |-> says]
  /\ requests' = Tail(requests)

Incoming(method) ==
  /\ connection = "reading" /\ requests # <<>>
  /\ Head(requests).method = method

StartScan ==
  /\ Incoming("start_scan")
  /\ Answering(Head(requests), "ok")
  /\ job' = [NoJob EXCEPT !.state = "Running"]
  /\ scan' = "scanning"
  /\ UNCHANGED <<workerVars, flag, frames, alive, progress>>

\* The device path or the file system type is not acceptable.
RefuseScan ==
  /\ Incoming("start_scan")
  /\ Answering(Head(requests), "refused")
  /\ UNCHANGED <<workerVars, flag, frames, alive, scan, progress, job>>

\* The flag of a job is raised in any state, but only a running job becomes
\* Cancelled.
CancelJob(states) ==
  job' = [job EXCEPT !.cancelled = TRUE,
                     !.state = IF @ \in states THEN "Cancelled" ELSE @]

\* Mutant: a late cancel request takes the state of a finished job.
CancelScanAnyState ==
  /\ Incoming("cancel_scan") /\ ~TableLocked
  /\ Answering(Head(requests), "ok")
  /\ CancelJob({"Running", "Finished"})
  /\ UNCHANGED <<workerVars, flag, frames, alive, scan, progress>>

CancelScan ==
  /\ Incoming("cancel_scan") /\ ~TableLocked
  /\ Answering(Head(requests), "ok")
  /\ CancelJob({"Running"})
  /\ UNCHANGED <<workerVars, flag, frames, alive, scan, progress>>

TakeResult ==
  /\ Incoming("take_result") /\ ~TableLocked
  /\ Answering(Head(requests),
       CASE job.state = "Running" -> "notReady"
         [] job.state = "Finished" /\ job.payload -> "ok"
         [] OTHER -> "refused")
  /\ job' = [job EXCEPT !.payload = IF job.state = "Finished" THEN FALSE ELSE @]
  /\ UNCHANGED <<workerVars, flag, frames, alive, scan, progress>>

\* write_frame succeeds when there is room, and fails when the worker is gone.
Room == Len(frames) < BufferSize
Gone == worker = "ended"

WriteAnswer ==
  /\ connection = "answering"
  /\ \/ /\ ~Gone /\ Room
        /\ frames' = Append(frames, answer)
        /\ connection' = "reading"
     \/ /\ Gone
        /\ connection' = "ended"
        /\ UNCHANGED frames
  /\ answer' = Event
  /\ UNCHANGED <<workerVars, flag, requests, alive, scan, progress, job>>

\* End of the stream, or a reset because the worker left frames unread.
EndConnection ==
  /\ connection = "reading" /\ Gone
  /\ connection' = "ended"
  /\ UNCHANGED <<workerVars, flag, requests, frames, alive, answer, scan, progress, job>>

-----------------------------------------------------------------------------
(* The scan thread: run_scan_job *)

At(place, next) == scan = place /\ scan' = next

\* Mutant: the thread waits for room even when there is no reader any more.
EmitEventWaiting == Room /\ ~Gone /\ frames' = Append(frames, Event)

\* An event is written when there is room; without a reader the error is ignored.
EmitEvent ==
  \/ ~Gone /\ Room /\ frames' = Append(frames, Event)
  \/ Gone /\ UNCHANGED frames

ScanKeepsAll == UNCHANGED <<workerVars, flag, requests, alive, connection, answer>>

Report ==
  /\ At("scanning", "reporting")
  /\ progress < MaxProgress
  /\ progress' = progress + 1
  /\ UNCHANGED <<frames, job>> /\ ScanKeepsAll

ReportEvent ==
  /\ At("reporting", "scanning")
  /\ EmitEvent
  /\ UNCHANGED <<progress, job>> /\ ScanKeepsAll

ScanComplete ==
  /\ At("scanning", "complete")
  /\ UNCHANGED <<frames, progress, job>> /\ ScanKeepsAll

ScanError ==
  /\ At("scanning", "failing")
  /\ UNCHANGED <<frames, progress, job>> /\ ScanKeepsAll

\* ensure_not_cancelled
ScanSeesCancel ==
  /\ At("scanning", "failingCancelled")
  /\ job.cancelled
  /\ UNCHANGED <<frames, progress, job>> /\ ScanKeepsAll

\* finish_job_success
DropResult ==
  /\ At("complete", "cancelEvent")
  /\ job.state = "Cancelled"
  /\ UNCHANGED <<frames, progress, job>> /\ ScanKeepsAll

Store == job' = [job EXCEPT !.state = "Finished", !.payload = TRUE]

\* Mutant: a job that was cancelled meanwhile is published all the same.
PublishResultAnyState ==
  /\ At("complete", "finishEvent")
  /\ Store
  /\ UNCHANGED <<frames, progress>> /\ ScanKeepsAll

PublishResult ==
  /\ At("complete", "finishEvent")
  /\ job.state # "Cancelled"
  /\ Store
  /\ UNCHANGED <<frames, progress>> /\ ScanKeepsAll

CancelEvent ==
  /\ At("cancelEvent", "done")
  /\ EmitEvent
  /\ UNCHANGED <<progress, job>> /\ ScanKeepsAll

\* The error of the last write is the error of the job.
FinishEvent ==
  /\ \/ ~Gone /\ At("finishEvent", "done") /\ EmitEvent
     \/ Gone /\ At("finishEvent", "failing") /\ UNCHANGED frames
  /\ UNCHANGED <<progress, job>> /\ ScanKeepsAll

\* Mutant: the thread of a failing scan ends without a trace in the table.
FailJobSilently ==
  /\ At("failing", "failEvent")
  /\ UNCHANGED <<frames, progress, job>> /\ ScanKeepsAll

\* finish_job_failed: whatever the state was.
FailJob ==
  /\ \/ At("failing", "failEvent") /\ job' = [job EXCEPT !.state = "Failed"]
     \/ At("failingCancelled", "failEvent") /\ job' = [job EXCEPT !.state = "Cancelled"]
  /\ UNCHANGED <<frames, progress>> /\ ScanKeepsAll

FailEvent ==
  /\ At("failEvent", "done")
  /\ EmitEvent
  /\ UNCHANGED <<progress, job>> /\ ScanKeepsAll

-----------------------------------------------------------------------------

\* The scanner daemon is killed: its threads, its table and the requests it has
\* not read are gone; the worker still reads what was written.
Crash ==
  /\ alive
  /\ alive' = FALSE
  /\ connection' = "ended"
  /\ scan' = "none"
  /\ answer' = Event
  /\ job' = NoJob
  /\ requests' = <<>>
  /\ UNCHANGED <<workerVars, flag, frames, progress>>

Worker == Connect \/ ConnectFails \/ PollCancelled \/ PollTake \/ HangupSeen
            \/ SkipFrame \/ GoOnPolling \/ Finish

Connection == StartScan \/ RefuseScan \/ CancelScan \/ TakeResult
                \/ WriteAnswer \/ EndConnection

Scan == Report \/ ReportEvent \/ ScanComplete \/ ScanError \/ ScanSeesCancel
          \/ DropResult \/ PublishResult \/ CancelEvent \/ FinishEvent
          \/ FailJob \/ FailEvent

Next == Worker \/ Connection \/ Scan \/ RaiseFlag \/ Crash

\* Every thread is scheduled.  Nothing is assumed of cancel requests and crashes.
Fairness == WF_vars(Worker) /\ WF_vars(Connection) /\ WF_vars(Scan)

Spec     == Init /\ [][Next]_vars
FairSpec == Spec /\ Fairness

-----------------------------------------------------------------------------
(* Properties *)

\* There is one request under way exactly while the worker waits, in one of three
\* places, and it is the one the worker waits for: events, the reuse of an
\* identifier by the cancel request and a scanner that answers late never give
\* the worker the answer to an earlier request.
UnderWay ==
  {requests[i].method : i \in 1 .. Len(requests)}
    \cup {frames[i].to : i \in {k \in 1 .. Len(frames) : frames[k].to # "none"}}
    \cup (IF connection = "answering" THEN {answer.to} ELSE {})

AnswerMatchesRequest ==
  worker # "ended" =>
    /\ UnderWay \subseteq CASE worker = "starting"   -> {"start_scan"}
                            [] worker = "taking"     -> {"take_result"}
                            [] worker = "cancelling" -> {"cancel_scan"}
                            [] OTHER -> {}
    /\ worker \in Waiting /\ alive => UnderWay # {}

\* A worker that reports "cancelled" has stopped the scan: the scanner daemon has
\* raised the scan's own flag before the worker is gone, or is gone itself.
CancelReached == result = "cancelled" => job.cancelled \/ ~alive

\* A result that is ready is kept for the worker: neither a late cancel request
\* nor the events after it take it away while the worker is there.
ResultKept ==
  [][job.state = "Finished" /\ job'.state # "Finished" => worker = "ended" \/ ~alive']_vars

\* A scan that was cancelled never hands out a result, even if it was complete.
CancelledStays == [][job.state = "Cancelled" => job'.state # "Finished"]_vars

\* The worker comes back: it has an index, an error or the cancellation, even if
\* the scanner daemon dies, its scan fails, or the socket is full of events.
SessionEnds == <>(worker = "ended")

\* When the worker is gone the scanner daemon forgets the session: no thread
\* waits for ever for a lock or for a reader.
ScannerCleansUp == worker = "ended" /\ connection # "none" ~> Hangup

=============================================================================
