---------------------------- MODULE SessionProofs ----------------------------
(***************************************************************************)
(* What TLAPS proves of the scanner session, for every size of the socket  *)
(* buffer, every number of progress events and every range of the request  *)
(* identifiers, with a scanner daemon that may die at any point.           *)
(***************************************************************************)
EXTENDS ScannerSession, SequenceTheorems, TLAPS

-----------------------------------------------------------------------------
(* The inductive invariant.  While the worker is there, one thing at most  *)
(* is under way - a request, an answer that is about to be written or a    *)
(* frame that is no event - and it is what the worker waits for.           *)

Seeks == IF worker = "starting" THEN 1 ELSE nextId

Asked == CASE worker = "starting"   -> "start_scan"
           [] worker = "taking"     -> "take_result"
           [] worker = "cancelling" -> "cancel_scan"
           [] OTHER                 -> "nothing"

Sought(id, method) == id = Seeks /\ method = Asked

RequestInv ==
  worker # "ended" /\ requests # <<>> =>
    /\ Len(requests) = 1
    /\ Sought(requests[1].id, requests[1].method)

AnswerInv ==
  worker # "ended" /\ connection = "answering" =>
    /\ requests = <<>>
    /\ Sought(answer.id, answer.to)

FrameInv ==
  worker # "ended" =>
    \A i \in 1 .. Len(frames) : frames[i] # Event =>
      /\ requests = <<>> /\ connection # "answering"
      /\ Sought(frames[i].id, frames[i].to)
      /\ \A j \in 1 .. Len(frames) : j # i => frames[j] = Event

\* While the scanner daemon lives, nothing gets lost.
AwaitedInv ==
  worker \in Waiting /\ alive =>
    \/ requests # <<>>
    \/ connection = "answering"
    \/ \E i \in 1 .. Len(frames) : frames[i].to # "none"

\* The connection thread stays for as long as the worker does.
ConnectionInv == alive /\ connection = "ended" => worker = "ended"

\* A job begins with its request.
StartInv ==
  worker = "connecting" \/ (worker = "starting" /\ requests # <<>>) =>
    scan = "none" /\ job.state = "none"

\* A finished job has no thread left that could fail, unless the worker is gone.
FinishedInv ==
  job.state = "Finished" => worker = "ended" \/ scan \in {"finishEvent", "done"}

\* A cancel request that has been read has raised the flag, and nothing that is
\* still to be read could start another job.
CancelInv ==
  /\ worker = "cancelling" /\ alive /\ requests = <<>> => job.cancelled
  /\ result # "none" => worker = "ended"
  /\ result = "cancelled" /\ alive => job.cancelled /\ requests = <<>>

TalkInv == RequestInv /\ AnswerInv /\ FrameInv /\ AwaitedInv

JobInv == ConnectionInv /\ StartInv /\ FinishedInv /\ CancelInv

SessionInv == TypeOK /\ TalkInv /\ JobInv

-----------------------------------------------------------------------------
(* Sequences.                                                              *)

LEMMA AppendedFrame ==
  ASSUME NEW s \in Seq(Frame), NEW f \in Frame
  PROVE  /\ Append(s, f) \in Seq(Frame)
         /\ Len(Append(s, f)) = Len(s) + 1
         /\ \A i \in 1 .. Len(s) : Append(s, f)[i] = s[i]
         /\ Append(s, f)[Len(s) + 1] = f
OBVIOUS

LEMMA TailOfFrames ==
  ASSUME NEW s \in Seq(Frame), s # <<>>
  PROVE  /\ Tail(s) \in Seq(Frame)
         /\ Len(Tail(s)) = Len(s) - 1
         /\ \A i \in 1 .. Len(Tail(s)) : Tail(s)[i] = s[i + 1]
         /\ Head(s) = s[1]
         /\ Len(s) \in Nat \ {0}
OBVIOUS

LEMMA EventIsFrame == Event \in Frame
BY SessionAssumption DEF Event, Frame, Ids, Methods

LEMMA FirstRequest ==
  ASSUME NEW s \in Seq(Request), s # <<>>
  PROVE  /\ Head(s) = s[1] /\ Head(s) \in Request
         /\ Tail(s) \in Seq(Request)
         /\ Len(s) = 1 => Tail(s) = <<>>
<1>1. Head(s) = s[1] /\ Head(s) \in Request /\ Tail(s) \in Seq(Request)
  OBVIOUS
<1>2. Len(s) = 1 => Len(Tail(s)) = 0
  OBVIOUS
<1> QED BY <1>1, <1>2, EmptySeq

LEMMA AnswerType ==
  ASSUME NEW r \in Request, NEW says \in {"ok", "notReady", "refused"}
  PROVE  [id |-> r.id, to |-> r.method, says |-> says] \in Frame
BY DEF Request, Frame

LEMMA NoJobType == NoJob \in [state : JobStates, cancelled : BOOLEAN, payload : BOOLEAN]
BY DEF NoJob, JobStates

LEMMA EmitEventType ==
  ASSUME TypeOK, EmitEvent
  PROVE  frames' \in Seq(Frame) /\ Len(frames') <= BufferSize
<1>1. Append(frames, Event) \in Seq(Frame) /\ Len(Append(frames, Event)) = Len(frames) + 1
  BY AppendedFrame, EventIsFrame DEF TypeOK
<1>2. Len(frames) \in Nat
  BY DEF TypeOK
<1> QED BY <1>1, <1>2, SessionAssumption DEF EmitEvent, Room, TypeOK

-----------------------------------------------------------------------------
(* Types.                                                                  *)

LEMMA TypeInit == Init => TypeOK
<1> SUFFICES ASSUME Init PROVE TypeOK
  OBVIOUS
<1>1. /\ requests \in Seq(Request)
      /\ frames \in Seq(Frame)
      /\ Len(frames) <= BufferSize
  BY SessionAssumption DEF Init
<1>2. answer \in Frame
  BY EventIsFrame DEF Init
<1>3. job \in [state : JobStates, cancelled : BOOLEAN, payload : BOOLEAN]
  BY NoJobType DEF Init
<1>4. /\ worker \in WorkerPlaces /\ scan \in ScanPlaces
      /\ flag \in BOOLEAN /\ alive \in BOOLEAN
  BY DEF Init, WorkerPlaces, ScanPlaces
<1>5. nextId \in 2 .. IdCycle /\ progress \in 0 .. MaxProgress
  BY SessionAssumption DEF Init
<1>6. /\ result \in {"none", "index", "cancelled", "failed"}
      /\ connection \in {"none", "reading", "answering", "ended"}
  BY DEF Init
<1> QED BY <1>1, <1>2, <1>3, <1>4, <1>5, <1>6 DEF TypeOK

LEMMA TypeStep ==
  ASSUME TypeOK, [Next]_vars
  PROVE  TypeOK'
<1> USE SessionAssumption, EventIsFrame, NoJobType
    DEF TypeOK, vars, workerVars, scannerVars, WorkerPlaces, Waiting, ScanPlaces, JobStates,
        Request, Methods, Ids, Room, At, ScanKeepsAll
<1>1. CASE Connect
  BY <1>1 DEF Connect, Send
<1>2. CASE ConnectFails
  BY <1>2 DEF ConnectFails, Return
<1>3. CASE PollCancelled
  BY <1>3 DEF PollCancelled, Send
<1>4. CASE PollTake
  BY <1>4 DEF PollTake, Send, NextId
<1>5. CASE HangupSeen
  BY <1>5 DEF HangupSeen, Return
<1>6. CASE SkipFrame
  BY <1>6 DEF SkipFrame, IsAnswer
<1>7. CASE GoOnPolling
  BY <1>7 DEF GoOnPolling, IsAnswer, Answered
<1>8. CASE Finish
  <2>1. \E r \in {"index", "cancelled", "failed"} : Return(r)
    BY <1>8 DEF Finish, Answered
  <2> QED BY <1>8, <2>1 DEF Finish, Return
<1>9. CASE StartScan
  <2> DEFINE r == Head(requests)
  <2>1. r \in Request /\ Tail(requests) \in Seq(Request)
    BY <1>9, FirstRequest DEF StartScan, Incoming
  <2>2. PICK says \in {"ok", "notReady", "refused"} :
          answer' = [id |-> r.id, to |-> r.method, says |-> says]
    BY <1>9 DEF StartScan, Answering
  <2>3. answer' \in Frame
    BY <2>1, <2>2, AnswerType
  <2> QED BY <1>9, <2>1, <2>3 DEF StartScan, Incoming, Answering
<1>10. CASE RefuseScan
  <2> DEFINE r == Head(requests)
  <2>1. r \in Request /\ Tail(requests) \in Seq(Request)
    BY <1>10, FirstRequest DEF RefuseScan, Incoming
  <2>2. PICK says \in {"ok", "notReady", "refused"} :
          answer' = [id |-> r.id, to |-> r.method, says |-> says]
    BY <1>10 DEF RefuseScan, Answering
  <2>3. answer' \in Frame
    BY <2>1, <2>2, AnswerType
  <2> QED BY <1>10, <2>1, <2>3 DEF RefuseScan, Incoming, Answering
<1>11. CASE CancelScan
  <2> DEFINE r == Head(requests)
  <2>1. r \in Request /\ Tail(requests) \in Seq(Request)
    BY <1>11, FirstRequest DEF CancelScan, Incoming
  <2>2. PICK says \in {"ok", "notReady", "refused"} :
          answer' = [id |-> r.id, to |-> r.method, says |-> says]
    BY <1>11 DEF CancelScan, Answering
  <2>3. answer' \in Frame
    BY <2>1, <2>2, AnswerType
  <2> QED BY <1>11, <2>1, <2>3 DEF CancelScan, Incoming, Answering, CancelJob
<1>12. CASE TakeResult
  <2> DEFINE r == Head(requests)
  <2>1. r \in Request /\ Tail(requests) \in Seq(Request)
    BY <1>12, FirstRequest DEF TakeResult, Incoming
  <2>2. PICK says \in {"ok", "notReady", "refused"} :
          answer' = [id |-> r.id, to |-> r.method, says |-> says]
    BY <1>12 DEF TakeResult, Answering
  <2>3. answer' \in Frame
    BY <2>1, <2>2, AnswerType
  <2>4. job' \in [state : JobStates, cancelled : BOOLEAN, payload : BOOLEAN]
    BY <1>12 DEF TakeResult
  <2> QED BY <1>12, <2>1, <2>3, <2>4 DEF TakeResult, Incoming, Answering
<1>13. CASE WriteAnswer
  <2>1. Append(frames, answer) \in Seq(Frame) /\ Len(Append(frames, answer)) = Len(frames) + 1
    BY AppendedFrame
  <2>2. Len(frames) \in Nat
    OBVIOUS
  <2>3. frames' \in Seq(Frame) /\ Len(frames') <= BufferSize
    BY <1>13, <2>1, <2>2 DEF WriteAnswer
  <2> QED BY <1>13, <2>3 DEF WriteAnswer
<1>14. CASE EndConnection
  BY <1>14 DEF EndConnection
<1>15. CASE Report
  BY <1>15 DEF Report
<1>16. CASE ReportEvent
  BY <1>16, EmitEventType DEF ReportEvent
<1>17. CASE ScanComplete
  BY <1>17 DEF ScanComplete
<1>18. CASE ScanError
  BY <1>18 DEF ScanError
<1>19. CASE ScanSeesCancel
  BY <1>19 DEF ScanSeesCancel
<1>20. CASE DropResult
  BY <1>20 DEF DropResult
<1>21. CASE PublishResult
  BY <1>21 DEF PublishResult, Store
<1>22. CASE CancelEvent
  BY <1>22, EmitEventType DEF CancelEvent
<1>23. CASE FinishEvent
  <2>1. CASE Gone
    BY <1>23, <2>1 DEF FinishEvent
  <2>2. CASE ~Gone
    <3>1. EmitEvent /\ scan' = "done" /\ UNCHANGED <<progress, job>> /\ ScanKeepsAll
      BY <1>23, <2>2 DEF FinishEvent
    <3> QED BY <2>2, <3>1, EmitEventType
  <2> QED BY <2>1, <2>2
<1>24. CASE FailJob
  BY <1>24 DEF FailJob
<1>25. CASE FailEvent
  BY <1>25, EmitEventType DEF FailEvent
<1>26. CASE RaiseFlag
  BY <1>26 DEF RaiseFlag
<1>27. CASE Crash
  <2>1. requests' \in Seq(Request) /\ answer' \in Frame
    BY <1>27 DEF Crash
  <2>2. job' \in [state : JobStates, cancelled : BOOLEAN, payload : BOOLEAN]
    BY <1>27 DEF Crash
  <2>3. alive' \in BOOLEAN /\ scan' \in ScanPlaces
    BY <1>27 DEF Crash
  <2>4. connection' \in {"none", "reading", "answering", "ended"}
    BY <1>27 DEF Crash
  <2>5. UNCHANGED <<worker, nextId, result, flag, frames, progress>>
    BY <1>27 DEF Crash
  <2> QED BY <2>1, <2>2, <2>3, <2>4, <2>5
<1>28. CASE UNCHANGED vars
  BY <1>28
<1> QED BY <1>1, <1>2, <1>3, <1>4, <1>5, <1>6, <1>7, <1>8, <1>9, <1>10, <1>11, <1>12, <1>13,
       <1>14, <1>15, <1>16, <1>17, <1>18, <1>19, <1>20, <1>21, <1>22, <1>23, <1>24, <1>25,
       <1>26, <1>27, <1>28
     DEF Next, Worker, Connection, Scan

-----------------------------------------------------------------------------
(* What is under way is what the worker waits for.                         *)

LEMMA NothingUnderWay ==
  ASSUME TypeOK, TalkInv, worker \in {"connecting", "polling"}
  PROVE  /\ requests = <<>>
         /\ connection # "answering"
         /\ \A i \in 1 .. Len(frames) : frames[i] = Event
<1>1. Asked = "nothing"
  BY DEF Asked
<1>2. \A i \in 1 .. Len(requests) : requests[i].method # "nothing"
  <2>1. \A i \in 1 .. Len(requests) : requests[i] \in Request
    BY DEF TypeOK
  <2> QED BY <2>1 DEF Request, Methods
<1>3. \A f \in Frame : f.to # "nothing"
  BY DEF Frame, Methods
<1>4. requests = <<>>
  BY <1>1, <1>2 DEF TalkInv, RequestInv, Sought
<1>5. connection # "answering"
  BY <1>1, <1>3 DEF TypeOK, TalkInv, AnswerInv, Sought
<1>6. \A i \in 1 .. Len(frames) : frames[i] \in Frame
  BY DEF TypeOK
<1> QED BY <1>1, <1>3, <1>4, <1>5, <1>6 DEF TalkInv, FrameInv, Sought

\* Nothing of it changes.
LEMMA TalkKept ==
  ASSUME TalkInv, UNCHANGED <<worker, nextId, requests, frames, alive, connection, answer>>
  PROVE  TalkInv'
BY DEF TalkInv, RequestInv, AnswerInv, FrameInv, AwaitedInv, Sought, Seeks, Asked

\* The worker is gone.
LEMMA TalkEnded ==
  ASSUME worker' = "ended"
  PROVE  TalkInv'
BY DEF TalkInv, RequestInv, AnswerInv, FrameInv, AwaitedInv, Waiting

\* The scan thread writes an event.
LEMMA TalkEmits ==
  ASSUME TypeOK, TalkInv, EmitEvent, ScanKeepsAll
  PROVE  TalkInv'
<1> USE DEF ScanKeepsAll, workerVars
<1>1. CASE UNCHANGED frames
  BY <1>1, TalkKept
<1>2. CASE frames' = Append(frames, Event)
  <2>1. /\ Len(frames') = Len(frames) + 1 /\ Len(frames) \in Nat
        /\ \A i \in 1 .. Len(frames) : frames'[i] = frames[i]
        /\ frames'[Len(frames) + 1] = Event
    BY <1>2, AppendedFrame, EventIsFrame DEF TypeOK
  <2>2. RequestInv' /\ AnswerInv'
    BY DEF TalkInv, RequestInv, AnswerInv, Sought, Seeks, Asked
  <2>3. FrameInv'
    BY <2>1 DEF TalkInv, FrameInv, Sought, Seeks, Asked
  <2>4. AwaitedInv'
    BY <2>1 DEF TalkInv, AwaitedInv
  <2> QED BY <2>2, <2>3, <2>4 DEF TalkInv
<1> QED BY <1>1, <1>2 DEF EmitEvent

\* The worker sends a request when nothing is under way.
LEMMA TalkSends ==
  ASSUME TypeOK, TalkInv, worker \in {"connecting", "polling"},
         NEW method \in Methods, NEW place \in Waiting,
         Send(IF place = "starting" THEN 1 ELSE nextId', method, place),
         CASE place = "starting"   -> method = "start_scan"
           [] place = "taking"     -> method = "take_result"
           [] place = "cancelling" -> method = "cancel_scan",
         UNCHANGED frames,
         connection' = "reading" \/ UNCHANGED connection
  PROVE  TalkInv'
<1> DEFINE r == [id |-> IF place = "starting" THEN 1 ELSE nextId', method |-> method]
<1>1. requests = <<>> /\ connection' # "answering"
      /\ \A i \in 1 .. Len(frames) : frames[i] = Event
  BY NothingUnderWay
<1>2. requests' = <<r>> /\ worker' = place
  BY <1>1 DEF Send
<1>3. RequestInv'
  BY <1>2 DEF RequestInv, Sought, Seeks, Asked, Waiting
<1>4. AnswerInv' /\ FrameInv'
  BY <1>1 DEF AnswerInv, FrameInv
<1>5. AwaitedInv'
  BY <1>2 DEF AwaitedInv
<1> QED BY <1>3, <1>4, <1>5 DEF TalkInv

\* The connection thread takes the request and prepares its answer.
LEMMA TalkAnswers ==
  ASSUME TypeOK, TalkInv, NEW method \in Methods, Incoming(method),
         NEW says, Answering(Head(requests), says), UNCHANGED <<worker, nextId, frames>>
  PROVE  TalkInv'
<1>1. CASE worker = "ended"
  BY <1>1, TalkEnded
<1>2. CASE worker # "ended"
  <2>1. /\ requests # <<>> /\ Len(requests) = 1 /\ Head(requests) = requests[1]
        /\ Sought(Head(requests).id, Head(requests).method)
        /\ Tail(requests) = <<>>
    BY <1>2, FirstRequest DEF TypeOK, Incoming, TalkInv, RequestInv
  <2>2. requests' = <<>> /\ connection' = "answering"
        /\ answer'.id = Head(requests).id /\ answer'.to = Head(requests).method
    BY <2>1 DEF Answering
  <2>3. AnswerInv'
    BY <2>1, <2>2 DEF AnswerInv, Sought, Seeks, Asked
  <2>4. \A i \in 1 .. Len(frames) : frames[i] = Event
    BY <1>2, <2>1 DEF TalkInv, FrameInv
  <2> QED BY <2>2, <2>3, <2>4 DEF TalkInv, RequestInv, FrameInv, AwaitedInv
<1> QED BY <1>1, <1>2

LEMMA TalkWrites ==
  ASSUME TypeOK, TalkInv, WriteAnswer
  PROVE  TalkInv'
<1> USE DEF WriteAnswer, workerVars
<1>1. CASE Gone
  BY <1>1, TalkEnded DEF Gone
<1>2. CASE ~Gone
  <2>1. /\ frames' = Append(frames, answer) /\ connection = "answering" /\ connection' = "reading"
        /\ UNCHANGED <<worker, nextId, requests>>
    BY <1>2
  <2>2. requests' = <<>> /\ answer.id = Seeks' /\ answer.to = Asked'
    BY <1>2, <2>1 DEF Gone, TalkInv, AnswerInv, Sought, Seeks, Asked
  <2>3. \A i \in 1 .. Len(frames) : frames[i] = Event
    BY <1>2, <2>1 DEF Gone, TalkInv, FrameInv
  <2>4. /\ Len(frames') = Len(frames) + 1 /\ Len(frames) \in Nat
        /\ \A i \in 1 .. Len(frames) : frames'[i] = frames[i]
        /\ frames'[Len(frames) + 1] = answer
    BY <2>1, AppendedFrame DEF TypeOK
  <2>5. FrameInv'
    <3> SUFFICES ASSUME NEW i \in 1 .. Len(frames'), frames'[i] # Event
                 PROVE  /\ requests' = <<>> /\ connection' # "answering"
                        /\ frames'[i].id = Seeks' /\ frames'[i].to = Asked'
                        /\ \A j \in 1 .. Len(frames') : j # i => frames'[j] = Event
      BY DEF FrameInv, Sought
    <3>1. i = Len(frames) + 1
      BY <2>3, <2>4
    <3>2. frames'[i].id = Seeks' /\ frames'[i].to = Asked'
      BY <2>2, <2>4, <3>1
    <3>3. \A j \in 1 .. Len(frames') : j # i => frames'[j] = Event
      BY <2>3, <2>4, <3>1
    <3> QED BY <2>1, <2>2, <3>2, <3>3
  <2>6. worker \in Waiting => answer.to # "none"
    BY <1>2, <2>1 DEF Gone, TalkInv, AnswerInv, Sought, Asked, Waiting
  <2>7. AwaitedInv'
    BY <2>1, <2>4, <2>6 DEF AwaitedInv
  <2> QED BY <2>1, <2>2, <2>5, <2>7 DEF TalkInv, RequestInv, AnswerInv
<1> QED BY <1>1, <1>2

\* The first frame is an event, or all that is under way.
LEMMA HeadFrame ==
  ASSUME TypeOK, TalkInv, worker \in Waiting, frames # <<>>
  PROVE  /\ Head(frames) = frames[1] /\ 1 \in 1 .. Len(frames)
         /\ IsAnswer(Head(frames)) => /\ Head(frames) # Event
                                      /\ requests = <<>> /\ connection # "answering"
                                      /\ \A j \in 1 .. Len(frames) : j # 1 => frames[j] = Event
         /\ ~IsAnswer(Head(frames)) => Head(frames) = Event
<1>1. Head(frames) = frames[1] /\ 1 \in 1 .. Len(frames)
  BY TailOfFrames DEF TypeOK
<1>2. Seeks # 0 /\ (IsAnswer(Head(frames)) <=> Head(frames).id = Seeks)
  BY SessionAssumption DEF Seeks, IsAnswer, TypeOK
<1>3. IsAnswer(Head(frames)) => Head(frames) # Event
  BY <1>2 DEF Event
<1>4. worker # "ended"
  BY DEF Waiting
<1> QED BY <1>1, <1>2, <1>3, <1>4 DEF TalkInv, FrameInv, Sought

LEMMA TalkSkips ==
  ASSUME TypeOK, TalkInv, SkipFrame
  PROVE  TalkInv'
<1> USE DEF SkipFrame, workerVars, scannerVars
<1>1. frames[1] = Event
  BY HeadFrame
<1>2. /\ Len(frames') = Len(frames) - 1 /\ Len(frames) \in Nat
      /\ \A i \in 1 .. Len(frames') : frames'[i] = frames[i + 1]
  BY TailOfFrames DEF TypeOK
<1>3. \A i \in 1 .. Len(frames') : i + 1 \in 1 .. Len(frames)
  BY <1>2
<1>4. RequestInv' /\ AnswerInv'
  BY DEF TalkInv, RequestInv, AnswerInv, Sought, Seeks, Asked
<1>5. FrameInv'
  <2> SUFFICES ASSUME worker # "ended", NEW i \in 1 .. Len(frames'), frames'[i] # Event
               PROVE  /\ requests' = <<>> /\ connection' # "answering"
                      /\ frames'[i].id = Seeks' /\ frames'[i].to = Asked'
                      /\ \A j \in 1 .. Len(frames') : j # i => frames'[j] = Event
    BY DEF FrameInv, Sought
  <2>1. frames[i + 1] # Event /\ i + 1 \in 1 .. Len(frames)
    BY <1>2, <1>3
  <2>2. /\ requests = <<>> /\ connection # "answering"
        /\ Sought(frames[i + 1].id, frames[i + 1].to)
        /\ \A j \in 1 .. Len(frames) : j # i + 1 => frames[j] = Event
    BY <2>1 DEF TalkInv, FrameInv
  <2>3. \A j \in 1 .. Len(frames') : j # i => frames'[j] = Event
    BY <1>2, <1>3, <2>2
  <2> QED BY <1>2, <2>2, <2>3 DEF Sought, Seeks, Asked
<1>6. AwaitedInv'
  <2> SUFFICES ASSUME NEW i \in 1 .. Len(frames), frames[i].to # "none"
               PROVE  \E k \in 1 .. Len(frames') : frames'[k].to # "none"
    BY DEF TalkInv, AwaitedInv
  <2>1. i # 1
    BY <1>1 DEF Event
  <2>2. i - 1 \in 1 .. Len(frames') /\ frames'[i - 1] = frames[i]
    BY <1>2, <2>1
  <2> QED BY <2>2
<1> QED BY <1>4, <1>5, <1>6 DEF TalkInv

LEMMA TalkGoesOn ==
  ASSUME TypeOK, TalkInv, GoOnPolling
  PROVE  TalkInv'
<1> USE DEF GoOnPolling, Answered, scannerVars
<1>1. /\ requests' = <<>> /\ connection' # "answering" /\ worker' = "polling"
      /\ \A j \in 1 .. Len(frames) : j # 1 => frames[j] = Event
  BY HeadFrame
<1>2. /\ Len(frames') = Len(frames) - 1 /\ Len(frames) \in Nat
      /\ \A i \in 1 .. Len(frames') : frames'[i] = frames[i + 1]
  BY TailOfFrames DEF TypeOK
<1>3. \A i \in 1 .. Len(frames') : frames'[i] = Event
  BY <1>1, <1>2
<1> QED BY <1>1, <1>3 DEF TalkInv, RequestInv, AnswerInv, FrameInv, AwaitedInv, Waiting

LEMMA TalkStep ==
  ASSUME TypeOK, TalkInv, [Next]_vars
  PROVE  TalkInv'
<1> USE DEF vars, workerVars, scannerVars, At, ScanKeepsAll, Waiting, Methods
<1>1. CASE Connect
  BY <1>1, TalkSends DEF Connect
<1>2. CASE ConnectFails
  BY <1>2, TalkEnded DEF ConnectFails, Return
<1>3. CASE PollCancelled
  BY <1>3, TalkSends DEF PollCancelled
<1>4. CASE PollTake
  BY <1>4, TalkSends DEF PollTake
<1>5. CASE HangupSeen
  BY <1>5, TalkEnded DEF HangupSeen, Return
<1>6. CASE SkipFrame
  BY <1>6, TalkSkips
<1>7. CASE GoOnPolling
  BY <1>7, TalkGoesOn
<1>8. CASE Finish
  BY <1>8, TalkEnded DEF Finish, Answered, Return
<1>9. CASE StartScan
  BY <1>9, TalkAnswers DEF StartScan
<1>10. CASE RefuseScan
  BY <1>10, TalkAnswers DEF RefuseScan
<1>11. CASE CancelScan
  BY <1>11, TalkAnswers DEF CancelScan
<1>12. CASE TakeResult
  BY <1>12, TalkAnswers DEF TakeResult
<1>13. CASE WriteAnswer
  BY <1>13, TalkWrites
<1>14. CASE EndConnection
  BY <1>14, TalkEnded DEF EndConnection, Gone
<1>15. CASE Report
  BY <1>15, TalkKept DEF Report
<1>16. CASE ReportEvent
  BY <1>16, TalkEmits DEF ReportEvent
<1>17. CASE ScanComplete
  BY <1>17, TalkKept DEF ScanComplete
<1>18. CASE ScanError
  BY <1>18, TalkKept DEF ScanError
<1>19. CASE ScanSeesCancel
  BY <1>19, TalkKept DEF ScanSeesCancel
<1>20. CASE DropResult
  BY <1>20, TalkKept DEF DropResult
<1>21. CASE PublishResult
  BY <1>21, TalkKept DEF PublishResult
<1>22. CASE CancelEvent
  BY <1>22, TalkEmits DEF CancelEvent
<1>23. CASE FinishEvent
  BY <1>23, TalkEmits, TalkKept DEF FinishEvent
<1>24. CASE FailJob
  BY <1>24, TalkKept DEF FailJob
<1>25. CASE FailEvent
  BY <1>25, TalkEmits DEF FailEvent
<1>26. CASE RaiseFlag
  BY <1>26, TalkKept DEF RaiseFlag
<1>27. CASE Crash
  BY <1>27 DEF Crash, TalkInv, RequestInv, AnswerInv, FrameInv, AwaitedInv, Sought, Seeks, Asked
<1>28. CASE UNCHANGED vars
  BY <1>28, TalkKept
<1> QED BY <1>1, <1>2, <1>3, <1>4, <1>5, <1>6, <1>7, <1>8, <1>9, <1>10, <1>11, <1>12, <1>13,
       <1>14, <1>15, <1>16, <1>17, <1>18, <1>19, <1>20, <1>21, <1>22, <1>23, <1>24, <1>25,
       <1>26, <1>27, <1>28
     DEF Next, Worker, Connection, Scan

-----------------------------------------------------------------------------
(* The job of the session.                                                 *)

\* The only request that the worker can have under way is the one it waits for.
LEMMA OneIncoming ==
  ASSUME TypeOK, TalkInv, NEW method \in Methods, Incoming(method), worker # "ended",
         NEW says, Answering(Head(requests), says)
  PROVE  requests' = <<>> /\ method = Asked /\ requests # <<>>
<1>1. /\ requests # <<>> /\ Len(requests) = 1 /\ Head(requests) = requests[1]
      /\ Tail(requests) = <<>>
  BY FirstRequest DEF TypeOK, Incoming, TalkInv, RequestInv
<1>2. requests' = Tail(requests)
  BY DEF Answering
<1> QED BY <1>1, <1>2 DEF Incoming, TalkInv, RequestInv, Sought

LEMMA JobStep ==
  ASSUME SessionInv, [Next]_vars
  PROVE  JobInv'
<1> USE DEF SessionInv, JobInv, ConnectionInv, StartInv, FinishedInv, CancelInv,
            vars, workerVars, scannerVars, At, ScanKeepsAll, Waiting
<1>1. CASE Connect
  BY <1>1 DEF Connect, Send
<1>2. CASE ConnectFails
  BY <1>2 DEF ConnectFails, Return
<1>3. CASE PollCancelled
  <2>1. requests' # <<>>
    BY <1>3, NothingUnderWay DEF PollCancelled, Send
  <2> QED BY <1>3, <2>1 DEF PollCancelled, Send
<1>4. CASE PollTake
  <2>1. requests' # <<>>
    BY <1>4, NothingUnderWay DEF PollTake, Send
  <2> QED BY <1>4, <2>1 DEF PollTake, Send
<1>5. CASE HangupSeen
  BY <1>5 DEF HangupSeen, Return, Hangup
<1>6. CASE SkipFrame
  BY <1>6 DEF SkipFrame, IsAnswer
<1>7. CASE GoOnPolling
  BY <1>7 DEF GoOnPolling, IsAnswer, Answered
<1>8. CASE Finish
  <2>1. requests = <<>> /\ worker' = "ended" /\ (result' = "cancelled" => worker = "cancelling")
    BY <1>8, HeadFrame DEF Finish, Answered, Return
  <2> QED BY <1>8, <2>1 DEF Finish, Answered, Return
<1>9. CASE StartScan
  <2>1. worker # "ended" => requests' = <<>> /\ Asked = "start_scan" /\ requests # <<>>
    BY <1>9, OneIncoming DEF StartScan, Methods
  <2>2. requests # <<>>
    BY <1>9 DEF StartScan, Incoming
  <2> QED BY <1>9, <2>1, <2>2 DEF StartScan, Answering, Asked, CancelJob, TypeOK
<1>10. CASE RefuseScan
  <2>1. worker # "ended" => requests' = <<>> /\ Asked = "start_scan" /\ requests # <<>>
    BY <1>10, OneIncoming DEF RefuseScan, Methods
  <2>2. requests # <<>>
    BY <1>10 DEF RefuseScan, Incoming
  <2> QED BY <1>10, <2>1, <2>2 DEF RefuseScan, Answering, Asked, CancelJob, TypeOK
<1>11. CASE CancelScan
  <2>1. worker # "ended" => requests' = <<>> /\ Asked = "cancel_scan" /\ requests # <<>>
    BY <1>11, OneIncoming DEF CancelScan, Methods
  <2>2. requests # <<>>
    BY <1>11 DEF CancelScan, Incoming
  <2> QED BY <1>11, <2>1, <2>2 DEF CancelScan, Answering, Asked, CancelJob, TypeOK
<1>12. CASE TakeResult
  <2>1. worker # "ended" => requests' = <<>> /\ Asked = "take_result" /\ requests # <<>>
    BY <1>12, OneIncoming DEF TakeResult, Methods
  <2>2. requests # <<>>
    BY <1>12 DEF TakeResult, Incoming
  <2> QED BY <1>12, <2>1, <2>2 DEF TakeResult, Answering, Asked, CancelJob, TypeOK
<1>13. CASE WriteAnswer
  BY <1>13 DEF WriteAnswer, Gone
<1>14. CASE EndConnection
  BY <1>14 DEF EndConnection, Gone
<1>15. CASE Report
  BY <1>15 DEF Report
<1>16. CASE ReportEvent
  BY <1>16 DEF ReportEvent
<1>17. CASE ScanComplete
  BY <1>17 DEF ScanComplete
<1>18. CASE ScanError
  BY <1>18 DEF ScanError
<1>19. CASE ScanSeesCancel
  BY <1>19 DEF ScanSeesCancel
<1>20. CASE DropResult
  BY <1>20 DEF DropResult
<1>21. CASE PublishResult
  BY <1>21 DEF PublishResult, Store
<1>22. CASE CancelEvent
  BY <1>22 DEF CancelEvent
<1>23. CASE FinishEvent
  BY <1>23 DEF FinishEvent, Gone
<1>24. CASE FailJob
  <2>1. job'.state \in {"Failed", "Cancelled"} /\ job'.cancelled = job.cancelled
    BY <1>24 DEF FailJob, TypeOK
  <2>2. worker # "connecting" /\ ~(worker = "starting" /\ requests # <<>>)
    BY <1>24 DEF FailJob
  <2> QED BY <1>24, <2>1, <2>2 DEF FailJob
<1>25. CASE FailEvent
  BY <1>25 DEF FailEvent
<1>26. CASE RaiseFlag
  BY <1>26 DEF RaiseFlag
<1>27. CASE Crash
  BY <1>27 DEF Crash, NoJob
<1>28. CASE UNCHANGED vars
  BY <1>28
<1> QED BY <1>1, <1>2, <1>3, <1>4, <1>5, <1>6, <1>7, <1>8, <1>9, <1>10, <1>11, <1>12, <1>13,
       <1>14, <1>15, <1>16, <1>17, <1>18, <1>19, <1>20, <1>21, <1>22, <1>23, <1>24, <1>25,
       <1>26, <1>27, <1>28
     DEF Next, Worker, Connection, Scan

-----------------------------------------------------------------------------
(* The theorems.                                                           *)

LEMMA SessionInvInit == Init => SessionInv
<1> SUFFICES ASSUME Init PROVE SessionInv
  OBVIOUS
<1>1. TypeOK
  BY TypeInit
<1>2. TalkInv
  BY DEF Init, TalkInv, RequestInv, AnswerInv, FrameInv, AwaitedInv, Waiting
<1>3. JobInv
  BY DEF Init, JobInv, ConnectionInv, StartInv, FinishedInv, CancelInv, NoJob
<1> QED BY <1>1, <1>2, <1>3 DEF SessionInv

LEMMA SessionInvStep == SessionInv /\ [Next]_vars => SessionInv'
BY TypeStep, TalkStep, JobStep DEF SessionInv

\* The variables of a session keep their types: the counter of the requests stays
\* in its range and the socket never holds more than its buffer.
THEOREM SessionTypes == Spec => []TypeOK
<1>1. SessionInv => TypeOK
  BY DEF SessionInv
<1> QED BY <1>1, SessionInvInit, SessionInvStep, PTL DEF Spec

\* What is on its way answers the request that the worker (scan_with_scannerd)
\* waits for, and while the scanner daemon lives there is such a thing.
THEOREM AnswerHolds == Spec => []AnswerMatchesRequest
<1>1. SessionInv => AnswerMatchesRequest
  <2> SUFFICES ASSUME SessionInv, worker # "ended"
               PROVE  /\ UnderWay \subseteq CASE worker = "starting"   -> {"start_scan"}
                                              [] worker = "taking"     -> {"take_result"}
                                              [] worker = "cancelling" -> {"cancel_scan"}
                                              [] OTHER -> {}
                      /\ worker \in Waiting /\ alive => UnderWay # {}
    BY DEF AnswerMatchesRequest
  <2> USE DEF SessionInv, TalkInv
  <2>1. worker \in Waiting \/ worker \in {"connecting", "polling"}
    BY DEF TypeOK, WorkerPlaces
  <2>2. \A i \in 1 .. Len(requests) : requests[i].method = Asked
    <3> SUFFICES ASSUME NEW i \in 1 .. Len(requests) PROVE requests[i].method = Asked
      OBVIOUS
    <3>1. requests \in Seq(Request)
      BY DEF TypeOK
    <3>2. requests # <<>>
      BY <3>1
    <3>3. Len(requests) = 1 /\ requests[1].method = Asked
      BY <3>2 DEF RequestInv, Sought
    <3>4. i = 1
      BY <3>3
    <3> QED BY <3>3, <3>4
  <2>3. \A i \in 1 .. Len(frames) : frames[i].to # "none" => frames[i].to = Asked
    BY DEF FrameInv, Sought, Event
  <2>4. connection = "answering" => answer.to = Asked
    BY DEF AnswerInv, Sought
  <2>5. UnderWay \subseteq {Asked}
    BY <2>2, <2>3, <2>4 DEF UnderWay
  <2>6. CASE worker \in Waiting
    <3>1. alive => UnderWay # {}
      <4>1. requests # <<>> => 1 \in 1 .. Len(requests)
        BY DEF RequestInv
      <4> QED BY <2>6, <4>1 DEF AwaitedInv, UnderWay
    <3> QED BY <2>5, <2>6, <3>1 DEF Asked, Waiting
  <2>7. CASE worker \in {"connecting", "polling"}
    <3>1. UnderWay = {}
      BY <2>7, NothingUnderWay DEF UnderWay, Event
    <3> QED BY <2>7, <3>1 DEF Waiting
  <2> QED BY <2>1, <2>6, <2>7
<1> QED BY <1>1, SessionInvInit, SessionInvStep, PTL DEF Spec

\* scan_with_scannerd returns "cancelled" only after the scanner daemon has raised
\* the flag of the scan, or is gone.
THEOREM CancelHolds == Spec => []CancelReached
<1>1. SessionInv => CancelReached
  BY DEF SessionInv, JobInv, CancelInv, CancelReached
<1> QED BY <1>1, SessionInvInit, SessionInvStep, PTL DEF Spec

\* finish_job_success keeps the result until the worker takes it or is gone.
THEOREM ResultHolds == Spec => ResultKept
<1>1. ASSUME SessionInv, [Next]_vars, job.state = "Finished", job'.state # "Finished"
      PROVE  worker = "ended" \/ ~alive'
  <2> USE DEF vars, workerVars, scannerVars, At, ScanKeepsAll
  <2>1. CASE Connect
    BY <1>1, <2>1 DEF Connect, Send
  <2>2. CASE ConnectFails
    BY <1>1, <2>2 DEF ConnectFails, Return
  <2>3. CASE PollCancelled
    BY <1>1, <2>3 DEF PollCancelled, Send
  <2>4. CASE PollTake
    BY <1>1, <2>4 DEF PollTake, Send, NextId
  <2>5. CASE HangupSeen
    BY <1>1, <2>5 DEF HangupSeen, Return
  <2>6. CASE SkipFrame
    BY <1>1, <2>6 DEF SkipFrame, IsAnswer
  <2>7. CASE GoOnPolling
    BY <1>1, <2>7 DEF GoOnPolling, IsAnswer, Answered
  <2>8. CASE Finish
    BY <1>1, <2>8 DEF Finish, Return, IsAnswer, Answered
  <2>9. CASE StartScan
    <3>1. worker # "ended" => requests # <<>> /\ Asked = "start_scan"
      BY <1>1, <2>9, OneIncoming DEF StartScan, SessionInv, Methods
    <3>2. worker # "ended" => worker = "starting" /\ requests # <<>>
      BY <3>1 DEF Asked
    <3> QED BY <1>1, <3>2 DEF SessionInv, JobInv, StartInv
  <2>10. CASE RefuseScan
    BY <1>1, <2>10 DEF RefuseScan, Incoming, Answering
  <2>11. CASE CancelScan
    BY <1>1, <2>11 DEF CancelScan, CancelJob, SessionInv, TypeOK
  <2>12. CASE TakeResult
    BY <1>1, <2>12 DEF TakeResult, SessionInv, TypeOK
  <2>13. CASE WriteAnswer
    BY <1>1, <2>13 DEF WriteAnswer
  <2>14. CASE EndConnection
    BY <1>1, <2>14 DEF EndConnection
  <2>15. CASE Report
    BY <1>1, <2>15 DEF Report
  <2>16. CASE ReportEvent
    BY <1>1, <2>16 DEF ReportEvent
  <2>17. CASE ScanComplete
    BY <1>1, <2>17 DEF ScanComplete
  <2>18. CASE ScanError
    BY <1>1, <2>18 DEF ScanError
  <2>19. CASE ScanSeesCancel
    BY <1>1, <2>19 DEF ScanSeesCancel
  <2>20. CASE DropResult
    BY <1>1, <2>20 DEF DropResult
  <2>21. CASE PublishResult
    BY <1>1, <2>21 DEF PublishResult, Store, SessionInv, TypeOK
  <2>22. CASE CancelEvent
    BY <1>1, <2>22 DEF CancelEvent
  <2>23. CASE FinishEvent
    BY <1>1, <2>23 DEF FinishEvent, EmitEvent
  <2>24. CASE FailJob
    BY <1>1, <2>24 DEF FailJob, SessionInv, JobInv, FinishedInv
  <2>25. CASE FailEvent
    BY <1>1, <2>25 DEF FailEvent
  <2>26. CASE RaiseFlag
    BY <1>1, <2>26 DEF RaiseFlag
  <2>27. CASE Crash
    BY <1>1, <2>27 DEF Crash
  <2>28. CASE UNCHANGED vars
    BY <1>1, <2>28
  <2> QED BY <1>1, <2>1, <2>2, <2>3, <2>4, <2>5, <2>6, <2>7, <2>8, <2>9, <2>10, <2>11,
         <2>12, <2>13, <2>14, <2>15, <2>16, <2>17, <2>18, <2>19, <2>20, <2>21, <2>22, <2>23,
         <2>24, <2>25, <2>26, <2>27, <2>28
       DEF Next, Worker, Connection, Scan
<1>2. SessionInv /\ [Next]_vars
        => [job.state = "Finished" /\ job'.state # "Finished" => worker = "ended" \/ ~alive']_vars
  BY <1>1
<1> QED BY <1>2, SessionInvInit, SessionInvStep, PTL DEF Spec, ResultKept

\* finish_job_success never publishes a scan that was cancelled.
THEOREM CancelledHolds == Spec => CancelledStays
<1>1. ASSUME SessionInv, [Next]_vars, job.state = "Cancelled"
      PROVE  job'.state # "Finished"
  <2> USE DEF vars, workerVars, scannerVars, At, ScanKeepsAll
  <2>1. CASE Connect
    BY <1>1, <2>1 DEF Connect, Send
  <2>2. CASE ConnectFails
    BY <1>1, <2>2 DEF ConnectFails, Return
  <2>3. CASE PollCancelled
    BY <1>1, <2>3 DEF PollCancelled, Send
  <2>4. CASE PollTake
    BY <1>1, <2>4 DEF PollTake, Send, NextId
  <2>5. CASE HangupSeen
    BY <1>1, <2>5 DEF HangupSeen, Return
  <2>6. CASE SkipFrame
    BY <1>1, <2>6 DEF SkipFrame, IsAnswer
  <2>7. CASE GoOnPolling
    BY <1>1, <2>7 DEF GoOnPolling, IsAnswer, Answered
  <2>8. CASE Finish
    BY <1>1, <2>8 DEF Finish, Return, IsAnswer, Answered
  <2>9. CASE StartScan
    BY <1>1, <2>9 DEF StartScan, NoJob
  <2>10. CASE RefuseScan
    BY <1>1, <2>10 DEF RefuseScan, Incoming, Answering
  <2>11. CASE CancelScan
    BY <1>1, <2>11 DEF CancelScan, CancelJob, SessionInv, TypeOK
  <2>12. CASE TakeResult
    BY <1>1, <2>12 DEF TakeResult, SessionInv, TypeOK
  <2>13. CASE WriteAnswer
    BY <1>1, <2>13 DEF WriteAnswer
  <2>14. CASE EndConnection
    BY <1>1, <2>14 DEF EndConnection
  <2>15. CASE Report
    BY <1>1, <2>15 DEF Report
  <2>16. CASE ReportEvent
    BY <1>1, <2>16 DEF ReportEvent
  <2>17. CASE ScanComplete
    BY <1>1, <2>17 DEF ScanComplete
  <2>18. CASE ScanError
    BY <1>1, <2>18 DEF ScanError
  <2>19. CASE ScanSeesCancel
    BY <1>1, <2>19 DEF ScanSeesCancel
  <2>20. CASE DropResult
    BY <1>1, <2>20 DEF DropResult
  <2>21. CASE PublishResult
    BY <1>1, <2>21 DEF PublishResult, Store
  <2>22. CASE CancelEvent
    BY <1>1, <2>22 DEF CancelEvent
  <2>23. CASE FinishEvent
    BY <1>1, <2>23 DEF FinishEvent, EmitEvent
  <2>24. CASE FailJob
    BY <1>1, <2>24 DEF FailJob, SessionInv, TypeOK
  <2>25. CASE FailEvent
    BY <1>1, <2>25 DEF FailEvent
  <2>26. CASE RaiseFlag
    BY <1>1, <2>26 DEF RaiseFlag
  <2>27. CASE Crash
    BY <1>1, <2>27 DEF Crash, NoJob
  <2>28. CASE UNCHANGED vars
    BY <1>1, <2>28
  <2> QED BY <1>1, <2>1, <2>2, <2>3, <2>4, <2>5, <2>6, <2>7, <2>8, <2>9, <2>10, <2>11,
         <2>12, <2>13, <2>14, <2>15, <2>16, <2>17, <2>18, <2>19, <2>20, <2>21, <2>22, <2>23,
         <2>24, <2>25, <2>26, <2>27, <2>28
       DEF Next, Worker, Connection, Scan
<1>2. SessionInv /\ [Next]_vars => [job.state = "Cancelled" => job'.state # "Finished"]_vars
  BY <1>1
<1> QED BY <1>2, SessionInvInit, SessionInvStep, PTL DEF Spec, CancelledStays

=============================================================================
