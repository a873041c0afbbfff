---------------------------- MODULE CaptureWindow ----------------------------
(***************************************************************************)
(* The window of cli/gui.cpp (MainWindow) and its worker thread.           *)
(*                                                                         *)
(* The thread of the window handles one message after the other; the       *)
(* worker runs one capture or one inspection and talks to the window only  *)
(* through posted messages, each of which carries a payload on the heap,   *)
(* and through one atomic flag.  Posting fails when the window has gone or *)
(* its queue is full.  A message box runs a message loop of its own, with  *)
(* the window disabled: no button can be clicked, but a WM_CLOSE still     *)
(* gets through.                                                           *)
(*                                                                         *)
(* Operations are numbered.  What a worker does is reduced to what can be  *)
(* seen from here: it fails to start, or a capture looks at the flag       *)
(* before each read, reads, reports progress, finishes and publishes, and  *)
(* ends with a result.  Painting, fonts, layout and the wording of         *)
(* messages are left out.                                                  *)
(***************************************************************************)
EXTENDS Naturals, Sequences

CONSTANTS
  MaxOperations, \* bound: operations started
  QueueLimit,    \* posted messages a window's queue can hold
  Path,          \* destinations
  Nothing        \* no result on display

ASSUME WindowAssumption ==
  /\ MaxOperations \in Nat /\ QueueLimit \in Nat \ {0}
  /\ Path # {}

Operation == {"capture", "dryrun"}
Ending == {"finalized", "cancelled", "failed", "inspected"}
Result == [operation : Operation, ending : Ending, op : 1..MaxOperations]

(* What the message box tells. *)
Shown == [result : Result, path : Path]

ASSUME NothingAssumption == Nothing \notin Shown

VARIABLES
  window,      \* "open" or "destroyed"
  working,     \* working_: the buttons and the destination are disabled
  closing,     \* closing_
  cancelled,   \* cancelled_, the flag shared with the worker
  destination, \* the text of the edit control
  queue,       \* posted messages: [kind, result]
  box,         \* [result, path] of the message box on display, or Nothing
  stage,       \* where the worker thread is; "none" when it has been joined
  operation,   \* what it does
  output,      \* outputPath, the copy it was given
  ending,      \* what it puts into its result
  heap,        \* payloads allocated and not yet deleted
  op,          \* operations started
  asked,       \* history: cancelled since this one started: "before" a look
               \* at the flag, "late" as long as none has followed, or "no"
  lost         \* history: posting a result has failed

gui == <<window, working, closing, destination, box, op>>
worker == <<stage, operation, output, ending>>
vars == <<gui, worker, cancelled, queue, heap, asked, lost>>

Init ==
  /\ window = "open" /\ working = FALSE /\ closing = FALSE /\ cancelled = FALSE
  /\ destination \in Path /\ queue = <<>> /\ box = Nothing
  /\ stage = "none" /\ operation = "capture" /\ output = destination
  /\ ending = "failed" /\ heap = 0 /\ op = 0
  /\ asked = "no" /\ lost = FALSE

TheResult == [operation |-> operation, ending |-> ending, op |-> op]

(* The user can reach the controls. *)
Enabled == window = "open" /\ box = Nothing

---------------------------------------------------------------------------
(* The thread of the window.                                               *)

(* BrowseForDestination, or typing: not while an operation runs. *)
ChooseWhileWorking ==
  /\ Enabled
  /\ destination' \in Path
  /\ UNCHANGED <<window, working, closing, box, op, worker, cancelled, queue,
                 heap, asked, lost>>

Choose ==
  /\ Enabled /\ ~working
  /\ destination' \in Path
  /\ UNCHANGED <<window, working, closing, box, op, worker, cancelled, queue,
                 heap, asked, lost>>

Launched(o) ==
  /\ op < MaxOperations /\ op' = op + 1
  /\ stage \in {"none", "posted"} \* a thread that is still there is joined
  /\ working' = TRUE
  /\ stage' = "starting" /\ operation' = o /\ output' = destination
  /\ ending' = "failed" /\ heap' = heap + 1 /\ asked' = "no"
  /\ UNCHANGED <<window, closing, destination, box, queue, lost>>

StartsOverARunningOne(o) == Enabled /\ Launched(o) /\ cancelled' = FALSE

KeepsTheOldFlag(o) == Enabled /\ ~working /\ Launched(o) /\ UNCHANGED cancelled

(* StartWorker.  The worker allocates its result first. *)
StartWorker(o) == Enabled /\ ~working /\ Launched(o) /\ cancelled' = FALSE

(* Where the worker of a capture looks at the flag once more before it     *)
(* finishes, unless it fails, and where it may or may not do so.           *)
LooksAgain == {"starting", "looking"}
MayLookAgain == {"reading", "reporting", "finishing"}

(* The history of a flag that is raised now. *)
AskedNow ==
  CASE asked # "no"          -> asked
    [] stage \in LooksAgain   -> "before"
    [] stage \in MayLookAgain -> "late"
    [] OTHER                 -> asked

(* The Cancel button; it is disabled once it has been clicked. *)
ClickCancel ==
  /\ Enabled /\ working /\ ~closing /\ ~cancelled
  /\ cancelled' = TRUE /\ asked' = AskedNow
  /\ UNCHANGED <<gui, worker, queue, heap, lost>>

(* DestroyWindow: the messages still posted to the window are discarded,   *)
(* not their payloads.                                                     *)
Destroy == window' = "destroyed" /\ queue' = <<>>

DestroysWhileWorking ==
  /\ window = "open"
  /\ Destroy
  /\ UNCHANGED <<worker, working, closing, destination, box, op, cancelled,
                 heap, asked, lost>>

(* WM_CLOSE *)
Close ==
  /\ window = "open"
  /\ IF working
     THEN /\ closing' = TRUE /\ cancelled' = TRUE /\ asked' = AskedNow
          /\ UNCHANGED <<window, queue>>
     ELSE Destroy /\ UNCHANGED <<closing, cancelled, asked>>
  /\ UNCHANGED <<worker, working, destination, box, op, heap, lost>>

Received(kind) ==
  /\ window = "open" /\ queue # <<>> /\ Head(queue).kind = kind

DeletesTwice ==
  /\ Received("progress")
  /\ queue' = Tail(queue) /\ heap' = heap - 2
  /\ UNCHANGED <<gui, worker, cancelled, asked, lost>>

(* kMessageProgress *)
HandleProgress ==
  /\ Received("progress")
  /\ queue' = Tail(queue) /\ heap' = heap - 1
  /\ UNCHANGED <<gui, worker, cancelled, asked, lost>>

(* HandleWorkerDone joins the thread, and shows the result unless the      *)
(* window is to be closed.                                                 *)
ForgetsClosing ==
  /\ Received("done") /\ stage = "posted"
  /\ stage' = "none" /\ working' = FALSE /\ queue' = Tail(queue)
  /\ box' = [result |-> Head(queue).result, path |-> destination]
  /\ UNCHANGED <<window, closing, destination, op, operation, output, ending,
                 cancelled, heap, asked, lost>>

HandleWorkerDone ==
  /\ Received("done") /\ stage = "posted"
  /\ stage' = "none" /\ working' = FALSE
  /\ IF closing
     THEN Destroy /\ heap' = heap - 1 /\ UNCHANGED box
     ELSE /\ queue' = Tail(queue)
          /\ box' = [result |-> Head(queue).result, path |-> destination]
          /\ UNCHANGED <<window, heap>>
  /\ UNCHANGED <<closing, destination, op, operation, output, ending,
                 cancelled, asked, lost>>

(* The box is closed by the user, or by the quit message of a window that  *)
(* has been destroyed under it.                                            *)
Dismiss ==
  /\ box # Nothing
  /\ box' = Nothing /\ heap' = heap - 1
  /\ UNCHANGED <<window, working, closing, destination, op, worker, cancelled,
                 queue, asked, lost>>

---------------------------------------------------------------------------
(* The thread of the worker.                                               *)

(* PostMessageW: what cannot be posted is deleted by the poster. *)
CanPost == window = "open" /\ Len(queue) < QueueLimit

(* PostProgress: a payload is allocated for the message. *)
PostProgress ==
  IF CanPost
  THEN /\ queue' = Append(queue, [kind |-> "progress", result |-> TheResult])
       /\ heap' = heap + 1
  ELSE UNCHANGED <<queue, heap>>

(* Elevation, version, DriverRuntime::Start and DeviceSession::Open; for a *)
(* capture also what CaptureEvidenceToFile does before Acquire.  A failure *)
(* here is a failure, whatever the flag says.                              *)
Begin ==
  /\ stage = "starting"
  /\ stage' \in {IF operation = "capture" THEN "looking" ELSE "inspecting",
                 "posting"}
  /\ UNCHANGED <<gui, operation, output, ending, cancelled, queue, heap, asked,
                 lost>>

(* Acquire returns false: the flag is looked at once more, to tell a       *)
(* cancellation from a failure.                                            *)
AcquireFails ==
  /\ stage' = "posting" /\ ending' = IF cancelled THEN "cancelled" ELSE "failed"
  /\ UNCHANGED <<gui, operation, output, cancelled, queue, heap, asked, lost>>

(* The history of a flag raised earlier: there is another look to come.    *)
AnotherLook ==
  asked' = IF stage' = "looking" /\ asked # "no" THEN "before" ELSE asked

GoOn(next) ==
  /\ stage' \in next /\ AnotherLook
  /\ UNCHANGED <<gui, operation, output, ending, cancelled, queue, heap, lost>>

(* Before each read, and only there, Acquire asks whether to go on. *)
LookAtFlag ==
  /\ stage = "looking"
  /\ \/ ~cancelled /\ GoOn({"reading"})
     \/ cancelled /\ AcquireFails

(* The read, with its write, hash and PaceTransfer, which may give up when *)
(* the flag is set.  What was read page by page is reported when the whole *)
(* window has been read.                                                   *)
Transfer ==
  /\ stage = "reading"
  /\ GoOn({"looking", "reporting"}) \/ AcquireFails

(* Progress is reported, or not, and the loop is left or goes on. *)
ReportProgress ==
  /\ stage = "reporting"
  /\ stage' \in {"looking", "finishing"} /\ AnotherLook
  /\ \/ UNCHANGED <<queue, heap>>
     \/ PostProgress
  /\ UNCHANGED <<gui, operation, output, ending, cancelled, lost>>

(* The zeros behind the last run, and End. *)
Finish ==
  /\ stage = "finishing"
  /\ GoOn({"publishing"}) \/ AcquireFails

(* Everything after Acquire has returned: the flag is not looked at. *)
Publish ==
  /\ stage = "publishing"
  /\ stage' = "posting" /\ ending' \in {"finalized", "failed"}
  /\ UNCHANGED <<gui, operation, output, cancelled, queue, heap, asked, lost>>

(* Query, QueryHints and End of an inspection, which cannot be cancelled. *)
Inspect ==
  /\ stage = "inspecting"
  /\ stage' = "posting" /\ ending' \in {"inspected", "failed"}
  /\ UNCHANGED <<gui, operation, output, cancelled, queue, heap, asked, lost>>

(* The device is closed, the driver stopped, the result posted. *)
PostDone ==
  /\ stage = "posting" /\ stage' = "posted"
  /\ IF CanPost
     THEN /\ queue' = Append(queue, [kind |-> "done", result |-> TheResult])
          /\ UNCHANGED <<heap, lost>>
     ELSE heap' = heap - 1 /\ lost' = TRUE /\ UNCHANGED queue
  /\ UNCHANGED <<gui, operation, output, ending, cancelled, asked>>

Handle == HandleProgress \/ HandleWorkerDone
Work ==
  \/ Begin \/ LookAtFlag \/ Transfer \/ ReportProgress \/ Finish \/ Publish
  \/ Inspect \/ PostDone

Next ==
  \/ Choose \/ ClickCancel \/ Close \/ Dismiss
  \/ \E o \in Operation : StartWorker(o)
  \/ Handle \/ Work

(* Both threads go on; the user may do nothing. *)
Spec == Init /\ [][Next]_vars /\ WF_vars(Handle) /\ WF_vars(Work)

---------------------------------------------------------------------------
(* Properties                                                              *)

TypeOK ==
  /\ window \in {"open", "destroyed"}
  /\ working \in BOOLEAN /\ closing \in BOOLEAN /\ cancelled \in BOOLEAN
  /\ asked \in {"no", "before", "late"} /\ lost \in BOOLEAN
  /\ destination \in Path /\ output \in Path
  /\ queue \in Seq([kind : {"progress", "done"}, result : Result])
  /\ Len(queue) <= QueueLimit
  /\ box \in Shown \cup {Nothing}
  /\ stage \in {"none", "starting", "looking", "reading", "reporting",
                "finishing", "publishing", "inspecting", "posting", "posted"}
  /\ operation \in Operation /\ ending \in Ending
  /\ op \in 0..MaxOperations /\ heap \in Nat

(* Every payload has one owner: a message in the queue, the box, or the    *)
(* worker that has not posted its result yet.  So nothing is deleted twice *)
(* and, although destroying a window discards messages without a look at   *)
(* what they carry, nothing is left on the heap when it has gone.          *)
EveryPayloadOwned ==
  heap = Len(queue) + (IF box # Nothing THEN 1 ELSE 0)
           + (IF stage \in {"none", "posted"} THEN 0 ELSE 1)

(* What is in the queue belongs to the operation that is being worked on,  *)
(* and its result comes last: no progress of an operation is shown after   *)
(* its result, or during the next one.                                     *)
MessagesAreCurrent ==
  \A i \in 1..Len(queue) :
    /\ working /\ queue[i].result.op = op
    /\ queue[i].kind = "done" => i = Len(queue) /\ stage = "posted"

(* The box tells the truth about the flag: a capture is reported cancelled *)
(* only if it was itself cancelled, by a click or a close, while Acquire   *)
(* could still fail, and not because an earlier one was; and a capture     *)
(* that was cancelled while a look at the flag was still to come, be it    *)
(* that the driver was just being started, is not reported finalized.  One *)
(* cancelled during its last read, the last report, the last zeros or End  *)
(* may be.                                                                 *)
CancelMeansThisCapture ==
  box # Nothing =>
    /\ box.result.op = op
    /\ box.result.ending = "cancelled" => asked # "no"
    /\ asked = "before" => box.result.ending # "finalized"

(* The files the box names, which are read back from the edit control, are *)
(* those the capture was told to write.                                    *)
NamesWhatWasWritten ==
  box # Nothing /\ box.result.ending = "finalized" => box.path = output

(* A window asked to close while it works does close, unless the result of *)
(* the worker could not be posted.                                         *)
ClosesWhenAsked == closing ~> window = "destroyed" \/ lost
=============================================================================
