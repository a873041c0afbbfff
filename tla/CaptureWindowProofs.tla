------------------------ MODULE CaptureWindowProofs ------------------------
(***************************************************************************)
(* The payloads and messages of CaptureWindow, for any limit of the queue  *)
(* and any number of operations, destinations and progress messages.       *)
(***************************************************************************)
EXTENDS CaptureWindow, SequenceTheorems, TLAPS

(* The window works as long as a worker has not been joined, and not while *)
(* it shows a result.                                                      *)
Joined ==
  /\ stage # "none" => working /\ op \in 1..MaxOperations
  /\ box # Nothing => ~working

Tidy == TypeOK /\ EveryPayloadOwned /\ MessagesAreCurrent /\ Joined

Message == [kind : {"progress", "done"}, result : Result]

LEMMA QueueFacts ==
  ASSUME Tidy
  PROVE  /\ queue \in Seq(Message) /\ Len(queue) \in Nat
         /\ ~working => queue = <<>>
         /\ queue # <<>> => Len(queue) \in Nat \ {0} /\ Head(queue) = queue[1]
<1>1. queue \in Seq(Message) /\ Len(queue) \in Nat
  BY LenProperties DEF Tidy, TypeOK, Message
<1>2. ASSUME queue # <<>> PROVE Len(queue) \in Nat \ {0} /\ working
  <2>1. Len(queue) # 0
    BY <1>1, <1>2, EmptySeq
  <2>2. 1 \in 1..Len(queue)
    BY <1>1, <2>1
  <2> QED BY <1>1, <2>1, <2>2 DEF Tidy, MessagesAreCurrent
<1>3. queue # <<>> => Head(queue) = queue[1]
  BY <1>1, HeadTailProperties
<1> QED BY <1>1, <1>2, <1>3

LEMMA InitTidy == Init => Tidy
<1> SUFFICES ASSUME Init PROVE Tidy
  OBVIOUS
<1>1. queue = <<>> /\ Len(queue) = 0
  BY EmptySeq DEF Init
<1>2. TypeOK
  <2>1. queue \in Seq(Message) /\ Len(queue) <= QueueLimit
    BY <1>1, EmptySeq, WindowAssumption
  <2>2. /\ working \in BOOLEAN /\ closing \in BOOLEAN /\ cancelled \in BOOLEAN
        /\ asked \in {"no", "before", "late"} /\ lost \in BOOLEAN
    BY DEF Init
  <2>3. op \in 0..MaxOperations /\ heap \in Nat
    BY WindowAssumption DEF Init
  <2> QED BY <2>1, <2>2, <2>3 DEF Init, TypeOK, Operation, Ending, Message
<1>3. EveryPayloadOwned
  BY <1>1 DEF Init, EveryPayloadOwned
<1>4. MessagesAreCurrent
  BY <1>1 DEF MessagesAreCurrent
<1>5. Joined
  BY DEF Init, Joined
<1> QED BY <1>2, <1>3, <1>4, <1>5 DEF Tidy

(* A step that leaves the queue, the heap and their owners alone. *)
LEMMA QuietTidy ==
  ASSUME Tidy, TypeOK', UNCHANGED <<queue, heap, box, working, op>>,
         stage # "posted", stage' \notin {"none", "posted"},
         stage # "none"
  PROVE  Tidy'
BY DEF Tidy, EveryPayloadOwned, MessagesAreCurrent, Joined

(* The history of the flag keeps its type.                                 *)
LEMMA AskedNowTyped ==
  TypeOK => AskedNow \in {"no", "before", "late"}
BY DEF TypeOK, AskedNow

LEMMA UserTidy ==
  ASSUME Tidy, Choose \/ ClickCancel
  PROVE  Tidy'
<1>1. TypeOK'
  <2>1. CASE Choose
    BY <2>1 DEF Tidy, TypeOK, Choose, worker
  <2>2. CASE ClickCancel
    <3>1. /\ asked' \in {"no", "before", "late"}
          /\ cancelled' \in BOOLEAN
      BY <2>2, AskedNowTyped DEF Tidy, ClickCancel
    <3> QED BY <2>2, <3>1 DEF Tidy, TypeOK, ClickCancel, gui, worker
  <2> QED BY <2>1, <2>2
<1>2. UNCHANGED <<queue, heap, box, working, op, stage>>
  BY DEF Choose, ClickCancel, gui, worker
<1> QED BY <1>1, <1>2
    DEF Tidy, EveryPayloadOwned, MessagesAreCurrent, Joined

LEMMA StartTidy ==
  ASSUME Tidy, NEW o \in Operation, StartWorker(o)
  PROVE  Tidy'
<1>1. queue = <<>> /\ queue' = queue /\ Len(queue) = 0 /\ box = Nothing
      /\ box' = box
  BY QueueFacts, EmptySeq DEF StartWorker, Launched, Enabled
<1>2. heap = 0 /\ heap' = 1 /\ stage' = "starting" /\ working' /\ op' = op + 1
      /\ op \in Nat /\ op < MaxOperations
  BY <1>1 DEF Tidy, TypeOK, EveryPayloadOwned, StartWorker, Launched
<1>3. TypeOK'
  <2>1. /\ queue' \in Seq(Message) /\ Len(queue') <= QueueLimit
        /\ op' \in 0..MaxOperations /\ heap' \in Nat
    BY <1>1, <1>2, QueueFacts, WindowAssumption DEF StartWorker, Launched
  <2>2. /\ cancelled' \in BOOLEAN /\ working' \in BOOLEAN
        /\ asked' \in {"no", "before", "late"}
    BY DEF StartWorker, Launched
  <2> QED BY <1>1, <1>2, <2>1, <2>2
          DEF Tidy, TypeOK, StartWorker, Launched, Ending, Message
<1>4. EveryPayloadOwned'
  BY <1>1, <1>2 DEF EveryPayloadOwned
<1>5. MessagesAreCurrent'
  BY <1>1 DEF MessagesAreCurrent
<1>6. Joined'
  BY <1>1, <1>2, WindowAssumption DEF Joined
<1> QED BY <1>3, <1>4, <1>5, <1>6 DEF Tidy

LEMMA CloseTidy == ASSUME Tidy, Close PROVE Tidy'
<1>1. queue' = queue
  BY QueueFacts DEF Close, Destroy
<1>2. UNCHANGED <<heap, box, working, op, stage>>
  BY DEF Close, worker
<1>3. TypeOK'
  <2>1. asked' \in {"no", "before", "late"}
    BY AskedNowTyped DEF Tidy, TypeOK, Close
  <2> QED BY <1>1, <1>2, <2>1 DEF Tidy, TypeOK, Close, Destroy, worker
<1> QED BY <1>1, <1>2, <1>3
    DEF Tidy, EveryPayloadOwned, MessagesAreCurrent, Joined

LEMMA DismissTidy == ASSUME Tidy, Dismiss PROVE Tidy'
<1>1. /\ heap = Len(queue) + 1
                + (IF stage \in {"none", "posted"} THEN 0 ELSE 1)
      /\ heap' = heap - 1 /\ box' = Nothing /\ Len(queue) \in Nat
      /\ UNCHANGED <<queue, working, op, stage>>
  BY QueueFacts DEF Tidy, EveryPayloadOwned, Dismiss, worker
<1>2. TypeOK'
  BY <1>1 DEF Tidy, TypeOK, Dismiss, worker
<1>3. EveryPayloadOwned'
  BY <1>1 DEF EveryPayloadOwned
<1> QED BY <1>1, <1>2, <1>3 DEF Tidy, MessagesAreCurrent, Joined

(* Taking the first message off the queue. *)
LEMMA TailFacts ==
  ASSUME Tidy, queue # <<>>
  PROVE  /\ Tail(queue) \in Seq(Message)
         /\ Len(Tail(queue)) = Len(queue) - 1
         /\ \A i \in 1..Len(Tail(queue)) :
              i + 1 \in 1..Len(queue) /\ Tail(queue)[i] = queue[i + 1]
BY QueueFacts, HeadTailProperties

LEMMA ProgressTidy == ASSUME Tidy, HandleProgress PROVE Tidy'
<1>1. /\ queue # <<>> /\ queue' = Tail(queue) /\ heap' = heap - 1
      /\ UNCHANGED <<window, working, closing, destination, box, op, stage,
                     operation, output, ending, cancelled, asked, lost>>
  BY DEF HandleProgress, Received, gui, worker
<1>2. Len(queue) \in Nat \ {0} /\ Len(queue') = Len(queue) - 1
  BY <1>1, QueueFacts, TailFacts
<1>3. EveryPayloadOwned' /\ heap' \in Nat
  <2>1. heap = Len(queue) + (IF box # Nothing THEN 1 ELSE 0)
                 + (IF stage \in {"none", "posted"} THEN 0 ELSE 1)
    BY DEF Tidy, EveryPayloadOwned
  <2>2. heap' = Len(queue') + (IF box' # Nothing THEN 1 ELSE 0)
                  + (IF stage' \in {"none", "posted"} THEN 0 ELSE 1)
    BY <1>1, <1>2, <2>1
  <2>3. heap' \in Nat
    <3> DEFINE boxed == IF box' # Nothing THEN 1 ELSE 0
               held == IF stage' \in {"none", "posted"} THEN 0 ELSE 1
    <3>1. Len(queue') \in Nat /\ boxed \in Nat /\ held \in Nat
      BY <1>2
    <3>2. heap' = Len(queue') + boxed + held
      BY <2>2
    <3> HIDE DEF boxed, held
    <3> QED BY <3>1, <3>2
  <2> QED BY <2>2, <2>3 DEF EveryPayloadOwned
<1>4. TypeOK'
  BY <1>1, <1>2, <1>3, TailFacts, WindowAssumption DEF Tidy, TypeOK, Message
<1>5. MessagesAreCurrent'
  <2> SUFFICES ASSUME NEW i \in 1..Len(queue')
               PROVE  /\ working' /\ queue'[i].result.op = op'
                      /\ queue'[i].kind = "done" =>
                           i = Len(queue') /\ stage' = "posted"
    BY DEF MessagesAreCurrent
  <2>1. i + 1 \in 1..Len(queue) /\ queue'[i] = queue[i + 1]
    BY <1>1, TailFacts
  <2>2. /\ working /\ queue[i + 1].result.op = op
        /\ queue[i + 1].kind = "done" =>
             i + 1 = Len(queue) /\ stage = "posted"
    BY <2>1 DEF Tidy, MessagesAreCurrent
  <2>3. working' /\ op' = op /\ stage' = stage
    BY <1>1, <2>2
  <2>4. i + 1 = Len(queue) => i = Len(queue')
    BY <1>2
  <2> QED BY <2>1, <2>2, <2>3, <2>4, Zenon
<1>6. Joined'
  BY <1>1 DEF Tidy, Joined
<1> QED BY <1>3, <1>4, <1>5, <1>6 DEF Tidy

(* The result is the only message left when it is handled. *)
LEMMA DoneTidy == ASSUME Tidy, HandleWorkerDone PROVE Tidy'
<1>1. queue # <<>> /\ Head(queue).kind = "done"
      /\ stage = "posted" /\ stage' = "none" /\ ~working'
      /\ UNCHANGED <<op, closing, destination, operation, output, ending,
                     cancelled, asked, lost>>
  BY DEF HandleWorkerDone, Received
<1>2. Len(queue) = 1 /\ working /\ Head(queue) = queue[1]
  <2>1. 1 \in 1..Len(queue) /\ Head(queue) = queue[1]
    BY <1>1, QueueFacts
  <2> QED BY <1>1, <2>1 DEF Tidy, MessagesAreCurrent
<1>3. queue' = <<>> /\ Len(queue') = 0
  <2>1. Tail(queue) \in Seq(Message) /\ Len(Tail(queue)) = 0
    BY <1>1, <1>2, TailFacts
  <2>2. Tail(queue) = <<>>
    BY <2>1, EmptySeq
  <2> QED BY <2>2, EmptySeq DEF HandleWorkerDone, Destroy
<1>4. box = Nothing /\ heap = 1
  BY <1>1, <1>2 DEF Tidy, Joined, EveryPayloadOwned
<1>5. Head(queue).result \in Result /\ destination \in Path
  <2>1. queue[1] \in Message
    BY <1>2, QueueFacts, ElementOfSeq
  <2> QED BY <1>2, <2>1 DEF Message, Tidy, TypeOK
<1>6. \/ box' = Nothing /\ heap' = 0 /\ window' = "destroyed"
      \/ /\ box' = [result |-> Head(queue).result, path |-> destination]
         /\ heap' = 1 /\ window' = window
  BY <1>4 DEF HandleWorkerDone, Destroy
<1>7. [result |-> Head(queue).result, path |-> destination]
        \in Shown /\ Nothing \notin Shown
  BY <1>5, NothingAssumption DEF Shown
<1>8. TypeOK'
  <2>1. queue' \in Seq(Message) /\ Len(queue') <= QueueLimit
    BY <1>3, EmptySeq, WindowAssumption
  <2>2. /\ box' \in Shown \cup {Nothing} /\ heap' \in Nat
        /\ window' \in {"open", "destroyed"}
    BY <1>6, <1>7 DEF Tidy, TypeOK
  <2>3. working' \in BOOLEAN
    BY DEF HandleWorkerDone
  <2> QED BY <1>1, <2>1, <2>2, <2>3 DEF Tidy, TypeOK, Message
<1>9. EveryPayloadOwned'
  BY <1>1, <1>3, <1>6, <1>7 DEF EveryPayloadOwned
<1>10. MessagesAreCurrent' /\ Joined'
  BY <1>1, <1>3 DEF MessagesAreCurrent, Joined
<1> QED BY <1>8, <1>9, <1>10 DEF Tidy

(* One more message, of the operation that is running. *)
LEMMA AppendTidy ==
  ASSUME Tidy, NEW k \in {"progress", "done"}, CanPost,
         stage \notin {"none", "posted"},
         queue' = Append(queue, [kind |-> k, result |-> TheResult]),
         UNCHANGED <<op, working, box>>, stage' # "none",
         k = "done" => stage' = "posted"
  PROVE  /\ queue' \in Seq(Message) /\ Len(queue') = Len(queue) + 1
         /\ Len(queue') <= QueueLimit
         /\ MessagesAreCurrent' /\ Joined'
<1> DEFINE m == [kind |-> k, result |-> TheResult]
<1>1. working /\ op \in 1..MaxOperations /\ queue \in Seq(Message)
      /\ Len(queue) \in Nat
  BY QueueFacts DEF Tidy, Joined
<1>2. m \in Message
  BY <1>1 DEF Tidy, TypeOK, TheResult, Message, Result
<1> HIDE DEF m
<1>3. /\ queue' \in Seq(Message) /\ Len(queue') = Len(queue) + 1
      /\ \A i \in 1..Len(queue) : queue'[i] = queue[i]
      /\ queue'[Len(queue) + 1] = m
  <2>1. queue' = Append(queue, m)
    BY DEF m
  <2> QED BY <1>1, <1>2, <2>1, AppendProperties
<1>4. Len(queue') <= QueueLimit
  BY <1>1, <1>3, WindowAssumption DEF CanPost
<1>5. MessagesAreCurrent'
  <2> SUFFICES ASSUME NEW i \in 1..Len(queue')
               PROVE  /\ working' /\ queue'[i].result.op = op'
                      /\ queue'[i].kind = "done" =>
                           i = Len(queue') /\ stage' = "posted"
    BY DEF MessagesAreCurrent
  <2>1. CASE i \in 1..Len(queue)
    BY <1>1, <1>3, <2>1 DEF Tidy, MessagesAreCurrent
  <2>2. CASE i = Len(queue) + 1
    <3>1. queue'[i].kind = k /\ queue'[i].result.op = op
      BY <1>3, <2>2 DEF m, TheResult
    <3> QED BY <1>1, <1>3, <2>2, <3>1
  <2> QED BY <1>1, <1>3, <2>1, <2>2
<1>6. Joined'
  BY <1>1 DEF Tidy, Joined
<1> QED BY <1>3, <1>4, <1>5, <1>6

LEMMA ReportTidy == ASSUME Tidy, ReportProgress PROVE Tidy'
<1>1. /\ stage = "reporting" /\ stage' \in {"looking", "finishing"}
      /\ asked' \in {asked, "before"}
      /\ UNCHANGED <<window, working, closing, destination, box, op,
                     operation, output, ending, cancelled, lost>>
  BY DEF ReportProgress, AnotherLook, gui
<1>2. CASE /\ queue' = Append(queue,
                              [kind |-> "progress", result |-> TheResult])
           /\ heap' = heap + 1 /\ CanPost
  <2>1. /\ queue' \in Seq(Message) /\ Len(queue') = Len(queue) + 1
        /\ Len(queue') <= QueueLimit /\ MessagesAreCurrent' /\ Joined'
    BY <1>1, <1>2, AppendTidy
  <2>2. TypeOK'
    BY <1>1, <1>2, <2>1 DEF Tidy, TypeOK, Message
  <2>3. EveryPayloadOwned'
    BY <1>1, <1>2, <2>1, QueueFacts DEF Tidy, EveryPayloadOwned
  <2> QED BY <2>1, <2>2, <2>3 DEF Tidy
<1>3. CASE UNCHANGED <<queue, heap>>
  <2>1. TypeOK'
    BY <1>1, <1>3 DEF Tidy, TypeOK
  <2> QED BY <1>1, <1>3, <2>1, QuietTidy
<1> QED BY <1>2, <1>3 DEF ReportProgress, PostProgress

LEMMA PostDoneTidy == ASSUME Tidy, PostDone PROVE Tidy'
<1>1. /\ stage = "posting" /\ stage' = "posted"
      /\ UNCHANGED <<window, working, closing, destination, box, op, operation,
                     output, ending, cancelled, asked>>
  BY DEF PostDone, gui
<1>2. CASE CanPost
  <2>1. /\ queue' = Append(queue, [kind |-> "done", result |-> TheResult])
        /\ UNCHANGED <<heap, lost>>
    BY <1>2 DEF PostDone
  <2>2. /\ queue' \in Seq(Message) /\ Len(queue') = Len(queue) + 1
        /\ Len(queue') <= QueueLimit /\ MessagesAreCurrent' /\ Joined'
    BY <1>1, <1>2, <2>1, AppendTidy
  <2>3. TypeOK'
    BY <1>1, <2>1, <2>2 DEF Tidy, TypeOK, Message
  <2>4. EveryPayloadOwned'
    BY <1>1, <2>1, <2>2, QueueFacts DEF Tidy, EveryPayloadOwned
  <2> QED BY <2>2, <2>3, <2>4 DEF Tidy
<1>3. CASE ~CanPost
  <2>1. heap' = heap - 1 /\ lost' = TRUE /\ queue' = queue
    BY <1>3 DEF PostDone
  <2>2. EveryPayloadOwned' /\ heap' \in Nat
    BY <1>1, <2>1, QueueFacts DEF Tidy, EveryPayloadOwned
  <2>3. TypeOK'
    BY <1>1, <2>1, <2>2 DEF Tidy, TypeOK
  <2>4. MessagesAreCurrent' /\ Joined'
    BY <1>1, <2>1 DEF Tidy, MessagesAreCurrent, Joined
  <2> QED BY <2>2, <2>3, <2>4 DEF Tidy
<1> QED BY <1>2, <1>3

(* The steps of the worker that post nothing.                              *)
Silent ==
  Begin \/ LookAtFlag \/ Transfer \/ Finish \/ Publish \/ Inspect

LEMMA SilentStep ==
  ASSUME Tidy, Silent
  PROVE  /\ stage \notin {"none", "posted"}
         /\ stage' \in {"looking", "reading", "reporting", "finishing",
                        "publishing", "inspecting", "posting"}
         /\ ending' \in Ending /\ asked' \in {asked, "before"}
         /\ UNCHANGED <<gui, operation, output, cancelled, queue, heap, lost>>
BY DEF Silent, Begin, LookAtFlag, Transfer, Finish, Publish, Inspect, GoOn,
       AnotherLook, AcquireFails, Ending, Tidy, TypeOK

LEMMA WorkTidy == ASSUME Tidy, Work PROVE Tidy'
<1>1. ASSUME Silent PROVE Tidy'
  <2>1. TypeOK'
    BY <1>1, SilentStep DEF Tidy, TypeOK, gui
  <2> QED BY <1>1, <2>1, SilentStep, QuietTidy DEF gui
<1> QED BY <1>1, ReportTidy, PostDoneTidy DEF Work, Silent

LEMMA NextTidy == Tidy /\ [Next]_vars => Tidy'
<1> SUFFICES ASSUME Tidy, [Next]_vars PROVE Tidy'
  OBVIOUS
<1>1. CASE UNCHANGED vars
  BY <1>1, ZenonT(30) DEF vars, gui, worker, Tidy, TypeOK, EveryPayloadOwned,
              MessagesAreCurrent, Joined
<1>2. CASE Choose \/ ClickCancel
  BY <1>2, UserTidy
<1>3. CASE Close
  BY <1>3, CloseTidy
<1>4. CASE Dismiss
  BY <1>4, DismissTidy
<1>5. CASE \E o \in Operation : StartWorker(o)
  BY <1>5, StartTidy
<1>6. CASE Handle
  BY <1>6, ProgressTidy, DoneTidy DEF Handle
<1>7. CASE Work
  BY <1>7, WorkTidy
<1> QED BY <1>1, <1>2, <1>3, <1>4, <1>5, <1>6, <1>7 DEF Next

(* The inductive invariant holds in every state of gui.cpp's window. *)
THEOREM TidyAlways == Spec => []Tidy
BY InitTidy, NextTidy, PTL DEF Spec

(* MainWindow's members keep their types; in particular the queue stays    *)
(* within its limit and no payload is deleted that is not there.           *)
THEOREM WindowTypeCorrect == Spec => []TypeOK
<1>1. Tidy => TypeOK
  BY DEF Tidy
<1> QED BY <1>1, TidyAlways, PTL

(* Every payload of PostProgress and of the worker's result has exactly    *)
(* one owner, through full queues, cancels and closing.                    *)
THEOREM PayloadsOwned == Spec => []EveryPayloadOwned
<1>1. Tidy => EveryPayloadOwned
  BY DEF Tidy
<1> QED BY <1>1, TidyAlways, PTL

(* HandleMessage never shows a message of an operation that has ended, and *)
(* the result of an operation is its last message.                         *)
THEOREM QueueIsCurrent == Spec => []MessagesAreCurrent
<1>1. Tidy => MessagesAreCurrent
  BY DEF Tidy
<1> QED BY <1>1, TidyAlways, PTL
---------------------------------------------------------------------------
(* What the message box tells.                                             *)

(* The flag and the history agree until Acquire has returned; a capture    *)
(* that went on past its last look had not been cancelled before it; and   *)
(* from there on its ending says which way it looked.                      *)
Flagged ==
  /\ asked # "no" => cancelled
  /\ stage \in LooksAgain \cup MayLookAgain => (cancelled => asked # "no")
  /\ stage \in MayLookAgain \cup {"publishing"} => asked # "before"
  /\ stage \in LooksAgain \cup MayLookAgain \cup {"publishing", "inspecting"}
       => ending = "failed"
  /\ stage \in {"posting", "posted"} \/ box # Nothing =>
       /\ ending = "cancelled" => asked # "no"
       /\ asked = "before" => ending # "finalized"

(* A result is that of the last worker wherever it is, and as long as it   *)
(* has not been dismissed the edit control holds the worker's destination. *)
Carried ==
  /\ \A i \in 1..Len(queue) :
       queue[i].kind = "done" => queue[i].result = TheResult
  /\ box # Nothing => box.result = TheResult /\ box.path = output
  /\ stage # "none" => output = destination

Honest == Flagged /\ Carried

LEMMA InitHonest == Init => Honest
<1> SUFFICES ASSUME Init PROVE Honest
  OBVIOUS
<1>1. Len(queue) = 0 /\ box = Nothing /\ stage = "none" /\ asked = "no"
  BY EmptySeq DEF Init
<1> QED BY <1>1 DEF Honest, Flagged, Carried, LooksAgain, MayLookAgain

(* A flag raised now keeps to the history.                                 *)
LEMMA RaisedFlag ==
  ASSUME Tidy, Flagged, box = Nothing, cancelled', asked' = AskedNow,
         UNCHANGED <<stage, ending, box>>
  PROVE  Flagged'
BY DEF Flagged, AskedNow, LooksAgain, MayLookAgain

(* The user: nothing can be typed or started while a result is on its way, *)
(* and the flag is raised together with the history.                       *)
LEMMA UserHonest ==
  ASSUME Tidy, Honest, Choose \/ ClickCancel \/ Close \/ Dismiss
  PROVE  Honest'
<1>1. UNCHANGED <<stage, operation, output, ending, op>>
  BY DEF Choose, ClickCancel, Close, Dismiss, gui, worker
<1>2. TheResult' = TheResult
  BY <1>1 DEF TheResult
<1>3. /\ queue' = queue /\ (box' = box \/ box' = Nothing)
      /\ stage # "none" \/ box' # Nothing => destination' = destination
  BY QueueFacts
     DEF Choose, ClickCancel, Close, Dismiss, Destroy, Enabled, gui, worker,
         Tidy, Joined
<1>4. Carried'
  BY <1>1, <1>2, <1>3 DEF Honest, Carried
<1>5. Flagged'
  <2>1. CASE Choose \/ Dismiss
    BY <1>1, <1>3, <2>1 DEF Honest, Flagged, Choose, Dismiss
  <2>2. CASE ClickCancel
    BY <1>1, <2>2, RaisedFlag DEF Honest, ClickCancel, Enabled, gui
  <2>3. CASE Close
    <3>1. CASE working
      BY <1>1, <2>3, <3>1, RaisedFlag DEF Honest, Close, Tidy, Joined
    <3>2. CASE ~working
      BY <1>1, <2>3, <3>2 DEF Honest, Flagged, Close
    <3> QED BY <3>1, <3>2
  <2> QED BY <2>1, <2>2, <2>3
<1> QED BY <1>4, <1>5 DEF Honest

LEMMA StartHonest ==
  ASSUME Tidy, Honest, NEW o \in Operation, StartWorker(o)
  PROVE  Honest'
<1>1. /\ stage' = "starting" /\ output' = destination /\ ending' = "failed"
      /\ asked' = "no" /\ ~cancelled' /\ box' = Nothing
      /\ destination' = destination
  BY DEF StartWorker, Launched, Enabled
<1>2. Len(queue') = 0
  BY QueueFacts, EmptySeq DEF StartWorker, Launched
<1> QED BY <1>1, <1>2
    DEF Honest, Flagged, Carried, LooksAgain, MayLookAgain

LEMMA HandleHonest == ASSUME Tidy, Honest, Handle PROVE Honest'
<1>1. /\ queue # <<>> /\ UNCHANGED <<operation, output, ending, op, asked,
                                     cancelled, destination>>
  BY DEF Handle, HandleProgress, HandleWorkerDone, Received, gui, worker
<1>2. TheResult' = TheResult
  BY <1>1 DEF TheResult
<1>3. CASE HandleProgress
  <2>1. queue' = Tail(queue) /\ UNCHANGED <<box, stage>>
    BY <1>3 DEF HandleProgress, gui, worker
  <2>2. \A i \in 1..Len(queue') :
          i + 1 \in 1..Len(queue) /\ queue'[i] = queue[i + 1]
    BY <1>1, <2>1, TailFacts
  <2>3. Carried'
    BY <1>1, <1>2, <2>1, <2>2 DEF Honest, Carried
  <2>4. Flagged'
    BY <1>1, <2>1 DEF Honest, Flagged
  <2> QED BY <2>3, <2>4 DEF Honest
<1>4. CASE HandleWorkerDone
  <2>1. stage = "posted" /\ stage' = "none" /\ Head(queue).kind = "done"
    BY <1>4 DEF HandleWorkerDone, Received
  <2>2. Len(queue) = 1 /\ Head(queue) = queue[1] /\ box = Nothing
    <3>1. 1 \in 1..Len(queue) /\ Head(queue) = queue[1]
      BY <1>1, QueueFacts
    <3> QED BY <2>1, <3>1 DEF Tidy, MessagesAreCurrent, Joined
  <2>3. Head(queue).result = TheResult /\ output = destination
    BY <2>1, <2>2 DEF Honest, Carried
  <2>4. \/ box' = Nothing
        \/ box' = [result |-> TheResult, path |-> output]
    BY <1>4, <2>2, <2>3 DEF HandleWorkerDone
  <2>5. Len(queue') = 0
    <3>1. queue' = <<>> \/ queue' = Tail(queue)
      BY <1>4 DEF HandleWorkerDone, Destroy
    <3>2. Len(Tail(queue)) = 0
      BY <1>1, <2>2, TailFacts
    <3> QED BY <3>1, <3>2, EmptySeq
  <2>6. Carried'
    BY <1>1, <1>2, <2>1, <2>4, <2>5 DEF Carried
  <2>7. Flagged'
    BY <1>1, <2>1 DEF Honest, Flagged, LooksAgain, MayLookAgain
  <2> QED BY <2>6, <2>7 DEF Honest
<1> QED BY <1>3, <1>4 DEF Handle

(* The worker: a capture goes on past a look at the flag only if it is not *)
(* set, and only until Acquire has returned can it end as cancelled.       *)
LEMMA WorkHonest == ASSUME Tidy, Honest, Work PROVE Honest'
<1>1. /\ stage # "none" /\ stage # "posted" /\ stage' # "none" /\ box' = box
      /\ box = Nothing
      /\ UNCHANGED <<operation, output, op, cancelled, destination>>
  BY DEF Work, Begin, LookAtFlag, Transfer, ReportProgress, Finish, Publish,
         Inspect, PostDone, GoOn, AcquireFails, gui, Tidy, Joined
<1>2. Flagged'
  <2> USE DEF LooksAgain, MayLookAgain, AnotherLook
  <2>1. CASE Begin
    BY <1>1, <2>1 DEF Begin, Honest, Flagged
  <2>2. ASSUME stage \in LooksAgain \cup MayLookAgain, AcquireFails
        PROVE  Flagged'
    BY <1>1, <2>2 DEF AcquireFails, Honest, Flagged
  <2>3. CASE LookAtFlag
    <3>1. ~cancelled /\ GoOn({"reading"}) => Flagged'
      BY <1>1, <2>3 DEF LookAtFlag, GoOn, Honest, Flagged
    <3> QED BY <2>2, <2>3, <3>1 DEF LookAtFlag
  <2>4. CASE Transfer
    <3>1. GoOn({"looking", "reporting"}) => Flagged'
      BY <1>1, <2>4 DEF Transfer, GoOn, Honest, Flagged
    <3> QED BY <2>2, <2>4, <3>1 DEF Transfer
  <2>5. CASE ReportProgress
    BY <1>1, <2>5 DEF ReportProgress, Honest, Flagged
  <2>6. CASE Finish
    <3>1. GoOn({"publishing"}) => Flagged'
      BY <1>1, <2>6 DEF Finish, GoOn, Honest, Flagged
    <3> QED BY <2>2, <2>6, <3>1 DEF Finish
  <2>7. CASE Publish
    BY <1>1, <2>7 DEF Publish, Honest, Flagged
  <2>8. CASE Inspect
    BY <1>1, <2>8 DEF Inspect, Honest, Flagged
  <2>9. CASE PostDone
    BY <1>1, <2>9 DEF PostDone, Honest, Flagged
  <2> QED BY <2>1, <2>3, <2>4, <2>5, <2>6, <2>7, <2>8, <2>9 DEF Work
<1>3. ASSUME NEW i \in 1..Len(queue) PROVE queue[i].kind # "done"
  BY <1>1 DEF Tidy, MessagesAreCurrent
<1>4. ASSUME queue' = queue PROVE Carried'
  BY <1>1, <1>3, <1>4 DEF Honest, Carried
<1>5. ASSUME NEW k \in {"progress", "done"},
             queue' = Append(queue, [kind |-> k, result |-> TheResult]),
             ending' = ending
      PROVE  Carried'
  <2> DEFINE m == [kind |-> k, result |-> TheResult]
  <2>1. /\ Len(queue) \in Nat /\ Len(queue') = Len(queue) + 1
        /\ \A i \in 1..Len(queue) : queue'[i] = queue[i]
        /\ queue'[Len(queue) + 1] = m
    <3>1. m \in Message
      BY <1>1 DEF Tidy, TypeOK, TheResult, Message, Result, Joined
    <3> HIDE DEF m
    <3> QED BY <1>5, <3>1, QueueFacts, AppendProperties DEF m
  <2>2. TheResult' = TheResult
    BY <1>1, <1>5 DEF TheResult
  <2>3. ASSUME NEW i \in 1..Len(queue'), queue'[i].kind = "done"
        PROVE  queue'[i].result = TheResult'
    <3>1. CASE i \in 1..Len(queue)
      BY <1>3, <2>1, <2>3, <3>1
    <3>2. CASE i = Len(queue) + 1
      BY <2>1, <2>2, <3>2
    <3> QED BY <2>1, <3>1, <3>2
  <2> QED BY <1>1, <2>3 DEF Honest, Carried
<1>6. Silent => Carried'
  BY <1>4, SilentStep
<1>7. ReportProgress => Carried'
  BY <1>4, <1>5 DEF ReportProgress, PostProgress
<1>8. PostDone => Carried'
  BY <1>4, <1>5 DEF PostDone
<1> QED BY <1>2, <1>6, <1>7, <1>8 DEF Work, Silent, Honest

LEMMA NextHonest == Tidy /\ Honest /\ [Next]_vars => Honest'
<1> SUFFICES ASSUME Tidy, Honest, [Next]_vars PROVE Honest'
  OBVIOUS
<1>1. CASE UNCHANGED vars
  BY <1>1 DEF vars, gui, worker, Honest, Flagged, Carried, TheResult
<1> QED BY <1>1, UserHonest, StartHonest, HandleHonest, WorkHonest DEF Next

(* What the box is about to tell is true, through full queues and closing. *)
THEOREM HonestAlways == Spec => []Honest
BY InitHonest, NextHonest, TidyAlways, PTL DEF Spec

(* The box of gui.cpp calls a capture cancelled only if the flag was       *)
(* raised for it before Acquire had returned, and does not call a capture  *)
(* finalized for which it was raised when a look at it was still to come,  *)
(* although the flag outlives each operation.  A flag raised after the     *)
(* last look is not excluded.                                              *)
THEOREM CancelIsThisCapture == Spec => []CancelMeansThisCapture
<1>1. Honest => CancelMeansThisCapture
  BY DEF Honest, Flagged, Carried, CancelMeansThisCapture, TheResult
<1> QED BY <1>1, HonestAlways, PTL

(* The names the box reads back from the edit control are those the        *)
(* capture was started with: SetWorking disables the control until the     *)
(* result has been handled, and the box disables the window.               *)
THEOREM NamesAreTheWorkers == Spec => []NamesWhatWasWritten
<1>1. Honest => NamesWhatWasWritten
  BY DEF Honest, Carried, NamesWhatWasWritten
<1> QED BY <1>1, HonestAlways, PTL
=============================================================================
