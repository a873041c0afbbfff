------------------------ MODULE DriverSessionProofs ------------------------
(***************************************************************************)
(* The memory safety of the driver's session, for every set of run tables, *)
(* any number of pending requests and any width of the addresses.          *)
(***************************************************************************)
EXTENDS DriverSession, SequenceTheorems, TLAPS

Busy(step) == running # Nothing /\ running.step = step

(* The lock says who is inside a callback. *)
Exclusive ==
  /\ lock = "queue" <=> running # Nothing
  /\ lock = "cleanup" => file = "closing" /\ ranges = Null

(* A handler that has looked at the session has it. *)
Holds == Busy("use") \/ Busy("copy") \/ Busy("compare") => SessionOpen

(* The context points to the table of the session, which is allocated. *)
Backed ==
  /\ ranges # Null =>
       /\ "frozen" \in pool /\ file \in {"open", "closing"}
       /\ ranges = frozen /\ runCount = Len(frozen)
  /\ "frozen" \in pool => ranges # Null \/ lock = "cleanup"
  /\ "current" \in pool <=> Busy("compare")

(* The interval being copied lies in a run. *)
CopyInRun ==
  Busy("copy") =>
    \E i \in 1..Len(frozen) :
      /\ frozen[i].base <= running.from
      /\ running.from + running.length <= frozen[i].base + frozen[i].length

Safe == TypeOK /\ Exclusive /\ Holds /\ Backed /\ CopyInRun

LEMMA TableFacts ==
  ASSUME NEW t \in Tables
  PROVE  /\ Len(t) \in Nat /\ t # Null /\ t # <<>>
         /\ \A i \in 1..Len(t) :
              /\ t[i].base \in Nat /\ t[i].length \in Nat
              /\ t[i].base + t[i].length <= MaxWord
<1>1. /\ t \in Seq([base : 0..MaxWord, length : 1..MaxWord])
      /\ t # <<>> /\ t # Null
      /\ \A i \in 1..Len(t) : t[i].base + t[i].length <= MaxWord
  BY DriverAssumption
<1>2. ASSUME NEW i \in 1..Len(t)
      PROVE  t[i].base \in Nat /\ t[i].length \in Nat
  <2>1. t[i] \in [base : 0..MaxWord, length : 1..MaxWord]
    BY <1>1, ElementOfSeq
  <2> QED BY <2>1, DriverAssumption
<1>3. Len(t) \in Nat
  BY <1>1, LenProperties
<1> QED BY <1>1, <1>2, <1>3

LEMMA InitSafe == Init => Safe
<1> SUFFICES ASSUME Init PROVE Safe
  OBVIOUS
<1>1. TypeOK
  <2>1. queue \in Seq(Ops) /\ Len(queue) <= MaxPending
    BY DriverAssumption DEF Init
  <2>2. ended \in BOOLEAN
    BY DEF Init
  <2> QED BY <2>1, <2>2 DEF Init, TypeOK
<1> QED BY <1>1
        DEF Init, Safe, Exclusive, Holds, Backed, CopyInRun, Busy, SessionOpen

(* A request completed by a step that leaves the session alone. *)
LEMMA CompleteSafe ==
  ASSUME Safe, NEW reply \in Answer, Complete(reply), lock = "queue",
         pool' = pool \ {"current"}, ~Busy("compare"),
         UNCHANGED <<live, file, context, queue, frozen>>
  PROVE  Safe'
<1>1. TypeOK'
  BY DEF Safe, TypeOK, Complete, context
<1> QED BY <1>1 DEF Safe, Exclusive, Holds, Backed, CopyInRun, Busy, Complete,
                    context, SessionOpen

LEMMA PresentSafe == ASSUME Safe, Present PROVE Safe'
<1>1. /\ queue \in Seq(Ops) /\ queue # <<>> /\ Len(queue) <= MaxPending
      /\ lock = "none" /\ running = Nothing
  BY DEF Safe, TypeOK, Present, DeviceFree
<1>2. /\ Head(queue) \in Ops /\ Tail(queue) \in Seq(Ops)
      /\ Len(Tail(queue)) <= MaxPending
  <2>1. /\ Head(queue) \in Ops /\ Tail(queue) \in Seq(Ops)
        /\ Len(Tail(queue)) = Len(queue) - 1 /\ Len(queue) \in Nat
    BY <1>1, HeadTailProperties, LenProperties
  <2> QED BY <1>1, <2>1, DriverAssumption
<1>3. running' \in Request /\ running'.step = "check" /\ running' # Nothing
  BY <1>2, NothingAssumption DEF Present, Request
<1>4. TypeOK'
  BY <1>2, <1>3 DEF Safe, TypeOK, Present, context
<1> QED BY <1>1, <1>3, <1>4
        DEF Present, Safe, Exclusive, Holds, Backed, CopyInRun, Busy, context,
            SessionOpen

LEMMA CheckSafe == ASSUME Safe, CheckRequest PROVE Safe'
<1>1. running # Nothing /\ running.step = "check" /\ lock = "queue"
      /\ running \in Request /\ "current" \notin pool
  BY DEF CheckRequest, Safe, Exclusive, TypeOK, Backed, Busy
<1>2. ASSUME NEW reply \in Answer, Complete(reply) PROVE Safe'
  BY <1>1, <1>2, CompleteSafe DEF CheckRequest, Busy
<1>3. ASSUME SessionOpen, running' = [running EXCEPT !.step = "use"],
             UNCHANGED <<lock, answer>>
      PROVE  Safe'
  <2>1. running \in [op : Ops, step : {"check", "use"}]
    BY <1>1 DEF Request
  <2>2. running' \in Request /\ running'.step = "use" /\ running' # Nothing
    BY <1>3, <2>1, NothingAssumption DEF Request
  <2>3. TypeOK'
    BY <1>3, <2>2 DEF CheckRequest, Safe, TypeOK, context
  <2> QED BY <1>1, <1>3, <2>2, <2>3
          DEF CheckRequest, Safe, Exclusive, Holds, Backed, CopyInRun, Busy,
              context, SessionOpen
<1> QED BY <1>2, <1>3 DEF CheckRequest, Answer

LEMMA AnswerSafe ==
  ASSUME Safe, QueryInfo \/ GetRanges \/ CopyDone PROVE Safe'
<1>1. /\ running # Nothing /\ lock = "queue" /\ ~Busy("compare")
      /\ running \in Request /\ "current" \notin pool
  BY DEF QueryInfo, GetRanges, CopyDone, Using, Safe, Exclusive, TypeOK,
         Backed, Busy
<1>2. ASSUME NEW reply \in Answer, Complete(reply) PROVE Safe'
  BY <1>1, <1>2, CompleteSafe DEF QueryInfo, GetRanges, CopyDone
<1>3. CASE QueryInfo
  <2>1. [op |-> "query", count |-> runCount] \in Answer
    BY DEF Safe, TypeOK, Answer
  <2> QED BY <1>2, <1>3, <2>1 DEF QueryInfo
<1>4. CASE GetRanges
  <2>1. ranges \in Tables
    BY <1>1, <1>4 DEF GetRanges, Using, Safe, Holds, Busy, SessionOpen, TypeOK
  <2>2. [op |-> "ranges", table |-> ranges] \in Answer
    BY <2>1 DEF Answer
  <2> QED BY <1>2, <1>4, <2>2 DEF GetRanges
<1>5. CASE CopyDone
  <2>1. running.from \in Word /\ running.length \in 1..MaxTransfer
    BY <1>1, <1>5 DEF CopyDone, Request
  <2>2. [op |-> "read", from |-> running.from, length |-> running.length]
          \in Answer
    BY <2>1 DEF Answer
  <2> QED BY <1>2, <1>5, <2>2 DEF CopyDone
<1> QED BY <1>3, <1>4, <1>5

(* The bounds check keeps the copy inside the run, without wrap-around. *)
LEMMA WithinRunFacts ==
  ASSUME NEW t \in Tables, NEW i \in 1..Len(t), NEW offset \in Word,
         NEW length \in 1..MaxTransfer, WithinRun(t[i], offset, length)
  PROVE  /\ (t[i].base + offset) % (MaxWord + 1) = t[i].base + offset
         /\ t[i].base + offset \in Word
         /\ t[i].base + offset + length <= t[i].base + t[i].length
<1>1. /\ t[i].base \in Nat /\ t[i].length \in Nat /\ offset \in Nat
      /\ length \in Nat /\ length > 0 /\ MaxWord \in Nat
      /\ t[i].base + t[i].length <= MaxWord
  BY TableFacts, DriverAssumption DEF Word
<1>2. length <= t[i].length - offset
  BY DEF WithinRun
<1>3. t[i].base + offset \in 0..MaxWord
      /\ t[i].base + offset + length <= t[i].base + t[i].length
  BY <1>1, <1>2, SMTT(30)
<1>4. \A a \in 0..MaxWord : a % (MaxWord + 1) = a
  BY <1>1
<1> QED BY <1>3, <1>4 DEF Word

LEMMA ReadSafe == ASSUME Safe, ReadRun PROVE Safe'
<1>1. /\ running # Nothing /\ lock = "queue" /\ ~Busy("compare")
      /\ "current" \notin pool /\ TypeOK
  BY DEF ReadRun, Using, Safe, Exclusive, TypeOK, Backed, Busy
<1>2. ASSUME Complete(Refused) PROVE Safe'
  BY <1>1, <1>2, CompleteSafe DEF ReadRun, Answer
<1>3. ASSUME NEW index \in 0..runCount, NEW offset \in Word,
             NEW length \in 0 .. MaxTransfer + 1, SessionOpen,
             index < runCount, TransferFits(length),
             WithinRun(ranges[index + 1], offset, length),
             running' = [op |-> "read", step |-> "copy",
                         from |-> (ranges[index + 1].base + offset)
                                    % (MaxWord + 1),
                         length |-> length],
             UNCHANGED <<lock, answer>>
      PROVE  Safe'
  <2>1. /\ ranges \in Tables /\ ranges = frozen /\ runCount = Len(ranges)
        /\ Len(ranges) \in Nat
    BY <1>1, <1>3, TableFacts DEF SessionOpen, Safe, Backed, TypeOK
  <2>2. index + 1 \in 1..Len(ranges) /\ length \in 1..MaxTransfer
    BY <1>3, <2>1 DEF TransferFits
  <2>3. /\ running'.from = ranges[index + 1].base + offset
        /\ running'.from \in Word /\ running'.length = length
        /\ running'.from + running'.length
             <= ranges[index + 1].base + ranges[index + 1].length
        /\ ranges[index + 1].base <= running'.from
    <3>1. ranges[index + 1].base \in Nat /\ offset \in Nat
      BY <2>1, <2>2, TableFacts DEF Word
    <3>2. ranges[index + 1].base <= ranges[index + 1].base + offset
      BY <3>1
    <3> QED BY <1>3, <2>1, <2>2, <3>2, WithinRunFacts
  <2>4. running' \in Request /\ running' # Nothing /\ running'.step = "copy"
    BY <1>3, <2>2, <2>3, NothingAssumption DEF Request
  <2>5. TypeOK'
    BY <1>1, <1>3, <2>4 DEF TypeOK, ReadRun, context
  <2>6. CopyInRun'
    BY <2>1, <2>2, <2>3 DEF CopyInRun, ReadRun
  <2> QED BY <1>1, <1>3, <2>4, <2>5, <2>6
          DEF ReadRun, Safe, Exclusive, Holds, Backed, Busy, context, SessionOpen
<1> QED BY <1>2, <1>3 DEF ReadRun

LEMMA EndSafe == ASSUME Safe, SnapshotLive \/ CompareRanges PROVE Safe'
<1>1. running # Nothing /\ lock = "queue" /\ TypeOK /\ running \in Request
  BY DEF SnapshotLive, CompareRanges, Using, Safe, Exclusive, TypeOK
<1>2. CASE SnapshotLive
  <2>1. ~Busy("compare") /\ "current" \notin pool /\ SessionOpen
    BY <1>2 DEF SnapshotLive, Using, Busy, Safe, Backed, Holds
  <2>2. ASSUME Complete(Refused), UNCHANGED pool PROVE Safe'
    BY <1>1, <1>2, <2>1, <2>2, CompleteSafe DEF SnapshotLive, Answer
  <2>3. ASSUME pool' = pool \cup {"current"}, UNCHANGED <<lock, answer>>,
               running' = [op |-> "end", step |-> "compare", current |-> live]
        PROVE  Safe'
    <3>1. running' \in Request /\ running' # Nothing
          /\ running'.step = "compare"
      BY <1>1, <2>3, NothingAssumption DEF Request, TypeOK
    <3>2. TypeOK'
      BY <1>1, <1>2, <2>3, <3>1 DEF SnapshotLive, TypeOK, context
    <3> QED BY <1>1, <1>2, <2>1, <2>3, <3>1, <3>2
            DEF SnapshotLive, Safe, Exclusive, Holds, Backed, CopyInRun, Busy,
                context, SessionOpen
  <2> QED BY <1>2, <2>2, <2>3 DEF SnapshotLive
<1>3. CASE CompareRanges
  <2>1. running.current \in Tables
    BY <1>1, <1>3 DEF CompareRanges, Request
  <2>2. EndAnswer \in Answer
    BY <2>1, TableFacts DEF EndAnswer, Answer
  <2>3. TypeOK'
    <3>1. ended' \in BOOLEAN
      BY <1>3 DEF CompareRanges
    <3> QED BY <1>1, <1>3, <2>2, <3>1 DEF CompareRanges, TypeOK, Complete
  <2> QED BY <1>1, <1>3, <2>3
          DEF CompareRanges, Complete, Safe, Exclusive, Holds, Backed,
              CopyInRun, Busy, SessionOpen
<1> QED BY <1>2, <1>3

LEMMA FileSafe ==
  ASSUME Safe, FileCreate \/ CloseHandle \/ Detach \/ Release \/ FileClose
  PROVE  Safe'
<1>1. TypeOK
  BY DEF Safe
<1>2. CASE FileCreate
  <2>1. live \in Tables /\ Len(live) \in Nat /\ live # Null
        /\ ended' \in BOOLEAN
    BY <1>1, <1>2, TableFacts DEF TypeOK, FileCreate
  <2>2. TypeOK'
    BY <1>1, <1>2, <2>1 DEF FileCreate, TypeOK
  <2> QED BY <1>2, <2>1, <2>2
          DEF FileCreate, DeviceFree, Safe, Exclusive, Holds, Backed, CopyInRun,
              Busy, SessionOpen
<1>3. CASE CloseHandle \/ FileClose
  <2>1. TypeOK'
    BY <1>1, <1>3 DEF CloseHandle, FileClose, TypeOK, context
  <2> QED BY <1>3, <2>1
          DEF CloseHandle, FileClose, Safe, Exclusive, Holds, Backed, CopyInRun,
              Busy, SessionOpen, context
<1>4. CASE Detach
  <2>1. TypeOK'
    BY <1>1, <1>4 DEF Detach, TypeOK
  <2> QED BY <1>4, <2>1
          DEF Detach, DeviceFree, Safe, Exclusive, Holds, Backed, CopyInRun,
              Busy, SessionOpen
<1>5. CASE Release
  <2>1. ended' \in BOOLEAN /\ ranges = Null /\ running = Nothing
    BY <1>5 DEF Release, Safe, Exclusive
  <2>2. TypeOK'
    BY <1>1, <1>5, <2>1 DEF Release, TypeOK
  <2> QED BY <1>5, <2>1, <2>2
          DEF Release, Safe, Exclusive, Holds, Backed, CopyInRun, Busy,
              SessionOpen
<1> QED BY <1>2, <1>3, <1>4, <1>5

LEMMA SubmitSafe == ASSUME Safe, Submit PROVE Safe'
<1>1. PICK op \in Ops : queue' = Append(queue, op)
  BY DEF Submit
<1>2. queue \in Seq(Ops) /\ Len(queue) < MaxPending /\ Len(queue) \in Nat
  BY LenProperties DEF Submit, Safe, TypeOK
<1>3. queue' \in Seq(Ops) /\ Len(queue') = Len(queue) + 1
  BY <1>1, <1>2, AppendProperties
<1>4. Len(queue') <= MaxPending
  BY <1>2, <1>3, DriverAssumption
<1>5. TypeOK'
  BY <1>3, <1>4 DEF Submit, Safe, TypeOK, context
<1> QED BY <1>5
        DEF Submit, Safe, Exclusive, Holds, Backed, CopyInRun, Busy, context,
            SessionOpen

LEMMA NextSafe == Safe /\ [Next]_vars => Safe'
<1> SUFFICES ASSUME Safe, [Next]_vars PROVE Safe'
  OBVIOUS
<1>1. CASE Hotplug \/ UNCHANGED vars
  <2>1. TypeOK'
    BY <1>1 DEF Hotplug, vars, Safe, TypeOK, context
  <2> QED BY <1>1, <2>1
          DEF Hotplug, vars, Safe, Exclusive, Holds, Backed, CopyInRun, Busy,
              context, SessionOpen
<1> QED BY <1>1, FileSafe, SubmitSafe, PresentSafe, CheckSafe, AnswerSafe,
           ReadSafe, EndSafe DEF Next, Handler, Cleanup

THEOREM SafeAlways == Spec => []Safe
BY InitSafe, NextSafe, PTL DEF Spec

(* Every variable keeps its type. *)
THEOREM DriverTypeCorrect == Spec => []TypeOK
<1>1. Safe => TypeOK
  BY DEF Safe
<1> QED BY <1>1, SafeAlways, PTL

(* driver.c:50-57: no handler uses a table that cleanup has freed. *)
THEOREM TableOutlivesUse == Spec => []NoUseAfterFree
<1>1. Safe => NoUseAfterFree
  BY DEF Safe, NoUseAfterFree, Holds, Backed, Busy, SessionOpen
<1> QED BY <1>1, SafeAlways, PTL

(* Every snapshot that is allocated is freed again. *)
THEOREM NothingLeaks == Spec => []NoLeak
<1>1. ASSUME Safe PROVE NoLeak
  <2>1. lock # "queue" => "current" \notin pool
    BY <1>1 DEF Safe, Exclusive, Backed, Busy
  <2>2. file \in {"cleaned", "closed"} => "frozen" \notin pool
    BY <1>1 DEF Safe, Exclusive, Backed
  <2>3. file \in {"cleaned", "closed"} => "current" \notin pool
    BY <1>1 DEF Safe, Holds, Backed, Busy, SessionOpen
  <2> QED BY <1>1, <2>1, <2>2, <2>3 DEF Safe, TypeOK, NoLeak
<1> QED BY <1>1, SafeAlways, PTL

(* The phase of MemorySession the driver is in. *)
Phase == IF file = "closed" THEN "closed"
         ELSE IF SessionOpen THEN "open" ELSE "over"

LEMMA AnswersRefine ==
  ASSUME Safe, NEW reply, Complete(reply), UNCHANGED <<file, context, frozen>>,
         \/ reply \in {Refused, Hints}
         \/ /\ Phase = "open"
            /\ \/ reply = [op |-> "ranges", table |-> frozen]
               \/ reply = [op |-> "query", count |-> Len(frozen)]
               \/ \E from \in Word, length \in 1..MaxTransfer :
                    /\ reply = [op |-> "read", from |-> from,
                                length |-> length]
                    /\ Session!Inside(frozen, from, length)
  PROVE  Session!Next
<1>1. answer' = reply /\ Phase' = Phase /\ frozen' = frozen
  BY DEF Complete, Phase, context, SessionOpen
<1>2. CASE reply \in {Refused, Hints}
  BY <1>1, <1>2
     DEF Session!Next, Session!AnswerOther, Refused, Hints, Phase
<1>3. CASE Phase = "open" /\ reply = [op |-> "ranges", table |-> frozen]
  BY <1>1, <1>3 DEF Session!Next, Session!AnswerTable, Phase
<1>4. CASE Phase = "open" /\ reply = [op |-> "query", count |-> Len(frozen)]
  BY <1>1, <1>4 DEF Session!Next, Session!AnswerSummary, Phase
<1>5. ASSUME Phase = "open", NEW from \in Word, NEW length \in 1..MaxTransfer,
             reply = [op |-> "read", from |-> from, length |-> length],
             Session!Inside(frozen, from, length)
      PROVE  Session!Next
  <2>1. reply \in Answer /\ reply # Nothing
    BY <1>5, NothingAssumption DEF Answer
  <2>2. /\ answer' # Nothing /\ answer'.op = "read" /\ answer'.length > 0
        /\ answer' = [op |-> "read", from |-> answer'.from,
                      length |-> answer'.length]
        /\ Session!Inside(frozen, answer'.from, answer'.length)
    BY <1>1, <1>5, <2>1, DriverAssumption
  <2> QED BY <1>1, <1>5, <2>2 DEF Session!Next, Session!AnswerRead, Phase
<1> QED BY <1>2, <1>3, <1>4, <1>5

LEMMA StepRefines ==
  ASSUME Safe, Safe', [Next]_vars
  PROVE  [Session!Next]_Session!sessionVars
<1>1. CASE FileCreate
  <2>1. live \in Tables /\ live # Null
    BY TableFacts DEF Safe, TypeOK
  <2> QED BY <1>1, <2>1 DEF FileCreate, Session!Next, Session!Open, SessionOpen
<1>2. CASE Submit \/ CloseHandle \/ Hotplug \/ Present \/ UNCHANGED vars
  BY <1>2 DEF Submit, CloseHandle, Hotplug, Present, vars, context,
     SessionOpen, Session!sessionVars
<1>3. CASE CheckRequest
  <2>1. ASSUME NEW reply \in {Refused, Hints}, Complete(reply)
        PROVE  Session!Next
    BY <1>3, <2>1, AnswersRefine DEF CheckRequest
  <2>2. CASE UNCHANGED answer
    BY <1>3, <2>2 DEF CheckRequest, context, SessionOpen, Session!sessionVars
  <2> QED BY <1>3, <2>1, <2>2 DEF CheckRequest
<1>4. CASE QueryInfo \/ GetRanges
  <2>1. /\ Phase = "open" /\ runCount = Len(frozen) /\ ranges = frozen
        /\ UNCHANGED <<file, context, frozen>>
    BY <1>4 DEF QueryInfo, GetRanges, Using, Safe, Holds, Backed, Busy,
       SessionOpen, Phase
  <2> QED BY <1>4, <2>1, AnswersRefine DEF QueryInfo, GetRanges
<1>5. CASE ReadRun
  <2>1. CASE Complete(Refused)
    BY <1>5, <2>1, AnswersRefine DEF ReadRun
  <2>2. CASE UNCHANGED answer
    BY <1>5, <2>2 DEF ReadRun, context, SessionOpen, Session!sessionVars
  <2> QED BY <1>5, <2>1, <2>2 DEF ReadRun
<1>6. CASE CopyDone
  <2>1. /\ Busy("copy") /\ UNCHANGED <<file, context, frozen>>
        /\ Complete([op |-> "read", from |-> running.from,
                     length |-> running.length])
    BY <1>6 DEF CopyDone, Busy
  <2>2. running.from \in Word /\ running.length \in 1..MaxTransfer
    BY <2>1 DEF Busy, Safe, TypeOK, Request
  <2>3. Phase = "open"
    BY <2>1 DEF Safe, Holds, Backed, SessionOpen, Phase
  <2>4. Session!Inside(frozen, running.from, running.length)
    BY <2>1 DEF Safe, CopyInRun, Session!Inside
  <2> QED BY <2>1, <2>2, <2>3, <2>4, AnswersRefine
<1>7. CASE SnapshotLive
  <2>1. CASE Complete(Refused)
    BY <1>7, <2>1, AnswersRefine DEF SnapshotLive
  <2>2. CASE UNCHANGED answer
    BY <1>7, <2>2 DEF SnapshotLive, context, SessionOpen, Session!sessionVars
  <2> QED BY <1>7, <2>1, <2>2 DEF SnapshotLive
<1>8. CASE CompareRanges
  <2>1. /\ Phase = "open" /\ ranges = frozen /\ running.current \in Tables
    BY <1>8 DEF CompareRanges, Safe, Holds, Backed, Busy, SessionOpen, Phase,
       TypeOK, Request
  <2>2. Phase' = "over" /\ frozen' = frozen
    BY <1>8, <2>1 DEF CompareRanges, Phase, SessionOpen
  <2>3. answer' = [op |-> "end", changed |-> frozen # running.current,
                   count |-> Len(running.current)]
    BY <1>8, <2>1 DEF CompareRanges, Complete, EndAnswer
  <2> QED BY <2>1, <2>2, <2>3 DEF Session!Next, Session!AnswerEnd, Phase
<1>9. CASE Detach
  <2>1. file = "closing" /\ file' = file /\ ranges' = Null
        /\ UNCHANGED <<frozen, answer>>
    BY <1>9 DEF Detach
  <2> QED BY <2>1 DEF Session!Next, Session!Revoke, Session!sessionVars,
          SessionOpen
<1>10. CASE Release \/ FileClose
  <2>1. ranges = Null /\ ranges' = ranges /\ UNCHANGED <<frozen, answer>>
        /\ file # "closed"
    BY <1>10 DEF Release, FileClose, Safe, Exclusive, Backed, context
  <2> QED BY <1>10, <2>1 DEF Release, FileClose, Session!Next, Session!Close,
          Session!sessionVars, SessionOpen
<1> QED BY <1>1, <1>2, <1>3, <1>4, <1>5, <1>6, <1>7, <1>8, <1>9, <1>10
        DEF Next, Handler, Cleanup

(* The driver implements MemorySession: whatever requests are pending when *)
(* a handle is closed and however memory changes, the holder is answered   *)
(* about the table of the moment it opened the device, and ends it once.   *)
THEOREM SessionRefinement == Spec => KeepsSessionPromise
<1>1. Init => Session!Init
  BY DEF Init, Session!Init
<1>2. Safe /\ Safe' /\ [Next]_vars => [Session!Next]_Session!sessionVars
  BY StepRefines
<1> QED BY <1>1, <1>2, SafeAlways, PTL
        DEF Spec, KeepsSessionPromise, Session!Spec
=============================================================================
