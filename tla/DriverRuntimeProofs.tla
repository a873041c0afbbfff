------------------------ MODULE DriverRuntimeProofs ------------------------
(***************************************************************************)
(* What DriverRuntime leaves behind and what its exit code says, for any   *)
(* number of processes and runs.                                           *)
(***************************************************************************)
EXTENDS DriverRuntime, TLAPS

(* The loop of StopServiceIfRunning, and the code that has the device.     *)
Loop == {"query", "control", "wait", "delete"}
WithDevice == {"reset", "capture", "finish", "inspect", "close"}

(* Before CreateServiceW: where no record can be that of this run.         *)
BeforeCreate(p) ==
  \/ pc[p] \in {"extract", "fill", "remove", "probe", "sleep", "create"}
  \/ pc[p] \in Loop /\ caller[p] = "remove"

Absent(r) == service = Gone \/ service.image # r
Halted(r) == Absent(r) \/ service.state = "stopped"
Deleted(r) == Absent(r) \/ (service.marked /\ service.state = "stopped")

RecordTyped ==
  /\ service \in Record \cup {Gone}
  /\ service # Gone => service.image \in 0..runs

RunsTyped ==
  /\ files \subseteq 1..runs /\ runs \in 0..MaxRuns
  /\ run \in [Process -> 0..runs]
  /\ found \in [Process -> 0..runs]

MemoryTyped ==
  /\ pc \in [Process -> Places]
  /\ caller \in [Process -> {"none", "remove", "undo", "stop"}]
  /\ outcome \in [Process -> {"none", "complete", "incomplete", "inspected",
                               "changed", "unfinished"}]
  /\ command \in [Process -> {"none", "capture", "dryRun"}]
  /\ exitCode \in [Process -> {StillActive, 0, 1, 2}]
  /\ cleanup \in [Process -> {"success", "error"}]
  /\ timedOut \in [Process -> BOOLEAN] /\ asked \in [Process -> BOOLEAN]
  /\ cancelled \in [Process -> BOOLEAN] /\ probes \in [Process -> 0..Attempts]
  /\ \A p \in Process :
       /\ pc[p] \in Loop => caller[p] # "none"
       /\ pc[p] = "probe" => probes[p] < Attempts
       /\ pc[p] \notin {"probe", "sleep"} => probes[p] = 0

Typed == RecordTyped /\ RunsTyped /\ MemoryTyped

Held ==
  /\ handles = {p \in Process : pc[p] \in WithHandle}
  /\ handles # {} => service # Gone
  /\ holder = {p \in Process : pc[p] \in WithDevice}

(* A run has one process, and its record is its own. *)
Numbered(p) ==
  /\ pc[p] # "idle" \/ outcome[p] # "none" => run[p] # 0
  /\ \A q \in Process : run[p] = run[q] /\ run[p] # 0 => p = q
  /\ BeforeCreate(p) => Absent(run[p])
  /\ BeforeCreate(p) => \A q \in Process : found[q] # run[p]
  /\ pc[p] = "start" => service.image = run[p]
  /\ pc[p] = "create" => Absent(found[p])

(* How far a run has come in cleaning up. *)
AfterUse(p) ==
  \/ pc[p] \in {"close", "stop", "deleteFile", "exit", "idle"}
  \/ pc[p] \in Loop /\ caller[p] = "stop"

Cleaning(p) ==
  /\ outcome[p] # "none" => AfterUse(p)
  /\ pc[p] = "delete" /\ caller[p] = "stop" => Halted(run[p])
  /\ /\ \/ pc[p] = "deleteFile"
        \/ pc[p] \in {"exit", "idle"} /\ outcome[p] # "none"
     /\ cleanup[p] = "success" /\ ~timedOut[p]
     => Deleted(run[p])
  /\ /\ pc[p] \in {"exit", "idle"} /\ outcome[p] # "none"
     /\ cleanup[p] = "success"
     => run[p] \notin files
  /\ exitCode[p] # StillActive => pc[p] = "idle" /\ exitCode[p] = ExitCode(p)

Lifecycle ==
  /\ Typed /\ Held
  /\ \A p \in Process : Numbered(p) /\ Cleaning(p)

(* What a step of p may do to the record.                                  *)
Moved ==
  \/ service' \in {service, Gone}
  \/ /\ service # Gone /\ service' \in Record
     /\ service'.image = service.image
     /\ service.marked => service'.marked
     /\ service.state = "stopped" => service'.state = "stopped"

Created(p) ==
  /\ pc[p] = "create" /\ service = Gone
  /\ service' \in Record /\ service'.image = run[p]

Started(p) ==
  /\ pc[p] = "start" /\ service # Gone /\ ~service.marked
  /\ service' \in Record /\ service'.image = service.image

ServiceMoves(p) == Moved \/ Created(p) \/ Started(p)

(* What it leaves alone.                                                   *)
Still(q) ==
  /\ pc'[q] = pc[q] /\ run'[q] = run[q] /\ caller'[q] = caller[q]
  /\ outcome'[q] = outcome[q] /\ cleanup'[q] = cleanup[q]
  /\ timedOut'[q] = timedOut[q] /\ exitCode'[q] = exitCode[q]
  /\ found'[q] = found[q]

(* A record is created or started by a process whose run is not r.         *)
ByAnother(r) ==
  \E p \in Process :
    /\ run[p] # r
    /\ Created(p) \/ Started(p)
    /\ pc[p] = "start" => service.image = run[p]

(* Runs are numbered as they begin, and a record is found as it is.        *)
RunsMove(p) ==
  /\ files' \subseteq files \cup ({run[p]} \ {0})
  /\ runs' \in {runs, runs + 1} /\ runs' <= MaxRuns
  /\ run' = [run EXCEPT ![p] = IF runs' = runs THEN run[p] ELSE runs']
  /\ found' = [found EXCEPT ![p] = found'[p]]
  /\ \/ found'[p] \in {found[p], 0}
     \/ service # Gone /\ found'[p] = service.image

Move(p) == Launch(p) \/ Step(p) \/ Cancel(p) \/ Kill(p)

(* The steps of StopServiceIfRunning: where they lead to, what they say of *)
(* the record there, and what they leave of it.                            *)
StopStep(p) ==
  /\ pc[p] \in {"query", "control", "wait"}
  /\ UNCHANGED <<holder, files, memory, runs, run, caller, found>>
  /\ \E label \in {"control", "wait", "delete", "discard", "deleteFile"},
        e \in {"success", "error"}, t \in BOOLEAN :
       /\ Goto(p, label)
       /\ cleanup' = [cleanup EXCEPT ![p] = e]
       /\ timedOut' = [timedOut EXCEPT ![p] = t]
       /\ label = "delete" => service.state = "stopped" \/ caller[p] = "undo"
       /\ label = "discard" => caller[p] = "remove"
       /\ label = "deleteFile" => caller[p] = "stop" /\ (e = "error" \/ t)
       /\ IF label \in {"discard", "deleteFile"}
          THEN CloseHandleAfter(p, service)
          ELSE /\ UNCHANGED handles
               /\ \/ UNCHANGED service
                  \/ /\ label # "delete" /\ service.state = "running"
                     /\ service' = [service EXCEPT !.state = "stopping"]

---------------------------------------------------------------------------
(* A stop that failed leads on as its caller wants it.                     *)
LEMMA NotStoppedIsStopStep ==
  ASSUME MemoryTyped, NEW p \in Process,
         pc[p] \in {"query", "control", "wait"},
         NEW errors \in SUBSET {"success", "error"}, NotStopped(p, errors),
         UNCHANGED <<memory, runs, run, caller, found>>,
         \/ UNCHANGED timedOut /\ errors = {"error"}
         \/ timedOut' = [timedOut EXCEPT ![p] = TRUE]
  PROVE  StopStep(p)
<1> DEFINE t == timedOut'[p]
<1>1. caller[p] \in {"remove", "undo", "stop"}
  BY DEF MemoryTyped, Loop
<1>2. /\ timedOut' = [timedOut EXCEPT ![p] = t] /\ t \in BOOLEAN
      /\ errors = {"error"} \/ t
  BY ZenonT(30) DEF MemoryTyped
<1> HIDE DEF t
<1>3. CASE caller[p] = "undo"
  <2>1. /\ Goto(p, "delete") /\ UNCHANGED <<service, handles, holder, files>>
        /\ cleanup' = [cleanup EXCEPT ![p] = cleanup[p]]
        /\ cleanup[p] \in {"success", "error"}
    BY <1>3 DEF NotStopped, MemoryTyped
  <2> QED BY <1>2, <1>3, <2>1 DEF StopStep
<1>4. CASE caller[p] = "remove"
  <2>1. /\ Goto(p, "discard") /\ UNCHANGED <<holder, files>>
        /\ CloseHandleAfter(p, service)
        /\ cleanup' = [cleanup EXCEPT ![p] = cleanup[p]]
        /\ cleanup[p] \in {"success", "error"}
    BY <1>4 DEF NotStopped, MemoryTyped
  <2> QED BY <1>2, <1>4, <2>1 DEF StopStep
<1>5. CASE caller[p] = "stop"
  <2>1. /\ Goto(p, "deleteFile") /\ UNCHANGED <<holder, files>>
        /\ CloseHandleAfter(p, service)
    BY <1>5 DEF NotStopped
  <2>2. PICK x \in errors : cleanup' = [cleanup EXCEPT ![p] = x]
    BY <1>5 DEF NotStopped
  <2>3. x \in {"success", "error"} /\ (x = "error" \/ t)
    BY <1>2, <2>2
  <2> QED BY <1>2, <1>5, <2>1, <2>2, <2>3 DEF StopStep
<1> QED BY <1>1, <1>3, <1>4, <1>5

(* QueryStatus, Control and WaitStopped are such steps.                    *)
LEMMA StoppingSteps ==
  ASSUME MemoryTyped, NEW p \in Process,
         QueryStatus(p) \/ Control(p) \/ WaitStopped(p)
  PROVE  StopStep(p)
<1>1. /\ cleanup = [cleanup EXCEPT ![p] = cleanup[p]]
      /\ timedOut = [timedOut EXCEPT ![p] = timedOut[p]]
      /\ cleanup[p] \in {"success", "error"} /\ timedOut[p] \in BOOLEAN
  BY DEF MemoryTyped
<1>2. /\ pc[p] \in {"query", "control", "wait"}
      /\ UNCHANGED <<memory, runs, run, caller, found>>
  BY DEF QueryStatus, Control, WaitStopped
<1>3. CASE /\ NotStopped(p, {"error"}) /\ UNCHANGED timedOut
  BY <1>2, <1>3, NotStoppedIsStopStep
<1>4. CASE /\ NotStopped(p, {"success", "error"})
           /\ timedOut' = [timedOut EXCEPT ![p] = TRUE]
  BY <1>2, <1>4, NotStoppedIsStopStep
<1>5. CASE /\ UNCHANGED <<holder, files, cleanup, timedOut>>
           /\ UNCHANGED handles
           /\ \E label \in {"control", "wait", "delete"} :
                /\ Goto(p, label)
                /\ label = "delete" => service.state = "stopped"
                /\ \/ UNCHANGED service
                   \/ /\ label # "delete" /\ service.state = "running"
                      /\ service' = [service EXCEPT !.state = "stopping"]
  BY <1>1, <1>2, <1>5 DEF StopStep
<1>6. QueryStatus(p) \/ Control(p) \/ WaitStopped(p)
  OBVIOUS
<1> QED
  BY <1>3, <1>4, <1>5, <1>6
  DEF QueryStatus, Control, WaitStopped, Stopped, system

(* The memory of the processes keeps its types.                            *)
LEMMA MemoryStep ==
  ASSUME MemoryTyped, NEW p \in Process, Move(p)
  PROVE  MemoryTyped'
<1> USE RuntimeAssumption
    DEF MemoryTyped, Places, Loop, StillActive, ExitCode,
             Goto, Stopping, MarkAndClose, Return, Ended, Forgotten,
             CloseHandleAfter, OpenHandle, Kept, vars, system, memory
<1>1. CASE Launch(p)
  BY <1>1 DEF Launch
<1>2. CASE Extract(p)
  BY <1>2 DEF Extract
<1>3. CASE Fill(p)
  BY <1>3 DEF Fill
<1>4. CASE Remove(p)
  BY <1>4 DEF Remove
<1>5. CASE Probe(p) \/ Sleep(p)
  BY <1>5 DEF Probe, Sleep, WakesUp
<1>6. CASE Create(p)
  BY <1>6 DEF Create
<1>7. CASE Start(p)
  BY <1>7 DEF Start
<1>8. CASE WaitRunning(p)
  BY <1>8 DEF WaitRunning
<1>9. CASE Discard(p)
  BY <1>9 DEF Discard
<1>10. CASE OpenDevice(p)
  BY <1>10 DEF OpenDevice
<1>11. CASE Reset(p)
  BY <1>11 DEF Reset
<1>12. CASE Capture(p)
  BY <1>12 DEF Capture
<1>13. CASE FinishCapture(p)
  BY <1>13 DEF FinishCapture
<1>14. CASE Inspect(p)
  BY <1>14 DEF Inspect
<1>15. CASE CloseDevice(p)
  BY <1>15 DEF CloseDevice
<1>16. CASE Stop(p)
  BY <1>16 DEF Stop
<1>17. CASE StopStep(p)
  BY <1>17 DEF StopStep
<1>18. CASE DeleteRecord(p)
  BY <1>18 DEF DeleteRecord
<1>19. CASE DeleteFile(p)
  BY <1>19 DEF DeleteFile
<1>20. CASE Exit(p)
  BY <1>20 DEF Exit
<1>21. CASE Cancel(p)
  BY <1>21 DEF Cancel
<1>22. CASE Kill(p)
  BY <1>22 DEF Kill
<1> QED
  BY <1>1, <1>2, <1>3, <1>4, <1>5, <1>6, <1>7, <1>8, <1>9,
     <1>10, <1>11, <1>12, <1>13, <1>14, <1>15, <1>16,
     <1>17, <1>18, <1>19, <1>20, <1>21, <1>22, StoppingSteps DEF Move, Step

(* Only CreateServiceW and StartServiceW do more than mark, stop or remove a *)
(* record, and none with a handle to it goes away.                         *)
LEMMA ServiceStep ==
  ASSUME RecordTyped, Held, RunsTyped, MemoryTyped, NEW p \in Process, Move(p),
         pc[p] # "idle" => run[p] # 0
  PROVE  ServiceMoves(p) /\ (handles' # {} => service' # Gone)
<1> USE RuntimeAssumption, GoneAssumption
    DEF RecordTyped, Held, RunsTyped, WithHandle, Record,
             ServiceMoves, Moved, Created, Started,
             Goto, Stopping, MarkAndClose, Return, Ended, Forgotten,
             CloseHandleAfter, OpenHandle, Kept, vars, system, memory
<1>1. CASE Launch(p)
  BY <1>1 DEF Launch
<1>2. CASE Extract(p)
  BY <1>2 DEF Extract
<1>3. CASE Fill(p)
  BY <1>3 DEF Fill
<1>4. CASE Remove(p)
  BY <1>4 DEF Remove
<1>5. CASE Probe(p) \/ Sleep(p)
  BY <1>5 DEF Probe, Sleep, WakesUp
<1>6. CASE Create(p)
  <2>1. pc[p] = "create" /\ run[p] \in 1..MaxRuns
    BY <1>6 DEF Create
  <2>2. CASE /\ service = Gone
             /\ service' = [image |-> run[p], state |-> "stopped",
                            marked |-> FALSE]
    <3>1. service' \in Record /\ service'.image = run[p]
      BY <2>1, <2>2
    <3> QED BY <2>1, <2>2, <3>1
  <2>3. CASE service' = service /\ handles' = handles
    BY <2>3
  <2> QED BY <1>6, <2>2, <2>3 DEF Create
<1>7. CASE Start(p)
  BY <1>7 DEF Start
<1>8. CASE WaitRunning(p)
  BY <1>8 DEF WaitRunning
<1>9. CASE Discard(p)
  BY <1>9 DEF Discard
<1>10. CASE OpenDevice(p)
  BY <1>10 DEF OpenDevice
<1>11. CASE Reset(p)
  BY <1>11 DEF Reset
<1>12. CASE Capture(p)
  BY <1>12 DEF Capture
<1>13. CASE FinishCapture(p)
  BY <1>13 DEF FinishCapture
<1>14. CASE Inspect(p)
  BY <1>14 DEF Inspect
<1>15. CASE CloseDevice(p)
  BY <1>15 DEF CloseDevice
<1>16. CASE Stop(p)
  BY <1>16 DEF Stop
<1>17. CASE StopStep(p)
  BY <1>17 DEF StopStep
<1>18. CASE DeleteRecord(p)
  <2>1. PICK r \in {service, [service EXCEPT !.marked = TRUE]} :
          CloseHandleAfter(p, r)
    BY <1>18 DEF DeleteRecord
  <2>2. service \in Record /\ service # Gone
    BY <1>18 DEF DeleteRecord
  <2>3. /\ r \in Record /\ r.image = service.image /\ r.state = service.state
        /\ service.marked => r.marked
    BY <2>2
  <2>4. \/ service' = Gone /\ handles' = {}
        \/ service' = r
    BY <2>1
  <2> HIDE DEF Record
  <2> QED BY <2>2, <2>3, <2>4
<1>19. CASE DeleteFile(p)
  BY <1>19 DEF DeleteFile
<1>20. CASE Exit(p)
  BY <1>20 DEF Exit
<1>21. CASE Cancel(p)
  BY <1>21 DEF Cancel
<1>22. CASE Kill(p)
  BY <1>22 DEF Kill
<1> QED
  BY <1>1, <1>2, <1>3, <1>4, <1>5, <1>6, <1>7, <1>8, <1>9,
     <1>10, <1>11, <1>12, <1>13, <1>14, <1>15, <1>16,
     <1>17, <1>18, <1>19, <1>20, <1>21, <1>22, StoppingSteps DEF Move, Step

(* A step to a label takes or gives up the handles that go with it.        *)
LEMMA HandlesMove ==
  ASSUME MemoryTyped, Held, NEW p \in Process, NEW label, Goto(p, label),
         handles' = IF label \in WithHandle THEN handles \cup {p}
                                            ELSE handles \ {p},
         holder' = IF label \in WithDevice THEN holder \cup {p}
                                           ELSE holder \ {p}
  PROVE  /\ handles' = {q \in Process : pc'[q] \in WithHandle}
         /\ holder' = {q \in Process : pc'[q] \in WithDevice}
<1>1. \A q \in Process : pc'[q] = IF q = p THEN label ELSE pc[q]
  BY DEF Goto, MemoryTyped
<1> QED BY <1>1 DEF Held

(* Handles and the device are held just where the code holds them.         *)
LEMMA HandlesStep ==
  ASSUME MemoryTyped, Held, NEW p \in Process, Move(p)
  PROVE  /\ handles' = {q \in Process : pc'[q] \in WithHandle}
         /\ holder' = {q \in Process : pc'[q] \in WithDevice}
<1> USE GoneAssumption
    DEF MemoryTyped, Held, WithHandle, WithDevice,
             Goto, Stopping, MarkAndClose, Return, Ended, Forgotten,
             CloseHandleAfter, OpenHandle, Kept, vars, system, memory
<1>1. CASE Launch(p)
  BY <1>1 DEF Launch
<1>2. CASE Extract(p)
  BY <1>2 DEF Extract
<1>3. CASE Fill(p)
  BY <1>3 DEF Fill
<1>4. CASE Remove(p)
  BY <1>4 DEF Remove
<1>5. CASE Probe(p) \/ Sleep(p)
  BY <1>5 DEF Probe, Sleep, WakesUp
<1>6. CASE Create(p)
  <2>1. CASE Goto(p, "start") /\ handles' = handles \cup {p}
    BY <1>6, <2>1, HandlesMove DEF Create
  <2>2. CASE Goto(p, "discard") /\ handles' = handles
    BY <1>6, <2>2, HandlesMove DEF Create
  <2> QED BY <1>6, <2>1, <2>2 DEF Create
<1>7. CASE Start(p)
  <2>1. PICK label \in {"waitRunning", "query"} : Goto(p, label)
    BY <1>7 DEF Start
  <2>2. pc[p] = "start" /\ UNCHANGED <<handles, holder>>
    BY <1>7 DEF Start
  <2> QED BY <2>1, <2>2, HandlesMove
<1>8. CASE WaitRunning(p)
  BY <1>8 DEF WaitRunning
<1>9. CASE Discard(p)
  BY <1>9 DEF Discard
<1>10. CASE OpenDevice(p)
  BY <1>10 DEF OpenDevice
<1>11. CASE Reset(p)
  BY <1>11 DEF Reset
<1>12. CASE Capture(p)
  BY <1>12 DEF Capture
<1>13. CASE FinishCapture(p)
  BY <1>13 DEF FinishCapture
<1>14. CASE Inspect(p)
  BY <1>14 DEF Inspect
<1>15. CASE CloseDevice(p)
  BY <1>15 DEF CloseDevice
<1>16. CASE Stop(p)
  BY <1>16 DEF Stop
<1>17. CASE StopStep(p)
  <2>1. PICK label \in {"control", "wait", "delete", "discard", "deleteFile"} :
          /\ Goto(p, label)
          /\ IF label \in {"discard", "deleteFile"}
             THEN CloseHandleAfter(p, service)
             ELSE UNCHANGED handles
    BY <1>17 DEF StopStep
  <2>2. pc[p] \in {"query", "control", "wait"} /\ holder' = holder
    BY <1>17 DEF StopStep
  <2>3. p \in handles /\ service # Gone
    BY <2>2
  <2>4. handles' = IF label \in WithHandle THEN handles \cup {p}
                                          ELSE handles \ {p}
    BY <2>1, <2>3
  <2> QED BY <2>1, <2>2, <2>4, HandlesMove
<1>18. CASE DeleteRecord(p)
  <2>1. PICK label \in {"probe", "discard", "deleteFile"} : Goto(p, label)
    BY <1>18 DEF DeleteRecord, Loop
  <2>2. handles' = handles \ {p} /\ holder' = holder /\ pc[p] = "delete"
    BY <1>18 DEF DeleteRecord
  <2> QED BY <2>1, <2>2, HandlesMove
<1>19. CASE DeleteFile(p)
  BY <1>19 DEF DeleteFile
<1>20. CASE Exit(p)
  BY <1>20 DEF Exit
<1>21. CASE Cancel(p)
  BY <1>21 DEF Cancel
<1>22. CASE Kill(p)
  BY <1>22 DEF Kill
<1> QED
  BY <1>1, <1>2, <1>3, <1>4, <1>5, <1>6, <1>7, <1>8, <1>9,
     <1>10, <1>11, <1>12, <1>13, <1>14, <1>15, <1>16,
     <1>17, <1>18, <1>19, <1>20, <1>21, <1>22, StoppingSteps DEF Move, Step

(* A step of p leaves what belongs to other processes alone.               *)
LEMMA OthersStep ==
  ASSUME MemoryTyped, RunsTyped, NEW p \in Process, Move(p)
  PROVE  \A q \in Process \ {p} : Still(q)
<1> USE DEF MemoryTyped, RunsTyped, Still, Goto, Stopping, MarkAndClose,
             Return, Ended, Forgotten, CloseHandleAfter, OpenHandle, Kept,
             vars, system, memory
<1>1. CASE Launch(p)
  BY <1>1 DEF Launch
<1>2. CASE Extract(p)
  BY <1>2 DEF Extract
<1>3. CASE Fill(p)
  BY <1>3 DEF Fill
<1>4. CASE Remove(p)
  BY <1>4 DEF Remove
<1>5. CASE Probe(p) \/ Sleep(p)
  BY <1>5 DEF Probe, Sleep, WakesUp
<1>6. CASE Create(p)
  BY <1>6 DEF Create
<1>7. CASE Start(p)
  BY <1>7 DEF Start
<1>8. CASE WaitRunning(p)
  BY <1>8 DEF WaitRunning
<1>9. CASE Discard(p)
  BY <1>9 DEF Discard
<1>10. CASE OpenDevice(p)
  BY <1>10 DEF OpenDevice
<1>11. CASE Reset(p)
  BY <1>11 DEF Reset
<1>12. CASE Capture(p)
  BY <1>12 DEF Capture
<1>13. CASE FinishCapture(p)
  BY <1>13 DEF FinishCapture
<1>14. CASE Inspect(p)
  BY <1>14 DEF Inspect
<1>15. CASE CloseDevice(p)
  BY <1>15 DEF CloseDevice
<1>16. CASE Stop(p)
  BY <1>16 DEF Stop
<1>17. CASE StopStep(p)
  BY <1>17 DEF StopStep
<1>18. CASE DeleteRecord(p)
  BY <1>18 DEF DeleteRecord
<1>19. CASE DeleteFile(p)
  BY <1>19 DEF DeleteFile
<1>20. CASE Exit(p)
  BY <1>20 DEF Exit
<1>21. CASE Cancel(p)
  BY <1>21 DEF Cancel
<1>22. CASE Kill(p)
  BY <1>22 DEF Kill
<1> QED
  BY <1>1, <1>2, <1>3, <1>4, <1>5, <1>6, <1>7, <1>8, <1>9,
     <1>10, <1>11, <1>12, <1>13, <1>14, <1>15, <1>16,
     <1>17, <1>18, <1>19, <1>20, <1>21, <1>22, StoppingSteps DEF Move, Step

(* Only Launch begins a run, only Extract adds a file, only Remove finds.  *)
LEMMA RunsStep ==
  ASSUME MemoryTyped, RunsTyped, NEW p \in Process, Move(p),
         pc[p] # "idle" => run[p] # 0
  PROVE  RunsMove(p)
<1> USE RuntimeAssumption
    DEF MemoryTyped, RunsTyped, RunsMove, Goto, Stopping, MarkAndClose,
        Return, Ended, Forgotten, CloseHandleAfter, OpenHandle, Kept,
        vars, system, memory
<1>1. CASE Launch(p)
  <2>1. /\ runs < MaxRuns /\ runs' = runs + 1
        /\ run' = [run EXCEPT ![p] = runs + 1]
        /\ files' = files /\ found' = found
    BY <1>1 DEF Launch
  <2>2. /\ runs' \in {runs, runs + 1} /\ runs' <= MaxRuns /\ runs' # runs
    BY <2>1
  <2> QED BY <2>1, <2>2
<1>2. CASE Extract(p)
  BY <1>2 DEF Extract
<1>3. CASE Fill(p)
  BY <1>3 DEF Fill
<1>4. CASE Remove(p)
  BY <1>4 DEF Remove
<1>5. CASE Probe(p) \/ Sleep(p)
  BY <1>5 DEF Probe, Sleep, WakesUp
<1>6. CASE Create(p)
  BY <1>6 DEF Create
<1>7. CASE Start(p)
  BY <1>7 DEF Start
<1>8. CASE WaitRunning(p)
  BY <1>8 DEF WaitRunning
<1>9. CASE Discard(p)
  BY <1>9 DEF Discard
<1>10. CASE OpenDevice(p)
  BY <1>10 DEF OpenDevice
<1>11. CASE Reset(p)
  BY <1>11 DEF Reset
<1>12. CASE Capture(p)
  BY <1>12 DEF Capture
<1>13. CASE FinishCapture(p)
  BY <1>13 DEF FinishCapture
<1>14. CASE Inspect(p)
  BY <1>14 DEF Inspect
<1>15. CASE CloseDevice(p)
  BY <1>15 DEF CloseDevice
<1>16. CASE Stop(p)
  BY <1>16 DEF Stop
<1>17. CASE StopStep(p)
  BY <1>17 DEF StopStep
<1>18. CASE DeleteRecord(p)
  BY <1>18 DEF DeleteRecord
<1>19. CASE DeleteFile(p)
  BY <1>19 DEF DeleteFile
<1>20. CASE Exit(p)
  BY <1>20 DEF Exit
<1>21. CASE Cancel(p)
  BY <1>21 DEF Cancel
<1>22. CASE Kill(p)
  BY <1>22 DEF Kill
<1> QED
  BY <1>1, <1>2, <1>3, <1>4, <1>5, <1>6, <1>7, <1>8, <1>9,
     <1>10, <1>11, <1>12, <1>13, <1>14, <1>15, <1>16,
     <1>17, <1>18, <1>19, <1>20, <1>21, <1>22, StoppingSteps DEF Move, Step

(* So the numbers of runs keep their types.                                *)
LEMMA RunsTypedStep ==
  ASSUME RecordTyped, RunsTyped, NEW p \in Process, RunsMove(p)
  PROVE  RunsTyped'
<1>1. files' \subseteq 1..runs'
  BY DEF RunsTyped, RunsMove
<1>2. runs' \in 0..MaxRuns /\ run' \in [Process -> 0..runs']
  BY RuntimeAssumption DEF RunsTyped, RunsMove
<1>3. found'[p] \in 0..runs'
  BY DEF RecordTyped, RunsTyped, RunsMove
<1>4. found' \in [Process -> 0..runs']
  BY <1>3 DEF RunsTyped, RunsMove
<1> QED BY <1>1, <1>2, <1>4 DEF RunsTyped

(* What is true of the record of a run in every step stays true unless the *)
(* run itself creates or starts it.                                        *)
LEMMA RecordStands ==
  ASSUME RecordTyped, NEW r,
         \/ Moved
         \/ ByAnother(r)
  PROVE  /\ Absent(r) => Absent(r)'
         /\ Halted(r) => Halted(r)'
         /\ Deleted(r) => Deleted(r)'
<1> USE DEF Absent, Halted, Deleted
<1>1. CASE UNCHANGED service \/ service' = Gone
  BY <1>1
<1>2. CASE /\ service # Gone /\ service' \in Record
           /\ service'.image = service.image
           /\ service.marked => service'.marked
           /\ service.state = "stopped" => service'.state = "stopped"
  BY <1>2
<1>3. ASSUME NEW p \in Process, run[p] # r, Created(p) \/ Started(p),
             pc[p] = "start" => service.image = run[p]
      PROVE  Absent(r)'
  BY <1>3 DEF Created, Started
<1>4. CASE Moved
  BY <1>1, <1>2, <1>4 DEF Moved
<1>5. CASE ByAnother(r)
  <2>1. PICK p \in Process : /\ run[p] # r
                             /\ Created(p) \/ Started(p)
                             /\ pc[p] = "start" => service.image = run[p]
    BY <1>5 DEF ByAnother
  <2>2. Absent(r)'
    BY <2>1, <1>3, SMTT(30)
  <2> QED BY <2>2
<1> QED BY <1>4, <1>5

(* What a step of p does to its own standing.                              *)
LEMMA OwnStep ==
  ASSUME Typed, Held, NEW p \in Process, Numbered(p), Cleaning(p), Move(p)
  PROVE  /\ pc'[p] # "idle" \/ outcome'[p] # "none" => run'[p] # 0
         /\ BeforeCreate(p)' => Absent(run[p])'
         /\ pc'[p] = "start" => service'.image = run'[p]
         /\ pc'[p] = "create" => Absent(found[p])'
         /\ Cleaning(p)'
         /\ BeforeCreate(p)' => BeforeCreate(p) \/ runs' # runs
<1> USE GoneAssumption
    DEF Typed, RecordTyped, RunsTyped, MemoryTyped, Held, Numbered, Cleaning,
        BeforeCreate, Absent, Halted, Deleted, AfterUse, Loop,
        Record, ExitCode, WithHandle, StillActive, Loaded, Goto, Stopping,
        MarkAndClose, Return, Ended, Forgotten, CloseHandleAfter, OpenHandle,
        Kept, vars, system, memory
<1>1. CASE Launch(p)
  BY <1>1 DEF Launch
<1>2. CASE Extract(p)
  BY <1>2 DEF Extract
<1>3. CASE Fill(p)
  BY <1>3 DEF Fill
<1>4. CASE Remove(p)
  BY <1>4 DEF Remove
<1>5. CASE Probe(p) \/ Sleep(p)
  BY <1>5 DEF Probe, Sleep, WakesUp
<1>6. CASE Create(p)
  BY <1>6 DEF Create
<1>7. CASE Start(p)
  BY <1>7 DEF Start
<1>8. CASE WaitRunning(p)
  BY <1>8 DEF WaitRunning
<1>9. CASE Discard(p)
  BY <1>9 DEF Discard
<1>10. CASE OpenDevice(p)
  BY <1>10 DEF OpenDevice
<1>11. CASE Reset(p)
  BY <1>11 DEF Reset
<1>12. CASE Capture(p)
  BY <1>12 DEF Capture
<1>13. CASE FinishCapture(p)
  BY <1>13 DEF FinishCapture
<1>14. CASE Inspect(p)
  BY <1>14 DEF Inspect
<1>15. CASE CloseDevice(p)
  BY <1>15 DEF CloseDevice
<1>16. CASE Stop(p)
  BY <1>16 DEF Stop
<1>17. CASE StopStep(p)
  BY <1>17 DEF StopStep
<1>18. CASE DeleteRecord(p)
  BY <1>18 DEF DeleteRecord
<1>19. CASE DeleteFile(p)
  BY <1>19 DEF DeleteFile
<1>20. CASE Exit(p)
  BY <1>20 DEF Exit
<1>21. CASE Cancel(p)
  BY <1>21 DEF Cancel
<1>22. CASE Kill(p)
  BY <1>22 DEF Kill
<1> QED
  BY <1>1, <1>2, <1>3, <1>4, <1>5, <1>6, <1>7, <1>8, <1>9,
     <1>10, <1>11, <1>12, <1>13, <1>14, <1>15, <1>16,
     <1>17, <1>18, <1>19, <1>20, <1>21, <1>22, StoppingSteps DEF Move, Step

(* What a step of another process does to the standing of p.               *)
LEMMA OthersStand ==
  ASSUME RecordTyped, Held, NEW p \in Process, Numbered(p), Cleaning(p),
         Still(p), handles' # {} => service' # Gone,
         handles' = {q \in Process : pc'[q] \in WithHandle},
         \/ Moved
         \/ ByAnother(run[p]),
         run[p] \notin files => run[p] \notin files',
         pc[p] = "create" =>
           \A q \in Process : pc[q] = "create" => run[q] # found[p]
  PROVE  /\ pc'[p] # "idle" \/ outcome'[p] # "none" => run'[p] # 0
         /\ BeforeCreate(p)' => Absent(run[p])'
         /\ pc'[p] = "start" => service'.image = run'[p]
         /\ pc'[p] = "create" => Absent(found[p])'
         /\ Cleaning(p)'
<1>1. /\ Absent(run[p]) => Absent(run[p])'
      /\ Halted(run[p]) => Halted(run[p])'
      /\ Deleted(run[p]) => Deleted(run[p])'
  <2>1. PICK r : r = run[p] /\ r = run'[p]
    BY DEF Still
  <2>2. /\ Absent(r) => Absent(r)'
        /\ Halted(r) => Halted(r)'
        /\ Deleted(r) => Deleted(r)'
    BY <2>1, RecordStands
  <2> QED BY <2>1, <2>2 DEF Absent, Halted, Deleted
<1>2. /\ BeforeCreate(p)' <=> BeforeCreate(p)
      /\ AfterUse(p)' <=> AfterUse(p)
      /\ ExitCode(p)' = ExitCode(p)
  BY DEF Still, BeforeCreate, AfterUse, ExitCode
<1>3. pc'[p] # "idle" \/ outcome'[p] # "none" => run'[p] # 0
  BY DEF Still, Numbered
<1>4. BeforeCreate(p)' => Absent(run[p])'
  BY <1>1, <1>2 DEF Numbered
<1>5. pc'[p] = "start" => service'.image = run'[p]
  <2>1. SUFFICES ASSUME pc[p] = "start"
                 PROVE  service'.image = run[p]
    BY DEF Still
  <2>2. p \in handles /\ p \in handles'
    BY <2>1 DEF Held, WithHandle, Still
  <2>3. service # Gone /\ service' # Gone /\ service.image = run[p]
    BY <2>1, <2>2 DEF Held, Numbered
  <2>4. CASE Moved
    BY <2>3, <2>4 DEF Moved
  <2>5. CASE ByAnother(run[p])
    BY <2>3, <2>5 DEF ByAnother, Created, Started
  <2> QED BY <2>4, <2>5
<1>6. pc'[p] = "create" => Absent(found[p])'
  <2>1. SUFFICES ASSUME pc[p] = "create"
                 PROVE  service' = Gone \/ service'.image # found[p]
    BY DEF Still, Absent
  <2>2. Absent(found[p])
    BY <2>1 DEF Numbered
  <2>3. CASE Moved
    BY <2>2, <2>3 DEF Absent, Moved
  <2>4. CASE ByAnother(run[p])
    BY <2>1, <2>2, <2>4 DEF Absent, ByAnother, Created, Started
  <2> QED BY <2>3, <2>4
<1>7. Cleaning(p)'
  <2>1. run'[p] = run[p] /\ (run[p] \notin files => run[p] \notin files')
    BY DEF Still
  <2> QED BY <1>1, <1>2, <2>1 DEF Still, Cleaning
<1> QED BY <1>3, <1>4, <1>5, <1>6, <1>7

(* A new run has a number that no process and no record has.               *)
LEMMA NumberingStep ==
  ASSUME Typed, \A q \in Process : Numbered(q), NEW p \in Process, RunsMove(p),
         \A q \in Process \ {p} : Still(q),
         pc'[p] # "idle" => run'[p] # 0,
         BeforeCreate(p)' => BeforeCreate(p) \/ runs' # runs
  PROVE  \A q, r \in Process :
           /\ run'[q] = run'[r] /\ run'[q] # 0 => q = r
           /\ BeforeCreate(q)' => found'[r] # run'[q]
<1> SUFFICES ASSUME NEW q \in Process, NEW r \in Process
             PROVE  /\ run'[q] = run'[r] /\ run'[q] # 0 => q = r
                    /\ BeforeCreate(q)' => found'[r] # run'[q]
  OBVIOUS
<1>1. \A x \in Process :
        run'[x] = IF x = p /\ runs' # runs THEN runs' ELSE run[x]
  BY DEF Typed, RunsTyped, RunsMove
<1>2. /\ runs \in Nat
      /\ run \in [Process -> 0..runs] /\ found \in [Process -> 0..runs]
  BY RuntimeAssumption DEF Typed, RunsTyped
<1>3. run'[q] = run'[r] /\ run'[q] # 0 => q = r
  <2>1. \A x, y \in Process : run[x] = run[y] /\ run[x] # 0 => x = y
    BY DEF Numbered
  <2> QED BY <1>1, <1>2, <2>1 DEF RunsMove
<1>4. ASSUME BeforeCreate(q)'
      PROVE  found'[r] # run'[q]
  <2>1. run'[q] # 0
    <3>1. pc'[q] # "idle"
      BY <1>4 DEF BeforeCreate, Loop
    <3> QED BY <3>1 DEF Still, Numbered
  <2>2. CASE BeforeCreate(q) /\ run'[q] = run[q]
    <3>1. Absent(run[q]) /\ found[r] # run[q]
      BY <2>2 DEF Numbered
    <3>2. \/ found'[r] \in {found[r], 0}
          \/ service # Gone /\ found'[r] = service.image
      BY DEF Still, RunsMove
    <3> QED BY <2>1, <2>2, <3>1, <3>2 DEF Absent
  <2>3. CASE run'[q] = runs + 1
    <3>1. \/ found'[r] \in {found[r], 0}
          \/ service # Gone /\ found'[r] = service.image
      BY DEF Still, RunsMove
    <3> QED BY <1>2, <2>3, <3>1 DEF Typed, RecordTyped
  <2>4. BeforeCreate(q) \/ run'[q] = runs + 1
    BY <1>1, <1>2, <1>4 DEF Still, BeforeCreate, RunsMove
  <2> QED BY <1>1, <1>2, <2>2, <2>3, <2>4 DEF RunsMove
<1> QED BY <1>3, <1>4

(* Every step of a process keeps the invariant ...                         *)
LEMMA MoveLifecycle ==
  ASSUME Lifecycle, NEW p \in Process, Move(p)
  PROVE  Lifecycle'
<1>1. Typed /\ Held /\ \A q \in Process : Numbered(q) /\ Cleaning(q)
  BY DEF Lifecycle
<1>2. RecordTyped /\ RunsTyped /\ MemoryTyped
  BY <1>1 DEF Typed
<1>3. pc[p] # "idle" => run[p] # 0
  BY <1>1 DEF Numbered
<1>4. /\ ServiceMoves(p) /\ (handles' # {} => service' # Gone)
      /\ RunsMove(p) /\ \A q \in Process \ {p} : Still(q)
  BY <1>1, <1>2, <1>3, ServiceStep, RunsStep, OthersStep
<1>5. /\ handles' = {q \in Process : pc'[q] \in WithHandle}
      /\ holder' = {q \in Process : pc'[q] \in WithDevice}
  BY <1>1, <1>2, HandlesStep
<1>6. Held'
  BY <1>4, <1>5 DEF Held
<1>7. Typed'
  <2>1. RunsTyped' /\ MemoryTyped'
    BY <1>2, <1>4, RunsTypedStep, MemoryStep
  <2>2. RecordTyped'
    BY <1>1, <1>2, <1>3, <1>4
    DEF RecordTyped, RunsTyped, RunsMove, ServiceMoves, Moved, Created, Started
  <2> QED BY <2>1, <2>2 DEF Typed
<1>8. /\ pc'[p] # "idle" \/ outcome'[p] # "none" => run'[p] # 0
      /\ BeforeCreate(p)' => Absent(run[p])'
      /\ pc'[p] = "start" => service'.image = run'[p]
      /\ pc'[p] = "create" => Absent(found[p])'
      /\ Cleaning(p)'
      /\ BeforeCreate(p)' => BeforeCreate(p) \/ runs' # runs
  BY <1>1, OwnStep
<1>9. ASSUME NEW q \in Process \ {p}
      PROVE  /\ pc'[q] # "idle" \/ outcome'[q] # "none" => run'[q] # 0
             /\ BeforeCreate(q)' => Absent(run[q])'
             /\ pc'[q] = "start" => service'.image = run'[q]
             /\ pc'[q] = "create" => Absent(found[q])'
             /\ Cleaning(q)'
  <2>1. Moved \/ ByAnother(run[q])
    <3>1. CASE Created(p) \/ Started(p)
      <4>1. run[p] # run[q]
        BY <1>1, <1>3, <3>1 DEF Numbered, Created, Started
      <4>2. pc[p] = "start" => service.image = run[p]
        BY <1>1 DEF Numbered
      <4> QED BY <3>1, <4>1, <4>2 DEF ByAnother
    <3> QED BY <1>4, <3>1 DEF ServiceMoves
  <2>2. run[q] \notin files => run[q] \notin files'
    <3>1. run[q] \notin {run[p]} \ {0}
      BY <1>1 DEF Numbered
    <3> QED BY <1>4, <3>1 DEF RunsMove
  <2>3. pc[q] = "create" =>
          \A x \in Process : pc[x] = "create" => run[x] # found[q]
    BY <1>1 DEF Numbered, BeforeCreate
  <2> QED BY <1>1, <1>2, <1>4, <1>5, <2>1, <2>2, <2>3, OthersStand
<1>10. \A q, r \in Process :
         /\ run'[q] = run'[r] /\ run'[q] # 0 => q = r
         /\ BeforeCreate(q)' => found'[r] # run'[q]
  BY <1>1, <1>4, <1>8, NumberingStep
<1>11. \A q \in Process : Numbered(q)' /\ Cleaning(q)'
  BY <1>8, <1>9, <1>10 DEF Numbered
<1> QED BY <1>6, <1>7, <1>11 DEF Lifecycle

(* ... and so does every step of the driver itself ...                     *)
LEMMA DriverLifecycle ==
  ASSUME Lifecycle, DriverStarts \/ DriverUnloads
  PROVE  Lifecycle'
<1>1. /\ UNCHANGED <<handles, holder, files, memory, runs, run, pc, caller,
                     cleanup, found, timedOut>>
      /\ RecordTyped /\ Held /\ service # Gone /\ service \in Record
      /\ \E s \in {"running", "stopped"} :
            /\ service.state # "stopped"
            /\ service' = Kept([service EXCEPT !.state = s], handles)
  BY DEF Lifecycle, Typed, RecordTyped, DriverStarts, DriverUnloads
<1>2. /\ Moved /\ (handles' # {} => service' # Gone)
      /\ RecordTyped'
  BY <1>1, GoneAssumption DEF Moved, RecordTyped, Kept, Record
<1>3. Typed' /\ Held'
  BY <1>1, <1>2
  DEF Lifecycle, Typed, RunsTyped, MemoryTyped, Held, memory
<1>4. ASSUME NEW p \in Process
      PROVE  Numbered(p)' /\ Cleaning(p)'
  <2>1. /\ Numbered(p) /\ Cleaning(p) /\ Still(p)
    BY <1>1 DEF Lifecycle, Still, memory
  <2>2. /\ handles' = {q \in Process : pc'[q] \in WithHandle}
        /\ pc[p] = "create" =>
             \A q \in Process : pc[q] = "create" => run[q] # found[p]
    BY <1>1 DEF Held, Lifecycle, Numbered, BeforeCreate
  <2>3. run[p] \notin files => run[p] \notin files'
    BY <1>1
  <2>4. /\ pc'[p] # "idle" \/ outcome'[p] # "none" => run'[p] # 0
        /\ BeforeCreate(p)' => Absent(run[p])'
        /\ pc'[p] = "start" => service'.image = run'[p]
        /\ pc'[p] = "create" => Absent(found[p])'
        /\ Cleaning(p)'
    BY <1>1, <1>2, <2>1, <2>2, <2>3, OthersStand
  <2> QED BY <1>1, <2>1, <2>4 DEF Numbered, BeforeCreate
<1> QED BY <1>3, <1>4 DEF Lifecycle

(* ... which holds at the start.                                           *)
LEMMA InitLifecycle == Init => Lifecycle
<1> SUFFICES ASSUME Init PROVE Lifecycle
  OBVIOUS
<1>1. Typed
  BY RuntimeAssumption, LeftoverAssumption
  DEF Init, Typed, RecordTyped, RunsTyped, MemoryTyped, Places, Loop
<1>2. Held
  BY DEF Init, Held, WithHandle, WithDevice
<1>3. ASSUME NEW p \in Process
      PROVE  Numbered(p) /\ Cleaning(p)
  BY DEF Init, Numbered, Cleaning, BeforeCreate, Loop, Absent
<1> QED BY <1>1, <1>2, <1>3 DEF Lifecycle

LEMMA LifecycleInvariant == Spec => []Lifecycle
<1>1. Lifecycle /\ [Next]_vars => Lifecycle'
  <2> SUFFICES ASSUME Lifecycle, [Next]_vars PROVE Lifecycle'
    OBVIOUS
  <2>1. CASE UNCHANGED vars
    BY <2>1
    DEF Lifecycle, Typed, RecordTyped, RunsTyped, MemoryTyped, Held, Numbered,
        Cleaning, BeforeCreate, AfterUse, Absent, Halted, Deleted, ExitCode,
        vars, system, memory
  <2>2. CASE Next
    BY <2>2, MoveLifecycle, DriverLifecycle DEF Next, Move
  <2> QED BY <2>1, <2>2
<1> QED BY InitLifecycle, <1>1, PTL DEF Spec

---------------------------------------------------------------------------
(* The variables have their types, a process holds a handle to the service *)
(* just where a ScopedServiceHandle of the code is alive, and the device   *)
(* just between Open and Close.                                            *)
THEOREM TypeCorrect == Spec => []TypeOK
<1>1. Lifecycle => TypeOK
  BY DEF Lifecycle, Typed, RecordTyped, RunsTyped, MemoryTyped, Held, TypeOK,
         WithDevice
<1> QED BY LifecycleInvariant, <1>1, PTL

(* RemoveExistingService: before a record is created, the one that was     *)
(* found has gone, whichever processes use the service.                    *)
THEOREM ReplacesAlways == Spec => []ReplacesWhatItFound
<1>1. Lifecycle => ReplacesWhatItFound
  BY DEF Lifecycle, Numbered, Absent, ReplacesWhatItFound
<1> QED BY LifecycleInvariant, <1>1, PTL

(* DriverRuntime::Stop: a run that reports a clean end has left neither    *)
(* its record nor its driver, whatever other processes and the kernel did, *)
(* unless a wait ran into its deadline.                                    *)
THEOREM CleanAlways == Spec => []CleanUnlessTimedOut
<1>1. Lifecycle => CleanUnlessTimedOut
  BY DEF Lifecycle, Cleaning, CleanUnlessTimedOut, ReportsClean, LeftNothing,
         Deleted, Absent
<1> QED BY LifecycleInvariant, <1>1, PTL

(* RunCapture and RunDryRun: what the exit codes 0, 1 and 2 say.           *)
THEOREM ExitCodeAlways == Spec => []ExitCodeTells
<1>1. Lifecycle => ExitCodeTells
  <2> SUFFICES ASSUME Lifecycle, NEW p \in Process
               PROVE  /\ exitCode[p] \in {0, 2} =>
                           /\ outcome[p] \notin {"none", "unfinished"}
                           /\ LeftNothing(p) \/ timedOut[p]
                      /\ /\ exitCode[p] = 1
                         /\ outcome[p] \in {"complete", "incomplete"}
                         => cleanup[p] = "error"
    BY DEF ExitCodeTells
  <2>1. /\ outcome[p] \in {"none", "complete", "incomplete", "inspected",
                           "changed", "unfinished"}
        /\ cleanup[p] \in {"success", "error"}
        /\ Cleaning(p)
    BY DEF Lifecycle, Typed, MemoryTyped
  <2>2. CASE exitCode[p] \in {0, 2}
    <3>1. /\ pc[p] = "idle" /\ ExitCode(p) \in {0, 2}
      BY <2>1, <2>2 DEF Cleaning, StillActive
    <3>2. outcome[p] \notin {"none", "unfinished"} /\ cleanup[p] = "success"
      BY <2>1, <3>1 DEF ExitCode
    <3>3. ~timedOut[p] => LeftNothing(p)
      BY <2>1, <3>1, <3>2 DEF Cleaning, LeftNothing, Deleted, Absent
    <3> QED BY <2>2, <3>2, <3>3
  <2>3. CASE exitCode[p] = 1 /\ outcome[p] \in {"complete", "incomplete"}
    BY <2>1, <2>3 DEF Cleaning, StillActive, ExitCode
  <2> QED BY <2>2, <2>3
<1> QED BY LifecycleInvariant, <1>1, PTL
=============================================================================
