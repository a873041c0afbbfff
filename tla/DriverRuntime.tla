---------------------------- MODULE DriverRuntime ----------------------------
(***************************************************************************)
(* RunCapture() and RunDryRun() of cli/main.cpp, the DriverRuntime they    *)
(* own (cli/driver_service.cpp, cli/driver_resource.cpp) and the exit code *)
(* they return: the embedded driver is extracted, a service of a fixed     *)
(* name is replaced, started, used, stopped and deleted.                   *)
(*                                                                         *)
(* Any number of processes run this at once, each may be killed anywhere,  *)
(* and all of them share one service record, because it has one name.  The *)
(* Service Control Manager and the kernel are external: a record marked    *)
(* for deletion goes away when it is stopped and no handle to it is left;  *)
(* a driver that was told to stop unloads once its device is closed; the   *)
(* device is exclusive.  Every wait has a deadline, and every call to the  *)
(* system may fail.                                                        *)
(*                                                                         *)
(* The capture is reduced to what CaptureEvidenceToFile returns (see the   *)
(* module EvidenceTransaction), the inspection of a dry run to whether its *)
(* calls succeed.  A run is one execution of either; runs are numbered.    *)
(***************************************************************************)
EXTENDS Naturals

CONSTANTS
  Process,   \* processes that may run at the same time
  MaxRuns,   \* bound: runs of all processes together
  Attempts,  \* probes of a record to be deleted; 50 in the code
  Gone,      \* there is no service of that name
  Leftover,  \* records an earlier run may have left, numbered 0
  Interruptible, \* bound: the processes at which Ctrl+C is pressed
  Killable,      \* bound: the processes that may be killed
  Inspectors     \* bound: the processes that make dry runs, not captures

ASSUME RuntimeAssumption ==
  /\ MaxRuns \in Nat /\ Attempts \in Nat \ {0} /\ Interruptible \subseteq Process
  /\ Killable \subseteq Process /\ Inspectors \subseteq Process

Record == [image : 0..MaxRuns, state : {"stopped", "starting", "running",
                                        "stopping"}, marked : BOOLEAN]

ASSUME GoneAssumption == Gone \notin Record

ASSUME LeftoverAssumption ==
  /\ Leftover \subseteq Record
  /\ \A l \in Leftover : l.image = 0 /\ ~(l.marked /\ l.state = "stopped")

VARIABLES
  service,   \* the service record; image is the run that created it, or 0
  handles,   \* the processes that hold a handle to it
  holder,    \* the processes that have the device open: one at most
  files,     \* the runs whose extracted driver is on disk
  runs,      \* runs begun
  run,       \* process -> its current or last run; 0 before the first
  pc,        \* process -> where it is
  caller,    \* process -> on whose behalf it stops the service
  command,   \* process -> "capture" or "dryRun"; "none" when it has ended
  exitCode,  \* process -> what its last run returned
  cancelled, \* process -> gCancelled
  probes,    \* process -> handles it has opened in WaitUntilServiceIsDeleted
  outcome,   \* process -> how the capture or inspection ended, or "none"
  cleanup,   \* process -> the error DriverRuntime::Stop returns
  found,     \* history: process -> the image of the record it found
  timedOut,  \* history: process -> its last stop of the service timed out
  asked      \* history: process -> Ctrl+C before the last look at gCancelled

system == <<service, handles, holder, files>>
memory == <<command, exitCode, cancelled, probes, outcome, asked>>
vars == <<system, memory, runs, run, pc, caller, cleanup, found, timedOut>>

StillActive == 259

Init ==
  /\ service \in {Gone} \cup Leftover
  /\ handles = {} /\ holder = {} /\ files = {} /\ runs = 0
  /\ run = [p \in Process |-> 0] /\ pc = [p \in Process |-> "idle"]
  /\ caller = [p \in Process |-> "none"]
  /\ cancelled = [p \in Process |-> FALSE]
  /\ probes = [p \in Process |-> 0]
  /\ outcome = [p \in Process |-> "none"]
  /\ command = [p \in Process |-> "none"]
  /\ exitCode = [p \in Process |-> StillActive]
  /\ cleanup = [p \in Process |-> "success"]
  /\ found = [p \in Process |-> 0] /\ timedOut = [p \in Process |-> FALSE]
  /\ asked = [p \in Process |-> FALSE]

Goto(p, label) == pc' = [pc EXCEPT ![p] = label]

---------------------------------------------------------------------------
(* The Service Control Manager and the kernel.                             *)

(* What becomes of a record when its state or its handles have changed. *)
Kept(record, open) ==
  IF record.marked /\ record.state = "stopped" /\ open = {} THEN Gone
                                                            ELSE record

OpenHandle(p) == handles' = handles \cup {p}

CloseHandleAfter(p, record) ==
  /\ handles' = handles \ {p}
  /\ service' = Kept(record, handles \ {p})

Loaded(r) == service # Gone /\ service.image = r /\ service.state # "stopped"

DriverStarts ==
  /\ service # Gone /\ service.state = "starting"
  /\ \E s \in {"running", "stopped"} :
       service' = Kept([service EXCEPT !.state = s], handles)
  /\ UNCHANGED <<handles, holder, files, memory, runs, run, pc, caller,
                 cleanup, found, timedOut>>

DriverUnloads ==
  /\ service # Gone /\ service.state = "stopping" /\ holder = {}
  /\ service' = Kept([service EXCEPT !.state = "stopped"], handles)
  /\ UNCHANGED <<handles, holder, files, memory, runs, run, pc, caller,
                 cleanup, found, timedOut>>

---------------------------------------------------------------------------
(* StopServiceIfRunning, on behalf of RemoveExistingService ("remove"),    *)
(* BestEffortDeleteService ("undo") or StopAndDeleteDriver ("stop").       *)

Stopping(p, who) ==
  /\ Goto(p, "query") /\ caller' = [caller EXCEPT ![p] = who]

(* It returns true. *)
Stopped(p) ==
  /\ Goto(p, "delete")
  /\ UNCHANGED <<system, cleanup, timedOut>>

(* It returns false, and GetLastError() is one of the errors given. *)
NotStopped(p, errors) ==
  /\ CASE caller[p] = "undo" ->
            /\ Goto(p, "delete")
            /\ UNCHANGED <<service, handles, cleanup>>
       [] caller[p] = "remove" ->
            /\ Goto(p, "discard") /\ CloseHandleAfter(p, service)
            /\ UNCHANGED cleanup
       [] caller[p] = "stop" ->
            /\ Goto(p, "deleteFile") /\ CloseHandleAfter(p, service)
            /\ \E e \in errors : cleanup' = [cleanup EXCEPT ![p] = e]
  /\ UNCHANGED <<holder, files>>

QueryStatus(p) ==
  /\ pc[p] = "query"
  /\ \/ service.state = "stopped" /\ Stopped(p)
     \/ /\ service.state # "stopped" /\ Goto(p, "control")
        /\ UNCHANGED <<system, cleanup, timedOut>>
     \/ NotStopped(p, {"error"}) /\ UNCHANGED timedOut
  /\ UNCHANGED <<memory, runs, run, caller, found>>

(* ControlService is refused while the driver starts or stops; that it is  *)
(* not active any more (it stopped since the query) is no failure.         *)
Control(p) ==
  /\ pc[p] = "control"
  /\ \/ /\ service.state = "running"
        /\ service' = [service EXCEPT !.state = "stopping"]
        /\ Goto(p, "wait")
        /\ UNCHANGED <<handles, holder, files, cleanup>>
     \/ /\ service.state = "stopped" /\ Goto(p, "wait")
        /\ UNCHANGED <<system, cleanup>>
     \/ NotStopped(p, {"error"})
  /\ UNCHANGED <<memory, runs, run, caller, found, timedOut>>

(* WaitForServiceState(SERVICE_STOPPED).  When the deadline has passed no  *)
(* call has failed, so the last error is whatever was left there before.   *)
WaitStopped(p) ==
  /\ pc[p] = "wait"
  /\ \/ service.state = "stopped" /\ Stopped(p)
     \/ NotStopped(p, {"error"}) /\ UNCHANGED timedOut
     \/ /\ NotStopped(p, {"success", "error"})
        /\ timedOut' = [timedOut EXCEPT ![p] = TRUE]
  /\ UNCHANGED <<memory, runs, run, caller, found>>

OwnHandleKept(p, next) ==
  /\ service' = [service EXCEPT !.marked = TRUE]
  /\ Goto(p, next) /\ UNCHANGED handles

KeepsRecord(p, next) ==
  CloseHandleAfter(p, service) /\ Goto(p, next)

(* DeleteService succeeds, or the record was marked before; the handle is  *)
(* closed on the way out.                                                  *)
MarkAndClose(p, next) ==
  /\ CloseHandleAfter(p, [service EXCEPT !.marked = TRUE])
  /\ Goto(p, next)

(* DeleteService *)
DeleteRecord(p) ==
  /\ pc[p] = "delete"
  /\ \/ /\ MarkAndClose(p, CASE caller[p] = "remove" -> "probe"
                             [] caller[p] = "undo"   -> "discard"
                             [] caller[p] = "stop"   -> "deleteFile")
        /\ UNCHANGED cleanup
     \/ /\ CloseHandleAfter(p, service)
        /\ IF caller[p] = "stop"
           THEN /\ Goto(p, "deleteFile")
                /\ cleanup' = [cleanup EXCEPT ![p] = "error"]
           ELSE Goto(p, "discard") /\ UNCHANGED cleanup
  /\ UNCHANGED <<holder, files, memory, runs, run, caller, found, timedOut>>

---------------------------------------------------------------------------
(* DriverRuntime::Start                                                    *)

(* Of the run before nothing is known any more. *)
Forgotten(p) ==
  /\ outcome' = [outcome EXCEPT ![p] = "none"]
  /\ exitCode' = [exitCode EXCEPT ![p] = StillActive]
  /\ cleanup' = [cleanup EXCEPT ![p] = "success"]
  /\ timedOut' = [timedOut EXCEPT ![p] = FALSE]

(* A process is started, and listens to Ctrl+C. *)
Launch(p) ==
  /\ pc[p] = "idle" /\ runs < MaxRuns
  /\ runs' = runs + 1 /\ run' = [run EXCEPT ![p] = runs + 1]
  /\ Goto(p, "extract")
  /\ command' = [command EXCEPT ![p] =
                    IF p \in Inspectors THEN "dryRun" ELSE "capture"]
  /\ Forgotten(p)
  /\ UNCHANGED <<system, caller, cancelled, probes, asked, found>>

(* ExtractEmbeddedDriver: a new file under a name nobody else has, in a    *)
(* directory that is made or found ...                                     *)
Extract(p) ==
  /\ pc[p] = "extract"
  /\ \/ files' = files \cup {run[p]} /\ Goto(p, "fill")
     \/ Goto(p, "exit") /\ UNCHANGED files
  /\ UNCHANGED <<service, handles, holder, memory, runs, run, caller, cleanup,
                 found, timedOut>>

(* ... is written and flushed, or deleted again if that can be done.       *)
Fill(p) ==
  /\ pc[p] = "fill"
  /\ \/ Goto(p, "remove") /\ UNCHANGED files
     \/ Goto(p, "exit") /\ files' \in {files, files \ {run[p]}}
  /\ UNCHANGED <<service, handles, holder, memory, runs, run, caller, cleanup,
                 found, timedOut>>

(* RemoveExistingService *)
Remove(p) ==
  /\ pc[p] = "remove"
  /\ \/ /\ service = Gone /\ Goto(p, "create")
        /\ UNCHANGED <<handles, caller, found>>
     \/ /\ service # Gone /\ Stopping(p, "remove") /\ OpenHandle(p)
        /\ found' = [found EXCEPT ![p] = service.image]
     \/ Goto(p, "discard") /\ UNCHANGED <<handles, caller, found>>
  /\ UNCHANGED <<service, holder, files, memory, runs, run, cleanup, timedOut>>

DeletionNotAwaited(p) ==
  /\ pc[p] = "probe"
  /\ Goto(p, "create")
  /\ UNCHANGED <<system, memory, runs, run, caller, cleanup, found, timedOut>>

(* WaitUntilServiceIsDeleted opens the record by its name ... *)
Probe(p) ==
  /\ pc[p] = "probe"
  /\ \/ /\ service # Gone /\ OpenHandle(p) /\ Goto(p, "sleep")
        /\ probes' = [probes EXCEPT ![p] = @ + 1]
     \/ /\ service = Gone /\ Goto(p, "create")
        /\ probes' = [probes EXCEPT ![p] = 0] /\ UNCHANGED handles
     \/ /\ Goto(p, "discard")
        /\ probes' = [probes EXCEPT ![p] = 0] /\ UNCHANGED handles
  /\ UNCHANGED <<service, holder, files, command, exitCode, cancelled, outcome,
                 asked, runs, run, caller, cleanup, found, timedOut>>

WakesUp(p) ==
  /\ pc[p] = "sleep" /\ CloseHandleAfter(p, service)
  /\ UNCHANGED <<holder, files, command, exitCode, cancelled, outcome, asked,
                 runs, run, caller, cleanup, found, timedOut>>

SleepsForever(p) ==
  /\ WakesUp(p) /\ Goto(p, "probe") /\ probes' = [probes EXCEPT ![p] = 0]

(* ... and holds on to it while it sleeps, so the record cannot go in the  *)
(* meantime; after so many attempts it gives up.                           *)
Sleep(p) ==
  /\ WakesUp(p)
  /\ IF probes[p] < Attempts
     THEN Goto(p, "probe") /\ UNCHANGED probes
     ELSE Goto(p, "discard") /\ probes' = [probes EXCEPT ![p] = 0]

(* CreateServiceW *)
Create(p) ==
  /\ pc[p] = "create"
  /\ \/ /\ service = Gone
        /\ service' = [image |-> run[p], state |-> "stopped", marked |-> FALSE]
        /\ OpenHandle(p) /\ Goto(p, "start")
     \/ Goto(p, "discard") /\ UNCHANGED <<service, handles>>
  /\ UNCHANGED <<holder, files, memory, runs, run, caller, cleanup, found,
                 timedOut>>

(* StartServiceW; it fails on a record another process has marked. *)
Start(p) ==
  /\ pc[p] = "start"
  /\ \/ /\ service.state = "stopped" /\ ~service.marked
        /\ service' = [service EXCEPT !.state = "starting"]
        /\ Goto(p, "waitRunning") /\ UNCHANGED caller
     \/ Stopping(p, "undo") /\ UNCHANGED service
  /\ UNCHANGED <<handles, holder, files, memory, runs, run, cleanup, found,
                 timedOut>>

(* WaitForServiceState(SERVICE_RUNNING) *)
WaitRunning(p) ==
  /\ pc[p] = "waitRunning"
  /\ \/ /\ service.state = "running"
        /\ CloseHandleAfter(p, service)
        /\ Goto(p, "open") /\ UNCHANGED caller
     \/ Stopping(p, "undo") /\ UNCHANGED <<service, handles>>
  /\ UNCHANGED <<holder, files, memory, runs, run, cleanup, found, timedOut>>

(* DeleteExtractedDriver; a loaded driver's file is refused, and what the  *)
(* deletion returned is not looked at.                                     *)
Discard(p) ==
  /\ pc[p] = "discard"
  /\ \/ ~Loaded(run[p]) /\ files' = files \ {run[p]}
     \/ UNCHANGED files
  /\ Goto(p, "exit")
  /\ UNCHANGED <<service, handles, holder, memory, runs, run, caller, cleanup,
                 found, timedOut>>

---------------------------------------------------------------------------
(* RunCapture and RunDryRun between Start and Stop                         *)

(* DeviceSession::Open, of whichever driver is running. *)
OpenDevice(p) ==
  /\ pc[p] = "open"
  /\ \/ /\ service # Gone /\ service.state = "running" /\ holder = {}
        /\ holder' = {p}
        /\ Goto(p, IF command[p] = "dryRun" THEN "inspect" ELSE "reset")
     \/ Goto(p, "stop") /\ UNCHANGED holder
  /\ UNCHANGED <<service, handles, files, memory, runs, run, caller, cleanup,
                 found, timedOut>>

(* gCancelled.store(false) *)
Reset(p) ==
  /\ pc[p] = "reset"
  /\ cancelled' = [cancelled EXCEPT ![p] = FALSE]
  /\ Goto(p, "capture")
  /\ UNCHANGED <<system, command, exitCode, probes, outcome, asked, runs, run,
                 caller, cleanup, found, timedOut>>

Return(p, status) ==
  /\ outcome' = [outcome EXCEPT ![p] = status] /\ Goto(p, "close")
  /\ UNCHANGED <<system, command, exitCode, cancelled, probes, asked, runs, run,
                 caller, cleanup, found, timedOut>>

(* CaptureEvidenceToFile up to Acquire's last look at the flag, which is   *)
(* before its last read: every look lets it go on only when the flag is    *)
(* not set, and any call may fail.                                         *)
Capture(p) ==
  /\ pc[p] = "capture"
  /\ \/ /\ ~cancelled[p] /\ Goto(p, "finish")
        /\ UNCHANGED <<system, memory, runs, run, caller, cleanup, found,
                       timedOut>>
     \/ Return(p, "unfinished")

(* The last read and its report, the zeros behind it, End, and everything  *)
(* after Acquire has returned: the flag only names a failure.              *)
FinishCapture(p) ==
  /\ pc[p] = "finish"
  /\ \E status \in {"complete", "incomplete", "unfinished"} : Return(p, status)

(* The dry run: Query, QueryHints, whose failure is ignored, and End.  The *)
(* flag is not looked at.                                                  *)
Inspect(p) ==
  /\ pc[p] = "inspect"
  /\ \E status \in {"inspected", "changed", "unfinished"} : Return(p, status)

CloseDevice(p) ==
  /\ pc[p] = "close"
  /\ holder' = holder \ {p} /\ Goto(p, "stop")
  /\ UNCHANGED <<service, handles, files, memory, runs, run, caller, cleanup,
                 found, timedOut>>

---------------------------------------------------------------------------
(* DriverRuntime::Stop                                                     *)

(* StopAndDeleteDriver opens the service by its name. *)
Stop(p) ==
  /\ pc[p] = "stop"
  /\ \/ /\ service = Gone /\ Goto(p, "deleteFile")
        /\ UNCHANGED <<handles, caller, cleanup>>
     \/ /\ service # Gone /\ Stopping(p, "stop") /\ OpenHandle(p)
        /\ UNCHANGED cleanup
     \/ /\ Goto(p, "deleteFile")
        /\ cleanup' = [cleanup EXCEPT ![p] = "error"]
        /\ UNCHANGED <<handles, caller>>
  /\ UNCHANGED <<service, holder, files, memory, runs, run, found, timedOut>>

(* DeleteExtractedDriver, whose error is the second choice. *)
DeleteFile(p) ==
  /\ pc[p] = "deleteFile"
  /\ \/ /\ ~Loaded(run[p]) /\ files' = files \ {run[p]}
        /\ UNCHANGED cleanup
     \/ cleanup' = [cleanup EXCEPT ![p] = "error"] /\ UNCHANGED files
  /\ Goto(p, "exit")
  /\ UNCHANGED <<service, handles, holder, memory, runs, run, caller, found,
                 timedOut>>

(* The memory of a process ends with it. *)
Ended(p) ==
  /\ Goto(p, "idle")
  /\ cancelled' = [cancelled EXCEPT ![p] = FALSE]
  /\ probes' = [probes EXCEPT ![p] = 0]
  /\ asked' = [asked EXCEPT ![p] = FALSE]
  /\ caller' = [caller EXCEPT ![p] = "none"]
  /\ found' = [found EXCEPT ![p] = 0]
  /\ command' = [command EXCEPT ![p] = "none"]

CleanupNotReported(p) ==
  CASE outcome[p] \in {"none", "unfinished"}       -> 1
    [] outcome[p] \in {"complete", "inspected"}    -> 0
    [] outcome[p] \in {"incomplete", "changed"}    -> 2

(* What RunCapture and RunDryRun return.  A start or an open that failed   *)
(* leaves no outcome.                                                      *)
ExitCode(p) ==
  CASE outcome[p] \in {"none", "unfinished"}       -> 1
    [] cleanup[p] # "success"                      -> 1
    [] outcome[p] \in {"complete", "inspected"}
         /\ cleanup[p] = "success"                 -> 0
    [] outcome[p] \in {"incomplete", "changed"}
         /\ cleanup[p] = "success"                 -> 2

Exit(p) ==
  /\ pc[p] = "exit" /\ Ended(p)
  /\ exitCode' = [exitCode EXCEPT ![p] = ExitCode(p)]
  /\ UNCHANGED <<system, outcome, runs, run, cleanup, timedOut>>

Step(p) ==
  \/ Extract(p) \/ Fill(p) \/ Remove(p) \/ Probe(p) \/ Sleep(p) \/ Create(p)
  \/ Start(p) \/ WaitRunning(p) \/ Discard(p) \/ OpenDevice(p) \/ Reset(p)
  \/ Capture(p) \/ FinishCapture(p) \/ Inspect(p) \/ CloseDevice(p) \/ Stop(p)
  \/ QueryStatus(p) \/ Control(p) \/ WaitStopped(p) \/ DeleteRecord(p)
  \/ DeleteFile(p) \/ Exit(p)

(* ConsoleHandler *)
Cancel(p) ==
  /\ pc[p] # "idle" /\ p \in Interruptible /\ ~cancelled[p]
  /\ cancelled' = [cancelled EXCEPT ![p] = TRUE]
  /\ asked' = [asked EXCEPT ![p] =
                 @ \/ (outcome[p] = "none" /\ pc[p] # "finish")]
  /\ UNCHANGED <<system, command, exitCode, probes, outcome, runs, run, pc,
                 caller, cleanup, found, timedOut>>

(* The process is killed; the system closes its handles. *)
Kill(p) ==
  /\ pc[p] # "idle" /\ p \in Killable /\ Ended(p)
  /\ handles' = handles \ {p} /\ holder' = holder \ {p}
  /\ service' = IF service = Gone THEN Gone ELSE Kept(service, handles \ {p})
  /\ Forgotten(p)
  /\ UNCHANGED <<files, runs, run>>

Next ==
  \/ \E p \in Process : Launch(p) \/ Step(p) \/ Cancel(p) \/ Kill(p)
  \/ DriverStarts \/ DriverUnloads

(* A process that runs goes on running; nothing is asked of the driver.    *)
Spec == Init /\ [][Next]_vars /\ \A p \in Process : WF_vars(Step(p))

---------------------------------------------------------------------------
(* Properties                                                              *)

Places == {"idle", "extract", "fill", "remove", "probe", "sleep", "create",
           "start", "waitRunning", "discard", "open", "reset", "capture",
           "finish", "inspect", "close", "stop", "query", "control", "wait",
           "delete", "deleteFile", "exit"}

(* Where the code owns a handle to the service. *)
WithHandle == {"sleep", "start", "waitRunning", "query", "control", "wait",
               "delete"}

(* The variables have their types, a process holds a service handle just   *)
(* where a ScopedServiceHandle of the code is alive, the sleep between two *)
(* probes included, the record it has a handle to exists, and no more      *)
(* probes are made than the code's loop allows.                            *)
TypeOK ==
  /\ service \in Record \cup {Gone}
  /\ handles = {p \in Process : pc[p] \in WithHandle}
  /\ handles # {} => service # Gone
  /\ holder = {p \in Process : pc[p] \in {"reset", "capture", "finish",
                                         "inspect", "close"}}
  /\ files \subseteq 1..runs /\ runs \in 0..MaxRuns
  /\ run \in [Process -> 0..runs] /\ pc \in [Process -> Places]
  /\ caller \in [Process -> {"none", "remove", "undo", "stop"}]
  /\ cancelled \in [Process -> BOOLEAN] /\ probes \in [Process -> 0..Attempts]
  /\ outcome \in [Process -> {"none", "complete", "incomplete", "inspected",
                               "changed", "unfinished"}]
  /\ command \in [Process -> {"none", "capture", "dryRun"}]
  /\ exitCode \in [Process -> {StillActive, 0, 1, 2}]
  /\ cleanup \in [Process -> {"success", "error"}]
  /\ found \in [Process -> 0..runs]
  /\ timedOut \in [Process -> BOOLEAN] /\ asked \in [Process -> BOOLEAN]

(* Nothing of the run of p is left: its service record has gone or is just *)
(* about to go, and the driver it extracted has been deleted.              *)
LeftNothing(p) ==
  /\ \/ service = Gone \/ service.image # run[p]
     \/ service.marked /\ service.state = "stopped"
  /\ run[p] \notin files

(* A process that used the driver, ended by itself and reports no cleanup  *)
(* error.                                                                  *)
ReportsClean(p) ==
  /\ pc[p] = "idle" /\ outcome[p] # "none"
  /\ cleanup[p] = "success"

(* Whatever other processes did to the service meanwhile, a run that       *)
(* reports a clean end has left neither its service nor its driver behind, *)
(* unless a wait for the service to stop ran into its deadline.            *)
CleanUnlessTimedOut ==
  \A p \in Process : ReportsClean(p) /\ ~timedOut[p] => LeftNothing(p)

(* The same without the exception: the clean service and temporary-driver  *)
(* lifecycle after every cycle that tests/TEST_PLAN.md asks for.           *)
CleanLifecycle == \A p \in Process : ReportsClean(p) => LeftNothing(p)

(* README.md, exit codes: a process that returns 0 or 2 has finalized a    *)
(* bundle, or inspected the topology, and has left neither its service nor *)
(* its driver, whoever else used them meanwhile, unless a wait ran into    *)
(* its deadline.  One that returns 1 has published a bundle only if it     *)
(* could not clean up: what the README says of 1 does not hold there.      *)
ExitCodeTells ==
  \A p \in Process :
    /\ exitCode[p] \in {0, 2} =>
         /\ outcome[p] \notin {"none", "unfinished"}
         /\ LeftNothing(p) \/ timedOut[p]
    /\ exitCode[p] = 1 /\ outcome[p] \in {"complete", "incomplete"} =>
         cleanup[p] = "error"

(* RemoveExistingService does what its name says: when it reports success  *)
(* the record it found, however it got there and whoever uses it, is gone; *)
(* what may be there now was created since by someone else.                *)
ReplacesWhatItFound ==
  \A p \in Process :
    pc[p] = "create" => service = Gone \/ service.image # found[p]

(* A Ctrl+C while Acquire's last look at gCancelled is still to come       *)
(* publishes no bundle.                                                    *)
CancelPublishesNothing ==
  \A p \in Process : asked[p] => outcome[p] \notin {"complete", "incomplete"}

(* Whatever the other processes hold on to, every run comes to its end:    *)
(* each wait has its deadline.                                             *)
ExitsInTheEnd == \A p \in Process : pc[p] # "idle" ~> pc[p] = "idle"
=============================================================================
