--------------------------- MODULE DriverSession ---------------------------
(***************************************************************************)
(* The kernel driver: the life of one file object of \Device\PhylaRAM      *)
(* (driver/driver.c), the session in its context (driver/session.c), the   *)
(* I/O controls (driver/ioctl.c) and the copy of a run (driver/memory.c).  *)
(*                                                                         *)
(* The handlers run step by step, so that what happens between the check   *)
(* of the session and the use of its table can be seen.  What keeps them   *)
(* apart is the framework's (external): the control device is exclusive,   *)
(* its queue presents one request at a time, and with the device as the    *)
(* synchronization scope a queue callback and a file callback do not       *)
(* overlap.  Requests may be pending when the last handle is closed, and   *)
(* the file object is closed only when they are completed.  The client     *)
(* may be any program that may open the device, with several threads on    *)
(* one handle; the live memory topology may change at any moment.          *)
(*                                                                         *)
(* The retrieval of buffers and the size checks on them are one choice,    *)
(* "the buffers do not fit"; a copied byte is not modelled, only which     *)
(* interval is copied.                                                     *)
(***************************************************************************)
EXTENDS Naturals, Sequences

CONSTANTS
  Tables,       \* the run tables the machine may have
  MaxWord,      \* the largest ULONGLONG (MAXULONGLONG)
  MaxTransfer,  \* PHYLA_MAX_TRANSFER
  MaxPending,   \* bound: requests pending at a time
  Null,         \* the NULL pointer
  Nothing       \* nothing is running; nothing was answered

ASSUME DriverAssumption ==
  /\ MaxWord \in Nat /\ MaxTransfer \in 1..MaxWord /\ MaxPending \in Nat
  /\ Tables \subseteq Seq([base : 0..MaxWord, length : 1..MaxWord])
  /\ \A t \in Tables :
       t # <<>> /\ \A i \in 1..Len(t) : t[i].base + t[i].length <= MaxWord
  /\ Null \notin Tables

Ops == {"query", "ranges", "read", "end", "hints", "unknown"}
Word == 0..MaxWord

(* A request in its handler, with the handler's locals. *)
Request ==
  [op : Ops, step : {"check", "use"}]
    \cup [op : {"read"}, step : {"copy"}, from : Word, length : 1..MaxTransfer]
    \cup [op : {"end"}, step : {"compare"}, current : Tables]

Refused == [op |-> "refused"]
Hints == [op |-> "hints"]

Answer ==
  {Refused, Hints} \cup [op : {"query"}, count : Nat]
    \cup [op : {"ranges"}, table : Tables]
    \cup [op : {"read"}, from : Word, length : 1..MaxTransfer]
    \cup [op : {"end"}, changed : BOOLEAN, count : Nat]

ASSUME NothingAssumption == Nothing \notin Request /\ Nothing \notin Answer

VARIABLES
  live,      \* what MmGetPhysicalMemoryRangesEx2 would return now
  file,      \* the file object: "closed", "open", "closing" or "cleaned"
  ranges,    \* Context->Ranges: the snapshot, or Null
  runCount,  \* Context->RunCount
  ended,     \* Context->SessionEnded
  pool,      \* the snapshots allocated: "frozen" and the one END compares
  queue,     \* the operations pending in the sequential queue
  running,   \* the request in its handler: operation, step and locals
  lock,      \* who is inside a callback: "none", "queue" or "cleanup"
  answer,    \* history: the last answer of the session
  frozen     \* history: the live table when the handle was opened

context == <<ranges, runCount, ended>>
vars == <<live, file, context, pool, queue, running, lock, answer, frozen>>

(* WdfSynchronizationScopeDevice: no callback starts inside another. *)
Unsynchronized == TRUE
DeviceFree == lock = "none"

---------------------------------------------------------------------------
Init ==
  /\ live \in Tables /\ file = "closed"
  /\ ranges = Null /\ runCount = 0 /\ ended = FALSE /\ pool = {}
  /\ queue = <<>> /\ running = Nothing /\ lock = "none"
  /\ answer = Nothing /\ frozen = <<>>

(* EvtFileCreate and PhylaSessionBegin on a context just zeroed.  A failing *)
(* allocation fails the open and leaves no file object.                    *)
FileCreate ==
  /\ file = "closed" /\ DeviceFree
  /\ file' = "open"
  /\ ranges' = live /\ runCount' = Len(live) /\ ended' = FALSE
  /\ pool' = pool \cup {"frozen"}
  /\ frozen' = live /\ answer' = Nothing
  /\ UNCHANGED <<live, queue, running, lock>>

(* A thread of the client. *)
Submit ==
  /\ file = "open" /\ Len(queue) < MaxPending
  /\ \E op \in Ops : queue' = Append(queue, op)
  /\ UNCHANGED <<live, file, context, pool, running, lock, answer, frozen>>

CloseHandle ==
  /\ file = "open" /\ file' = "closing"
  /\ UNCHANGED <<live, context, pool, queue, running, lock, answer, frozen>>

(* Memory is added or removed. *)
Hotplug ==
  /\ live' \in Tables \ {live}
  /\ UNCHANGED <<file, context, pool, queue, running, lock, answer, frozen>>

---------------------------------------------------------------------------
(* The I/O controls.                                                       *)

(* The sequential queue presents its next request. *)
Present ==
  /\ queue # <<>> /\ running = Nothing /\ DeviceFree
  /\ running' = [op |-> Head(queue), step |-> "check"]
  /\ queue' = Tail(queue) /\ lock' = "queue"
  /\ UNCHANGED <<live, file, context, pool, answer, frozen>>

(* The request is completed and the callback returns. *)
Complete(reply) ==
  /\ answer' = reply
  /\ running' = Nothing /\ lock' = "none"

ChecksPointerOnly == ranges # Null

SessionOpen == ranges # Null /\ ~ended

UnknownNotCompleted ==
  /\ running # Nothing /\ running.step = "check" /\ running.op # "unknown"
  /\ \/ Complete(Refused)
     \/ running.op = "hints" /\ Complete(Hints)
     \/ /\ running.op \in {"query", "ranges", "read", "end"}
        /\ SessionOpen
        /\ running' = [running EXCEPT !.step = "use"]
        /\ UNCHANGED <<lock, answer>>
  /\ UNCHANGED <<live, file, context, pool, queue, frozen>>

(* PhylaEvtIoDeviceControl up to the first look at the session.  The hints *)
(* do not depend on it.                                                    *)
CheckRequest ==
  /\ running # Nothing /\ running.step = "check"
  /\ \/ Complete(Refused)
     \/ running.op = "hints" /\ Complete(Hints)
     \/ /\ running.op \in {"query", "ranges", "read", "end"}
        /\ SessionOpen
        /\ running' = [running EXCEPT !.step = "use"]
        /\ UNCHANGED <<lock, answer>>
  /\ UNCHANGED <<live, file, context, pool, queue, frozen>>

Using(op) == running # Nothing /\ running.op = op /\ running.step = "use"

(* PhylaHandleQueryInfo, PhylaHandleGetRanges *)
QueryInfo ==
  /\ Using("query") /\ Complete([op |-> "query", count |-> runCount])
  /\ UNCHANGED <<live, file, context, pool, queue, frozen>>

GetRanges ==
  /\ Using("ranges") /\ Complete([op |-> "ranges", table |-> ranges])
  /\ UNCHANGED <<live, file, context, pool, queue, frozen>>

BoundsWithOverflow(run, offset, length) ==
  /\ (offset + length) % (MaxWord + 1) <= run.length
  /\ offset <= MaxWord - run.base

OversizeAccepted(length) == length > 0

TransferFits(length) == length \in 1..MaxTransfer

(* The bounds check of PhylaCopyRun in ULONGLONG arithmetic. *)
WithinRun(run, offset, length) ==
  /\ offset <= run.length
  /\ length <= run.length - offset
  /\ offset <= MaxWord - run.base

(* PhylaCopyRun up to MmCopyMemory: the session is looked at again. *)
ReadRun ==
  /\ Using("read")
  /\ \E index \in 0..runCount, offset \in Word, length \in 0 .. MaxTransfer + 1 :
       IF /\ SessionOpen
          /\ index < runCount /\ TransferFits(length)
          /\ WithinRun(ranges[index + 1], offset, length)
       THEN /\ running' = [op |-> "read", step |-> "copy",
                           from |-> (ranges[index + 1].base + offset)
                                      % (MaxWord + 1),
                           length |-> length]
            /\ UNCHANGED <<lock, answer>>
       ELSE Complete(Refused)
  /\ UNCHANGED <<live, file, context, pool, queue, frozen>>

(* MmCopyMemory has returned; how much it copied is the client's concern. *)
CopyDone ==
  /\ running # Nothing /\ running.step = "copy"
  /\ Complete([op |-> "read", from |-> running.from, length |-> running.length])
  /\ UNCHANGED <<live, file, context, pool, queue, frozen>>

(* PhylaSessionEnd takes a second snapshot.  When it cannot, the session    *)
(* stays open.                                                             *)
SnapshotLive ==
  /\ Using("end")
  /\ \/ Complete(Refused) /\ UNCHANGED pool
     \/ /\ pool' = pool \cup {"current"}
        /\ running' = [op |-> "end", step |-> "compare", current |-> live]
        /\ UNCHANGED <<lock, answer>>
  /\ UNCHANGED <<live, file, context, queue, frozen>>

EndAnswer ==
  [op |-> "end", changed |-> ranges # running.current,
   count |-> Len(running.current)]

EndForgetsToEnd ==
  /\ running # Nothing /\ running.step = "compare"
  /\ Complete(EndAnswer)
  /\ pool' = pool \ {"current"}
  /\ UNCHANGED <<live, file, queue, frozen, context>>

(* It compares the two, range by range, and frees the second. *)
CompareRanges ==
  /\ running # Nothing /\ running.step = "compare"
  /\ Complete(EndAnswer)
  /\ pool' = pool \ {"current"}
  /\ ended' = TRUE
  /\ UNCHANGED <<live, file, queue, frozen, ranges, runCount>>

Handler ==
  \/ Present \/ CheckRequest \/ QueryInfo \/ GetRanges \/ ReadRun \/ CopyDone
  \/ SnapshotLive \/ CompareRanges

---------------------------------------------------------------------------
(* EvtFileCleanup and PhylaSessionRelease.                                 *)

Detach ==
  /\ file = "closing" /\ DeviceFree
  /\ lock' = "cleanup" /\ ranges' = Null
  /\ UNCHANGED <<live, file, runCount, ended, pool, queue, running, answer,
                 frozen>>

ReleaseWithoutFree ==
  /\ lock = "cleanup" /\ lock' = "none"
  /\ runCount' = 0 /\ ended' = TRUE
  /\ file' = "cleaned"
  /\ UNCHANGED <<live, ranges, pool, queue, running, answer, frozen>>

Release ==
  /\ lock = "cleanup" /\ lock' = "none"
  /\ pool' = pool \ {"frozen"}
  /\ runCount' = 0 /\ ended' = TRUE
  /\ file' = "cleaned"
  /\ UNCHANGED <<live, ranges, queue, running, answer, frozen>>

Cleanup == Detach \/ Release

(* The framework closes the file object when its last request is gone. *)
FileClose ==
  /\ file = "cleaned" /\ queue = <<>> /\ running = Nothing
  /\ file' = "closed"
  /\ UNCHANGED <<live, context, pool, queue, running, lock, answer, frozen>>

Next ==
  \/ FileCreate \/ Submit \/ CloseHandle \/ Hotplug \/ Handler \/ Cleanup
  \/ FileClose

(* The framework presents requests and calls back; handlers do not block.  *)
(* Clients and the hardware do as they please.                             *)
Spec ==
  /\ Init /\ [][Next]_vars
  /\ WF_vars(Handler) /\ WF_vars(Cleanup) /\ WF_vars(FileClose)
---------------------------------------------------------------------------
(* Properties.                                                             *)

(* Every variable has its type. *)
TypeOK ==
  /\ live \in Tables /\ file \in {"closed", "open", "closing", "cleaned"}
  /\ ranges \in Tables \cup {Null} /\ runCount \in Nat /\ ended \in BOOLEAN
  /\ pool \subseteq {"frozen", "current"}
  /\ queue \in Seq(Ops) /\ Len(queue) <= MaxPending
  /\ running \in Request \cup {Nothing} /\ lock \in {"none", "queue", "cleanup"}
  /\ answer \in Answer \cup {Nothing} /\ frozen \in Tables \cup {<<>>}

(* driver.c:50-57: while a handler uses the table of its session, cleanup  *)
(* has not freed it, although requests may be pending or running when the  *)
(* handle is closed.                                                       *)
NoUseAfterFree ==
  running # Nothing /\ running.step \in {"use", "copy", "compare"} =>
    ranges # Null /\ "frozen" \in pool

(* Every snapshot is freed: the second one when END has been answered, the *)
(* first when the file object is gone.                                     *)
NoLeak ==
  /\ lock # "queue" => "current" \notin pool
  /\ file \in {"cleaned", "closed"} => pool = {}

(* The driver implements the promise made to the holder of a handle. *)
Session == INSTANCE MemorySession WITH
  phase <- IF file = "closed" THEN "closed"
           ELSE IF SessionOpen THEN "open" ELSE "over",
  table <- frozen,
  reply <- answer

KeepsSessionPromise == Session!Spec

(* Every request is completed and the file object goes away after its last *)
(* handle, whatever state the session is in when the requests come to run. *)
ClosesInTheEnd == file = "closing" ~> file = "closed"
=============================================================================
