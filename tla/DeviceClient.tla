---------------------------- MODULE DeviceClient ----------------------------
(***************************************************************************)
(* The two ends of the device protocol: DeviceSession (cli/device.cpp),    *)
(* which asks for the run table, sorts and checks it and reads runs by the *)
(* driver's index, and what the driver computes for it (session.c,         *)
(* memory.c) from the array the memory manager handed out.                 *)
(*                                                                         *)
(* The array is external and any: unsorted, with overlapping or empty      *)
(* entries, or with ends beyond the largest word.  The session's life and  *)
(* the synchronization of the handlers are DriverSession's matter; here an *)
(* I/O control is one step.  Versions, sizes and lengths of buffers, which *)
(* both ends take from the same header, are left out.                      *)
(***************************************************************************)
EXTENDS Integers, SequencesExt

CONSTANTS
  MaxWord,      \* UINT64_MAX
  MaxRuns,      \* the largest RunCount the client accepts
  MaxTransfer,  \* PHYLA_MAX_TRANSFER
  Reported,     \* the arrays the memory manager may report at the open
  Later,        \* those it may report after a change of topology
  Unknown,      \* nothing was answered, or it is of no use
  Refused       \* STATUS_INVALID_PARAMETER

Word == 0..MaxWord
Entry == [base : Word, length : Word]

ASSUME ClientAssumption ==
  /\ MaxWord \in Nat /\ MaxRuns \in Nat /\ MaxTransfer \in Nat
  /\ Reported \subseteq Seq(Entry) /\ Later \subseteq Seq(Entry)

VARIABLES
  live,     \* the array MmGetPhysicalMemoryRangesEx2 would return
  open,     \* the client has the handle
  frozen,   \* Context->Ranges
  ended,    \* Context->SessionEnded
  view,     \* what the client's last Query returned, or Unknown
  read,     \* its last read: what was asked and which address was answered
  seen      \* history: what the queries of this session returned

vars == <<live, open, frozen, ended, view, read, seen>>

---------------------------------------------------------------------------
(* The driver's arithmetic.                                                *)

(* PhylaCountRanges: up to the entry that is zero in both fields. *)
CountRanges(ranges) ==
  LET stops == {i \in 1..Len(ranges) :
                  ranges[i].base = 0 /\ ranges[i].length = 0}
  IN  IF stops = {} THEN Len(ranges)
      ELSE (CHOOSE i \in stops : \A j \in stops : i <= j) - 1

HighestIsLast(summary, range) ==
  IF range.length > MaxWord - range.base THEN summary
  ELSE [total   |-> summary.total + range.length,
        highest |-> range.base + range.length]

(* One entry of PhylaSummarizeRanges. *)
Summarize(summary, range) ==
  IF range.length > MaxWord - range.base THEN summary
  ELSE [total   |-> IF MaxWord - summary.total >= range.length
                    THEN summary.total + range.length ELSE summary.total,
        highest |-> IF range.base + range.length > summary.highest
                    THEN range.base + range.length ELSE summary.highest]

(* PhylaSummarizeRanges *)
SummarizeRanges(ranges) ==
  FoldLeft(Summarize, [total |-> 0, highest |-> 0],
           SubSeq(ranges, 1, CountRanges(ranges)))

TableOfTheMoment == live

(* Whose table QUERY_INFO, GET_RANGES and READ_RUN speak of. *)
SessionTable == frozen

(* PhylaCopyRun: the address the copy starts at. *)
CopyRun(index, offset, length) ==
  LET run == SessionTable[index + 1]
  IN  IF /\ index < CountRanges(SessionTable)
         /\ length \in 1..MaxTransfer
         /\ offset <= run.length
         /\ length <= run.length - offset
         /\ offset <= MaxWord - run.base
      THEN run.base + offset
      ELSE Refused

---------------------------------------------------------------------------
(* The client.                                                             *)

(* The runs, each with its index in the driver's table. *)
ClientRuns ==
  {[driverIndex |-> i - 1, base |-> SessionTable[i].base,
    length |-> SessionTable[i].length] : i \in 1..CountRanges(SessionTable)}

Ascending(runs) ==
  \A i \in 1 .. Len(runs) - 1 : runs[i].base <= runs[i + 1].base

NumberedAfterSorting(set) ==
  {[i \in 1..Len(s) |-> [s[i] EXCEPT !.driverIndex = i - 1]] :
     s \in {t \in SetToSeqs(set) : Ascending(t)}}

(* std::sort by base: runs with the same base come in any order. *)
SortedByBase(set) == {s \in SetToSeqs(set) : Ascending(s)}

EmptyRunsAccepted(run) == run.base <= MaxWord - run.length

(* What Query asks of each run ... *)
RunIsSound(run) == run.length # 0 /\ run.base <= MaxWord - run.length

OverlapByOneAccepted(runs) ==
  \A i \in 2..Len(runs) :
    runs[i - 1].base + runs[i - 1].length <= runs[i].base + 1

(* ... and of neighbours in the sorted list. *)
NoOverlap(runs) ==
  \A i \in 2..Len(runs) :
    runs[i - 1].base + runs[i - 1].length <= runs[i].base

Init ==
  /\ live \in Reported /\ open = FALSE
  /\ frozen = <<>> /\ ended = FALSE
  /\ view = Unknown /\ read = Unknown /\ seen = {}

(* CreateFileW, and PhylaSessionBegin, which refuses an empty table. *)
Open ==
  /\ ~open /\ CountRanges(live) > 0
  /\ open' = TRUE /\ frozen' = live /\ ended' = FALSE
  /\ view' = Unknown /\ read' = Unknown /\ seen' = {}
  /\ UNCHANGED live

(* Memory is added or removed. *)
Hotplug ==
  /\ live' \in Later \ {live}
  /\ UNCHANGED <<open, frozen, ended, view, read, seen>>

(* DeviceSession::Query: both I/O controls succeed and the table is sound. *)
QueryAccepts ==
  /\ open /\ ~ended
  /\ CountRanges(SessionTable) \in 1..MaxRuns
  /\ \A run \in ClientRuns : RunIsSound(run)
  /\ \E runs \in SortedByBase(ClientRuns) :
       /\ NoOverlap(runs)
       /\ view' = [runs |-> runs,
                   totalBytes |-> SummarizeRanges(SessionTable).total,
                   highestEnd |-> SummarizeRanges(SessionTable).highest]
  /\ seen' = seen \cup {view'}
  /\ UNCHANGED <<live, open, frozen, ended, read>>

(* Any other way it ends: what the caller had is gone. *)
QueryFails ==
  /\ open
  /\ view' = Unknown
  /\ UNCHANGED <<live, open, frozen, ended, read, seen>>

(* DeviceSession::Read of a part of a run, as Acquire asks for it. *)
Read ==
  /\ open /\ ~ended /\ view # Unknown
  /\ \E k \in 1..Len(view.runs) :
       LET run == view.runs[k]
       IN  \E offset \in 0 .. run.length - 1 :
             \E length \in 1 .. run.length - offset :
               /\ length <= MaxTransfer
               /\ read' = [asked |-> run.base + offset, length |-> length,
                           from |-> CopyRun(run.driverIndex, offset, length)]
  /\ UNCHANGED <<live, open, frozen, ended, view, seen>>

(* DeviceSession::End *)
EndSession ==
  /\ open /\ ~ended
  /\ ended' = TRUE
  /\ UNCHANGED <<live, open, frozen, view, read, seen>>

(* DeviceSession::Close.  The caller's copies outlive the handle. *)
Close ==
  /\ open
  /\ open' = FALSE /\ frozen' = <<>>
  /\ UNCHANGED <<live, ended, view, read, seen>>

Next ==
  \/ Open \/ Hotplug \/ QueryAccepts \/ QueryFails \/ Read \/ EndSession
  \/ Close

Spec == Init /\ [][Next]_vars
---------------------------------------------------------------------------
(* Properties.                                                             *)

ClientRun == [driverIndex : 0 .. MaxRuns - 1, base : Word, length : 1..MaxWord]

(* Every variable has its type; no accepted run is empty. *)
TypeOK ==
  /\ live \in Reported \cup Later /\ open \in BOOLEAN
  /\ frozen \in Reported \cup Later \cup {<<>>} /\ ended \in BOOLEAN
  /\ view = Unknown \/ /\ view.runs \in Seq(ClientRun)
                       /\ view.totalBytes \in Word /\ view.highestEnd \in Word
  /\ read = Unknown \/ /\ read.asked \in Word /\ read.length \in 1..MaxTransfer
                       /\ read.from \in Word \cup {Refused}

TotalLength(runs) == FoldLeft(LAMBDA sum, run : sum + run.length, 0, runs)

(* Whatever the memory manager reports, what Query lets through is what    *)
(* Acquire and the verifier rely on: ordered runs that do not overlap and  *)
(* name each index of the driver once, with the driver's own totals, taken *)
(* over the unsorted table with its overflow guards, agreeing with them.   *)
QueryGivesALayout ==
  view # Unknown =>
    LET runs == view.runs
    IN  /\ runs # <<>>
        /\ \A i, j \in 1..Len(runs) :
             i < j => /\ runs[i].base + runs[i].length <= runs[j].base
                      /\ runs[i].driverIndex # runs[j].driverIndex
        /\ {runs[i].driverIndex : i \in 1..Len(runs)} = 0 .. Len(runs) - 1
        /\ view.totalBytes = TotalLength(runs)
        /\ view.highestEnd = runs[Len(runs)].base + runs[Len(runs)].length

(* The client sorts, the driver does not: a read of a run of the client's  *)
(* list is answered from the address the client expects, and is never      *)
(* refused while the session lasts.                                        *)
ReadsWhereItAsks == read # Unknown => read.from = read.asked

(* CaptureEvidenceToFile queries once for the writer and Acquire once more *)
(* for itself: both are told the same, whatever happens to the machine.    *)
OneTablePerSession == Cardinality(seen) <= 1
=============================================================================
