------------------------ MODULE EvidenceTransaction ------------------------
(***************************************************************************)
(* CaptureEvidenceToFile() of cli/evidence_transaction.cpp, the writers'   *)
(* PreflightAndOpen and FlushAndClose, and the file functions of           *)
(* cli/map.cpp: how an acquisition becomes an image, a map and a sidecar   *)
(* under their final names, or nothing.                                    *)
(*                                                                         *)
(* Every system call is a step.  Between any two of them another program   *)
(* may create a file under one of the six names, the process may die or    *)
(* the power may fail, and the user may cancel.  Several captures to the   *)
(* same path follow one another; two at once are excluded by the exclusive *)
(* device handle each holds.  Acquire is reduced to what it returns (see   *)
(* the module Acquire, which proves the accounting that CaptureEvidence-   *)
(* ToFile and WriteMapJson check once more).  Another program's file is    *)
(* never removed or renamed by anybody else, and moves within a directory  *)
(* are atomic and durable (MOVEFILE_WRITE_THROUGH).                        *)
(***************************************************************************)
EXTENDS Naturals, Sequences

CONSTANTS
  MaxSessions,   \* bound: captures begun
  MaxForeign,    \* bound: files of other programs between two collections
  Formats,       \* the formats captures are made in: "raw", "container"
  Absent,        \* no file
  Foreign        \* a file of another program

ASSUME BoundsAssumption ==
  /\ MaxSessions \in Nat /\ MaxForeign \in Nat
  /\ Formats \subseteq {"raw", "container"}

Paths == {"rawFinal", "rawPartial", "mapFinal", "mapPartial", "hashFinal",
          "hashPartial"}
Partials == {"rawPartial", "mapPartial", "hashPartial"}

(* A file of a capture: which one wrote it, whether its contents have been *)
(* flushed, and whether they tell of unreadable bytes or a topology change. *)
Evidence == [session : 1..MaxSessions, durable : BOOLEAN, degraded : BOOLEAN]

ASSUME NamesAssumption ==
  Absent # Foreign /\ Absent \notin Evidence /\ Foreign \notin Evidence

ASSUME BundleAssumption ==
  Absent \notin [image : Evidence, map : Evidence, hash : Evidence]

VARIABLES
  fs,         \* path -> Absent, Foreign or Evidence
  pc,         \* the next call of the transaction; "idle" between captures
  format,     \* the effective output format
  degraded,   \* summary.unreadableBytes # 0 \/ summary.topologyChanged
  cancelled,  \* the shared flag
  todo,       \* the files a failing capture still has to delete
  failure,    \* "failed", or "asks" when the flag decides
  outcome,    \* the status of the last capture
  session,    \* captures begun
  intruders,  \* files created by other programs since the last collection
  existed,    \* history: the paths occupied when the capture began
  undeleted   \* history: the paths a deletion of this capture failed on

place == <<fs, todo, undeleted>>
scene == <<format, session, intruders, existed>>
vars == <<place, scene, pc, degraded, cancelled, failure, outcome>>

Own(p) == fs[p] \in Evidence /\ fs[p].session = session
Exists(p) == fs[p] # Absent

SidecarsUnchecked == \E p \in {"rawFinal", "rawPartial"} : Exists(p)
HasAnyCollision == \E p \in Paths : Exists(p)

Mine(durable) ==
  [session |-> session, durable |-> durable, degraded |-> degraded]
Telling(file, d) ==
  [session |-> file.session, durable |-> file.durable, degraded |-> d]
Flushed(file) ==
  [session |-> file.session, durable |-> TRUE, degraded |-> file.degraded]

---------------------------------------------------------------------------
Init ==
  /\ fs = [p \in Paths |-> Absent] /\ pc = "idle" /\ format = "raw"
  /\ degraded = FALSE /\ cancelled = FALSE /\ todo = <<>>
  /\ failure = "failed" /\ outcome = "none" /\ session = 0
  /\ intruders = 0 /\ existed = {} /\ undeleted = {}

(* A capture is started; its console or window clears the flag. *)
Begin ==
  /\ pc = "idle" /\ session < MaxSessions
  /\ session' = session + 1
  /\ format' \in Formats
  /\ pc' = "check" /\ cancelled' = FALSE /\ degraded' = FALSE
  /\ existed' = {p \in Paths : Exists(p)}
  /\ undeleted' = {}
  /\ UNCHANGED <<fs, todo, failure, outcome, intruders>>

Goto(label) == pc' = label /\ UNCHANGED <<failure, todo>>

StagingFilesMisnamed == <<"rawPartial", "partialMap", "partialHash">>
RemoveStagingFiles == <<"rawPartial", "mapPartial", "hashPartial">>
RemoveFinalizedSidecars == <<"mapFinal", "hashFinal">>

(* The capture is lost; the files listed are deleted first. *)
Abandon(files, how) ==
  /\ pc' = "cleanup" /\ todo' = files /\ failure' = how

(* The collision check.  The six lookups are one step: a file another      *)
(* program creates meanwhile is one created before or after all of them.   *)
Check ==
  /\ pc = "check"
  /\ IF HasAnyCollision THEN Abandon(<<>>, "failed") ELSE Goto("prepare")
  /\ UNCHANGED <<fs, undeleted, scene, degraded, cancelled, outcome>>

(* Query, the hash provider, the choice of the writer, the hints and the   *)
(* checks of the volume: nothing is on disk when one of them fails.        *)
Prepare ==
  /\ pc = "prepare"
  /\ Goto("open") \/ Abandon(<<>>, "failed")
  /\ UNCHANGED <<fs, undeleted, scene, degraded, cancelled, outcome>>

(* PreflightAndOpen creates the staged image.  RawWriter asks for a new    *)
(* file, the container writers take over whatever has the name.            *)
Open ==
  /\ pc = "open"
  /\ IF Exists("rawPartial") /\ format = "raw"
     THEN Abandon(<<>>, "failed") /\ UNCHANGED fs
     ELSE /\ fs' = [fs EXCEPT !["rawPartial"] = Mine(FALSE)]
          /\ Goto("preflight")
  /\ UNCHANGED <<undeleted, scene, degraded, cancelled, outcome>>

(* Its size is set, or its header written.  Only RawWriter deletes the     *)
(* file when that fails.                                                   *)
Preflight ==
  /\ pc = "preflight"
  /\ \/ Goto("acquire")
     \/ Abandon(IF format = "raw" THEN <<"rawPartial">> ELSE <<>>, "failed")
  /\ UNCHANGED <<fs, undeleted, scene, degraded, cancelled, outcome>>

(* Acquire as long as it polls the flag: it can fail for any reason. *)
Acquiring ==
  /\ pc = "acquire"
  /\ \/ ~cancelled /\ Goto("acquired")
     \/ Abandon(RemoveStagingFiles, "asks")
  /\ UNCHANGED <<fs, undeleted, scene, degraded, cancelled, outcome>>

(* Acquire after its last look at the flag, with its result. *)
Acquired ==
  /\ pc = "acquired"
  /\ \/ /\ degraded' \in BOOLEAN
        /\ fs' = [fs EXCEPT !["rawPartial"] = Telling(@, degraded')]
        /\ Goto("finish")
     \/ Abandon(RemoveStagingFiles, "asks") /\ UNCHANGED <<fs, degraded>>
  /\ UNCHANGED <<undeleted, scene, cancelled, outcome>>

Finish ==
  /\ pc = "finish"
  /\ Goto("flush") \/ Abandon(RemoveStagingFiles, "failed")
  /\ UNCHANGED <<fs, undeleted, scene, degraded, cancelled, outcome>>

FlushForgotten ==
  /\ pc = "flush"
  /\ Goto("map") /\ UNCHANGED fs
  /\ UNCHANGED <<undeleted, scene, degraded, cancelled, outcome>>

Flush ==
  /\ pc = "flush"
  /\ \/ /\ fs' = [fs EXCEPT !["rawPartial"] = Flushed(@)]
        /\ Goto("map")
     \/ Abandon(RemoveStagingFiles, "failed") /\ UNCHANGED fs
  /\ UNCHANGED <<undeleted, scene, degraded, cancelled, outcome>>

(* WriteAtomicString creates a new file ... *)
CreateSidecar(path, next) ==
  /\ \/ ~Exists(path) /\ fs' = [fs EXCEPT ![path] = Mine(FALSE)] /\ Goto(next)
     \/ Abandon(RemoveStagingFiles, "failed") /\ UNCHANGED fs
  /\ UNCHANGED <<undeleted, scene, degraded, cancelled, outcome>>

(* ... writes and flushes it, or deletes it again. *)
FlushSidecar(path, next) ==
  /\ \/ fs' = [fs EXCEPT ![path] = Flushed(@)] /\ Goto(next)
     \/ Abandon(<<path>> \o RemoveStagingFiles, "failed") /\ UNCHANGED fs
  /\ UNCHANGED <<undeleted, scene, degraded, cancelled, outcome>>

WriteMapJson ==
  \/ pc = "map" /\ CreateSidecar("mapPartial", "mapFlush")
  \/ pc = "mapFlush" /\ FlushSidecar("mapPartial", "hash")

WriteSha256Sidecar ==
  \/ pc = "hash" /\ CreateSidecar("hashPartial", "hashFlush")
  \/ pc = "hashFlush" /\ FlushSidecar("hashPartial", "promoteMap")

MoveReplacing(from, to) ==
  fs' = [fs EXCEPT ![to] = fs[from], ![from] = Absent]

(* MoveFileExW without MOVEFILE_REPLACE_EXISTING. *)
Move(from, to) ==
  /\ ~Exists(to)
  /\ fs' = [fs EXCEPT ![to] = fs[from], ![from] = Absent]

Promote(from, to, next, files) ==
  /\ \/ Move(from, to) /\ Goto(next)
     \/ Abandon(files, "failed") /\ UNCHANGED fs
  /\ UNCHANGED <<undeleted, scene, degraded, cancelled, outcome>>

PromoteMap ==
  /\ pc = "promoteMap"
  /\ Promote("mapPartial", "mapFinal", "promoteHash", RemoveStagingFiles)

SidecarsKept ==
  /\ pc = "promoteHash"
  /\ Promote("hashPartial", "hashFinal", "promoteRaw", RemoveStagingFiles)

PromoteHash ==
  /\ pc = "promoteHash"
  /\ Promote("hashPartial", "hashFinal", "promoteRaw",
             RemoveStagingFiles \o RemoveFinalizedSidecars)

PromoteRaw ==
  /\ pc = "promoteRaw"
  /\ Promote("rawPartial", "rawFinal", "return",
             RemoveStagingFiles \o RemoveFinalizedSidecars)

(* DeleteIfPresent.  Whether the deletion succeeded is not looked at; it   *)
(* can fail when some other program has the file open.                     *)
Delete ==
  /\ pc = "cleanup" /\ todo # <<>>
  /\ todo' = Tail(todo)
  /\ \/ /\ fs' = [fs EXCEPT ![Head(todo)] = Absent]
        /\ UNCHANGED undeleted
     \/ /\ Exists(Head(todo))
        /\ undeleted' = undeleted \cup {Head(todo)}
        /\ UNCHANGED fs
  /\ UNCHANGED <<scene, pc, degraded, cancelled, failure, outcome>>

ReturnFailure ==
  /\ pc = "cleanup" /\ todo = <<>>
  /\ outcome' = IF failure = "asks" /\ cancelled THEN "cancelled" ELSE "failed"
  /\ pc' = "idle"
  /\ UNCHANGED <<place, scene, degraded, cancelled, failure>>

LateCancelWins ==
  /\ pc = "return"
  /\ outcome' = IF cancelled THEN "cancelled"
                ELSE IF degraded THEN "incomplete" ELSE "complete"
  /\ pc' = "idle"
  /\ UNCHANGED <<place, scene, degraded, cancelled, failure>>

(* A cancellation that came too late is not looked at. *)
ReturnSuccess ==
  /\ pc = "return"
  /\ outcome' = IF degraded THEN "incomplete" ELSE "complete"
  /\ pc' = "idle"
  /\ UNCHANGED <<place, scene, degraded, cancelled, failure>>

Transaction ==
  \/ Check \/ Prepare \/ Open \/ Preflight \/ Acquiring \/ Acquired \/ Finish
  \/ Flush \/ WriteMapJson \/ WriteSha256Sidecar \/ PromoteMap \/ PromoteHash
  \/ PromoteRaw \/ Delete \/ ReturnFailure \/ ReturnSuccess

(* The console handler, or the window's Cancel button. *)
Cancel ==
  /\ pc # "idle" /\ ~cancelled
  /\ cancelled' = TRUE
  /\ UNCHANGED <<place, scene, pc, degraded, failure, outcome>>

(* Another program creates a file. *)
Intrude ==
  /\ intruders < MaxForeign
  /\ intruders' = intruders + 1
  /\ \E p \in Paths : ~Exists(p) /\ fs' = [fs EXCEPT ![p] = Foreign]
  /\ UNCHANGED <<pc, format, degraded, cancelled, todo, failure, outcome,
                 session, existed, undeleted>>

(* The process dies, or the power fails. *)
Crash ==
  /\ pc # "idle"
  /\ pc' = "idle" /\ outcome' = "crashed" /\ todo' = <<>>
  /\ UNCHANGED <<fs, undeleted, scene, degraded, cancelled, failure>>

(* Between captures the operator collects the evidence and the leftovers. *)
Collect ==
  /\ pc = "idle"
  /\ fs' = [p \in Paths |-> Absent] /\ intruders' = 0
  /\ UNCHANGED <<todo, undeleted, format, session, existed, pc, degraded,
                 cancelled, failure, outcome>>

Next == Begin \/ Transaction \/ Cancel \/ Intrude \/ Crash \/ Collect

Spec == Init /\ [][Next]_vars
---------------------------------------------------------------------------
(* Properties.                                                             *)

(* Every variable has its type. *)
TypeOK ==
  /\ fs \in [Paths -> {Absent, Foreign} \cup Evidence]
  /\ pc \in {"idle", "check", "prepare", "open", "preflight", "acquire",
             "acquired", "finish", "flush", "map", "mapFlush", "hash",
             "hashFlush", "promoteMap", "promoteHash", "promoteRaw", "return",
             "cleanup"}
  /\ format \in {"raw", "container"} /\ degraded \in BOOLEAN
  /\ cancelled \in BOOLEAN /\ todo \in Seq(Paths)
  /\ failure \in {"failed", "asks"}
  /\ outcome \in {"none", "complete", "incomplete", "failed", "cancelled",
                  "crashed"}
  /\ session \in 0..MaxSessions /\ intruders \in 0..MaxForeign
  /\ existed \subseteq Paths /\ undeleted \subseteq Paths

(* evidence_transaction.cpp:209-215: an image under its canonical name has *)
(* both its sidecars beside it, written by the same capture and flushed,   *)
(* through crashes, leftovers of earlier captures and other programs.      *)
ImageImpliesBundle ==
  fs["rawFinal"] \in Evidence =>
    /\ fs["rawFinal"].durable
    /\ fs["mapFinal"] = fs["rawFinal"]
    /\ fs["hashFinal"] = fs["rawFinal"]

(* README.md, "refuses to overwrite existing evidence or staging files":   *)
(* whatever was under one of the six names when a capture began is there,  *)
(* unchanged, as long as it runs.                                          *)
PreexistingUntouched ==
  [][pc # "idle" => \A p \in existed : fs'[p] = fs[p]]_vars

(* A capture that has failed or was cancelled leaves a file of its own     *)
(* only where a deletion was refused by the system, except the staged      *)
(* image of a container format (see StagingRemoved).                       *)
FailureLeavesNothing ==
  outcome \in {"failed", "cancelled"} /\ pc = "idle" =>
    \A p \in Paths \ undeleted :
      Own(p) => p = "rawPartial" /\ format = "container"

(* README.md, exit code 1: "no final bundle published; staging files       *)
(* removed", for every format and deletions that succeed.                  *)
StagingRemoved ==
  outcome \in {"failed", "cancelled"} /\ pc = "idle" /\ undeleted = {} =>
    \A p \in Partials : ~Own(p)

(* docs/FORENSIC_INTEGRITY.md, section 5: failure edges remove the sidecars *)
(* "already promoted by the current process": what the rollback deletes    *)
(* under a final name is not another program's file.                       *)
RollsBackOwnSidecars ==
  pc = "cleanup" /\ todo # <<>> /\ Head(todo) \in {"mapFinal", "hashFinal"} =>
    fs[Head(todo)] # Foreign

(* Whenever the other program comes, a file of its own that has one of the *)
(* six names is not replaced or deleted, with two exceptions: the rollback *)
(* deletes by name what it takes for its own (but never an image or a map  *)
(* under its final name), and a container writer truncates what has the    *)
(* name of its staging file.                                               *)
ForeignFilesKept ==
  [][pc # "idle" => \A p \in Paths :
       fs[p] = Foreign /\ fs'[p] # Foreign =>
         \/ pc = "open" /\ format = "container" /\ p = "rawPartial"
         \/ pc = "cleanup" /\ p \in {"mapPartial", "hashPartial", "hashFinal"}
    ]_vars

(* The three renames look like one. *)
Publication == INSTANCE AtomicPublication WITH
  NoBundle <- Absent,
  capture <- session,
  busy <- pc # "idle",
  bundle <- IF fs["rawFinal"] \in Evidence
            THEN [image |-> fs["rawFinal"], map |-> fs["mapFinal"],
                  hash |-> fs["hashFinal"]]
            ELSE Absent,
  answer <- outcome

PublishesAtomically == Publication!Spec
=============================================================================
