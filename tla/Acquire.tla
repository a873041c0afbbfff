------------------------------ MODULE Acquire ------------------------------
(***************************************************************************)
(* The acquisition engine, Acquire() of cli/acquire.cpp: it walks the      *)
(* frozen physical-memory runs in address order, reads each in transfers   *)
(* of at most MaxTransfer bytes, retries what a short transfer did not     *)
(* deliver page by page, records the pages that return nothing as          *)
(* unreadable with their NTSTATUS, and feeds the image and the hash stream *)
(* side by side.                                                           *)
(*                                                                         *)
(* The device is external: a read returns any number of bytes, any values  *)
(* (memory is live, so two reads of one address need not agree) and any    *)
(* status, and may also answer about another address or not at all.  The   *)
(* image and the hash provider may fail at every call.  Another thread may *)
(* set the cancellation flag at any moment.                                *)
(*                                                                         *)
(* An address stands for one byte.  Not modelled here: 64-bit overflow of  *)
(* the counters (the layouts end below AddressLimit), the progress report  *)
(* (only its byte count is kept) and the kernel hints, whose failure is    *)
(* ignored by the code.                                                    *)
(***************************************************************************)
EXTENDS Integers, Sequences, FiniteSets

CONSTANTS
  AddressLimit, \* the addresses are 0 .. AddressLimit - 1
  PageSize,     \* PHYLA_PAGE_SIZE
  MaxTransfer,  \* PHYLA_MAX_TRANSFER
  Layouts,      \* the run tables DeviceSession::Query may return
  Before,       \* Before[rs][i]: bytes of the runs of rs before its i-th
  Byte, Zero,   \* byte values, and the one that fills what was not written
  Status,       \* NTSTATUS codes a copy may fail with
  Hole,         \* an address of the image that was never written
  RateLimited   \* config.rateLimitMBps # 0

Address == 0 .. AddressLimit - 1

End(run) == run.base + run.length

(* The tables DeviceSession::Query lets through: no run is empty, the runs *)
(* are in address order and do not overlap (they may touch), and each says *)
(* which of the driver's runs it is.                                       *)
IsLayout(rs) ==
  /\ Len(rs) > 0
  /\ \A i \in 1..Len(rs) : rs[i].length > 0 /\ End(rs[i]) <= AddressLimit
  /\ \A i, j \in 1..Len(rs) :
       i < j => /\ End(rs[i]) <= rs[j].base
                /\ rs[i].driverIndex # rs[j].driverIndex
  /\ {rs[i].driverIndex : i \in 1..Len(rs)} = 0 .. Len(rs) - 1

IsPrefixSum(rs, sum) ==
  /\ sum \in [1..Len(rs) + 1 -> Nat]
  /\ sum[1] = 0
  /\ \A i \in 1..Len(rs) : sum[i + 1] = sum[i] + rs[i].length

ASSUME SizesAssumption ==
  /\ AddressLimit \in Nat
  /\ PageSize \in Nat \ {0}
  /\ MaxTransfer \in Nat \ {0}
  /\ RateLimited \in BOOLEAN

ASSUME LayoutsAssumption ==
  /\ Layouts \subseteq Seq([driverIndex : Nat, base : Nat, length : Nat])
  /\ \A rs \in Layouts : IsLayout(rs) /\ IsPrefixSum(rs, Before[rs])

ASSUME BytesAssumption ==
  /\ Zero \in Byte
  /\ Hole \notin Byte /\ Hole \notin Status /\ Byte \cap Status = {}

VARIABLES
  pc,              \* where the engine is (see Stages)
  pacing,          \* inside PaceTransfer, after a transfer that moved bytes
  runs,            \* summary.ranges; <<>> until the query has answered
  index,           \* the run being read
  offset,          \* offsetWithinRun
  chunkEnd,        \* end of the window that is read page by page
  image,           \* the output: address -> byte, or Hole
  hashed,          \* the bytes fed to the hasher, in order
  hashPosition,    \* hashPosition
  acquiredBytes,   \* summary.acquiredBytes
  unreadableBytes, \* summary.unreadableBytes
  processed,       \* processedPhysicalBytes
  unreadable,      \* summary.unreadable
  topologyChanged, \* summary.topologyChanged
  cancelled,       \* the flag shared with the console handler or the GUI
  observed         \* history: the status the device gave for a byte, or Hole

position == <<index, offset>>
stored == <<image, hashed, hashPosition, acquiredBytes>>
marked == <<unreadableBytes, unreadable, observed>>
vars == <<pc, pacing, runs, chunkEnd, processed, topologyChanged, cancelled,
          position, stored, marked>>

Stages == {"query", "chunk", "page", "tail", "end", "completed", "failed"}

Ended == pc \in {"completed", "failed"}

Smaller(a, b) == IF a <= b THEN a ELSE b

Run == runs[index]
LogicalSize == IF runs = <<>> THEN 0 ELSE End(runs[Len(runs)])
PhysicalBytes == Before[runs][Len(runs) + 1]
Here == Run.base + offset

---------------------------------------------------------------------------
(* The data path of one transfer.                                          *)

ZerosTo(pa) == [i \in 1 .. pa - hashPosition |-> Zero]
ForgetsTheGap(pa) == <<>>

(* hashZerosTo: the zeros fed to the hasher to reach address pa. *)
GapZeros(pa) == ZerosTo(pa)

Written(pa, n, data) ==
  [a \in Address |-> IF a \in pa .. pa + n - 1 THEN data[a - pa + 1]
                                              ELSE image[a]]

AcceptsAnyAddress(result, pa, n) == result.requested = n

(* ValidateReadResult.  DeviceSession::Read has already refused a result    *)
(* whose length does not fit its data.                                     *)
ValidateReadResult(result, pa, n) ==
  /\ result.physicalAddress = pa
  /\ result.requested = n

StoreCountingRequested(result) ==
  /\ hashed' = hashed \o GapZeros(result.physicalAddress) \o result.data
  /\ image' = Written(result.physicalAddress, result.copied, result.data)
  /\ hashPosition' = result.physicalAddress + result.copied
  /\ offset' = offset + result.copied
  /\ processed' = processed + result.copied
  /\ acquiredBytes' = acquiredBytes + result.requested
  /\ pacing' = RateLimited
  /\ UNCHANGED <<index, runs, topologyChanged, cancelled, marked>>

(* A transfer of result.copied bytes reaches the hash stream and the image, *)
(* in that order, and the counters follow.                                 *)
Store(result) ==
  /\ result.physicalAddress >= hashPosition
  /\ hashed' = hashed \o GapZeros(result.physicalAddress) \o result.data
  /\ image' = Written(result.physicalAddress, result.copied, result.data)
  /\ hashPosition' = result.physicalAddress + result.copied
  /\ offset' = offset + result.copied
  /\ processed' = processed + result.copied
  /\ acquiredBytes' = acquiredBytes + result.copied
  /\ pacing' = RateLimited
  /\ UNCHANGED <<index, runs, topologyChanged, cancelled, marked>>

(* One of the calls of the transfer fails: the zeros, the write (which may *)
(* have put part of the data on disk) or the update of the hash.           *)
StoreFails(result) ==
  /\ \/ UNCHANGED <<image, hashed, hashPosition>>
     \/ /\ \E k \in 0 .. result.copied :
             image' = Written(result.physicalAddress, k, result.data)
        /\ result.physicalAddress >= hashPosition
        /\ hashed' = hashed \o GapZeros(result.physicalAddress)
        /\ hashPosition' = result.physicalAddress
  /\ pc' = "failed"
  /\ UNCHANGED <<pacing, runs, chunkEnd, position, acquiredBytes, processed,
                 marked, topologyChanged, cancelled>>

NeverCoalesces(pa, status) == FALSE
CoalescesAnyStatus(pa, status) ==
  /\ unreadable # <<>>
  /\ unreadable[Len(unreadable)].start + unreadable[Len(unreadable)].length = pa

CoalescesAnyAddress(pa, status) ==
  unreadable # <<>> /\ unreadable[Len(unreadable)].status = status

(* Whether AddUnreadable extends the last span: it ends at pa and has the  *)
(* same status.  The run the span lies in is not looked at.                *)
Coalesces(pa, status) ==
  /\ unreadable # <<>>
  /\ LET last == unreadable[Len(unreadable)]
     IN  last.start + last.length = pa /\ last.status = status

(* AddUnreadable, and the advance past the page that follows it. *)
MarkUnreadable(pa, n, status) ==
  /\ unreadable' =
       IF Coalesces(pa, status)
       THEN [unreadable EXCEPT ![Len(unreadable)].length = @ + n]
       ELSE Append(unreadable, [start |-> pa, length |-> n, status |-> status])
  /\ unreadableBytes' = unreadableBytes + n
  /\ observed' = [a \in Address |-> IF a \in pa .. pa + n - 1 THEN status
                                                             ELSE observed[a]]
  /\ processed' = processed + n
  /\ offset' = offset + n
  /\ UNCHANGED <<index, runs, pacing, stored, topologyChanged, cancelled>>

---------------------------------------------------------------------------
Init ==
  /\ pc = "query" /\ pacing = FALSE
  /\ runs = <<>> /\ index = 1 /\ offset = 0 /\ chunkEnd = 0
  /\ image = [a \in Address |-> Hole]
  /\ hashed = <<>> /\ hashPosition = 0
  /\ acquiredBytes = 0 /\ unreadableBytes = 0 /\ processed = 0
  /\ unreadable = <<>> /\ observed = [a \in Address |-> Hole]
  /\ topologyChanged = FALSE /\ cancelled = FALSE

(* Every failing call makes Acquire return false at once. *)
Fail ==
  /\ pc' = "failed"
  /\ UNCHANGED <<pacing, runs, chunkEnd, processed, topologyChanged,
                 cancelled, position, stored, marked>>

Query ==
  /\ pc = "query"
  /\ \/ \E rs \in Layouts : runs' = rs /\ pc' = "chunk"
     \/ pc' = "failed" /\ UNCHANGED runs
  /\ UNCHANGED <<pacing, chunkEnd, processed, topologyChanged, cancelled,
                 position, stored, marked>>

(* The head of the loop over the runs: the run is finished. *)
NextRun ==
  /\ pc = "chunk" /\ ~pacing /\ offset = Run.length
  /\ IF index < Len(runs) THEN index' = index + 1 /\ offset' = 0 /\ pc' = pc
                          ELSE pc' = "tail" /\ UNCHANGED position
  /\ UNCHANGED <<pacing, runs, chunkEnd, processed, topologyChanged,
                 cancelled, stored, marked>>

(* What the device may answer to a request for n bytes at pa: also about   *)
(* the address after it or about a longer request (a driver that mixed its *)
(* runs or its requests up).                                               *)
ReadResults(pa, n) ==
  UNION {[physicalAddress : {pa, pa + 1}, requested : {n, n + 1}, copied : {c},
          copyStatus : Status, data : [1..c -> Byte]] : c \in 0..n}

(* Where the loops are after a transfer: only a whole one needs no (more)  *)
(* isolation.                                                              *)
AfterTransfer(copied, n) == IF copied = n THEN "chunk" ELSE "page"

(* One pass of the outer loop: a transfer of up to MaxTransfer bytes.  The *)
(* flag is loaded before the read; that a cancellation arriving between    *)
(* the load and the read goes unnoticed is the order "read, then Cancel".  *)
ReadChunk ==
  /\ pc = "chunk" /\ ~pacing /\ offset < Run.length /\ ~cancelled
  /\ LET n == Smaller(MaxTransfer, Run.length - offset)
     IN  \E result \in ReadResults(Here, n) :
           /\ ValidateReadResult(result, Here, n)
           /\ \/ /\ result.copied # 0
                 /\ Store(result)
                 /\ pc' = AfterTransfer(result.copied, n)
                 /\ chunkEnd' = offset + n
              \/ result.copied # 0 /\ StoreFails(result)
              \/ /\ result.copied = 0
                 /\ pc' = AfterTransfer(0, n)
                 /\ chunkEnd' = offset + n
                 /\ UNCHANGED <<pacing, runs, position, processed, stored,
                                marked, topologyChanged, cancelled>>

IgnoresPageBoundary(pa, left) == Smaller(PageSize, left)

OffsetInPage(pa, left) == Smaller(pa % PageSize, left)

(* The rest of the page at pa, inside what is left of the window. *)
PageRequest(pa, left) == Smaller(PageSize - (pa % PageSize), left)

(* One pass of the isolation loop.  A page that arrives whole ends the     *)
(* isolation and the next pass is a full transfer again; a page that       *)
(* arrives in part is asked for again from where it stopped; a page that   *)
(* returns nothing is unreadable.                                          *)
ReadPage ==
  /\ pc = "page" /\ ~pacing /\ offset < chunkEnd /\ ~cancelled
  /\ LET n == PageRequest(Here, chunkEnd - offset)
     IN  \E result \in ReadResults(Here, n) :
           /\ ValidateReadResult(result, Here, n)
           /\ \/ /\ result.copied # 0
                 /\ Store(result)
                 /\ pc' = AfterTransfer(result.copied, n)
                 /\ UNCHANGED chunkEnd
              \/ result.copied # 0 /\ StoreFails(result)
              \/ /\ result.copied = 0
                 /\ MarkUnreadable(Here, n, result.copyStatus)
                 /\ UNCHANGED <<pc, chunkEnd>>

(* The window has been gone through. *)
WindowDone ==
  /\ pc = "page" /\ ~pacing /\ offset >= chunkEnd
  /\ pc' = "chunk"
  /\ UNCHANGED <<pacing, runs, chunkEnd, processed, topologyChanged,
                 cancelled, position, stored, marked>>

AboutToRead ==
  /\ ~pacing
  /\ \/ pc = "chunk" /\ offset < Run.length
     \/ pc = "page" /\ offset < chunkEnd

(* The read fails or its result is about something else. *)
ReadFails == AboutToRead /\ ~cancelled /\ Fail

CancelPolledAgain == AboutToRead /\ cancelled /\ UNCHANGED vars

(* The loads of the flag at the head of both loops. *)
CancelSeen == AboutToRead /\ cancelled /\ Fail

(* PaceTransfer: the sleep ends when the target time has come or the flag  *)
(* is set; either way the flag decides what it returns.                    *)
Pace ==
  /\ pacing /\ ~Ended
  /\ IF cancelled THEN Fail
     ELSE /\ pacing' = FALSE
          /\ UNCHANGED <<pc, runs, chunkEnd, processed, topologyChanged,
                         cancelled, position, stored, marked>>

(* hashZerosTo(logicalSize). *)
HashTail ==
  /\ pc = "tail"
  /\ \/ Fail
     \/ /\ LogicalSize >= hashPosition
        /\ hashed' = hashed \o GapZeros(LogicalSize)
        /\ hashPosition' = LogicalSize
        /\ pc' = "end"
        /\ UNCHANGED <<pacing, runs, chunkEnd, processed, topologyChanged,
                       cancelled, position, image, acquiredBytes, marked>>

(* device.End: the driver compares the run table with the live one. *)
EndSession ==
  /\ pc = "end"
  /\ \/ Fail
     \/ /\ topologyChanged' \in BOOLEAN
        /\ pc' = "completed"
        /\ UNCHANGED <<pacing, runs, chunkEnd, processed, cancelled, position,
                       stored, marked>>

(* The console handler or the GUI thread. *)
Cancel ==
  /\ ~cancelled /\ ~Ended
  /\ cancelled' = TRUE
  /\ UNCHANGED <<pc, pacing, runs, chunkEnd, processed, topologyChanged,
                 position, stored, marked>>

Returned == Ended /\ UNCHANGED vars

Engine ==
  \/ Query \/ NextRun \/ ReadChunk \/ ReadPage \/ WindowDone \/ ReadFails
  \/ CancelSeen \/ Pace \/ HashTail \/ EndSession

Next == Engine \/ Cancel \/ Returned

(* The engine's thread is scheduled and every device, file and hash call   *)
(* returns; nobody has to cancel.                                          *)
Spec == Init /\ [][Next]_vars /\ WF_vars(Engine)
---------------------------------------------------------------------------
(* Properties.                                                             *)

Span == [start : Address, length : Nat \ {0}, status : Status]

(* Every variable has its type; a run and an offset inside it are selected *)
(* as long as the loops of Acquire() run.                                  *)
TypeOK ==
  /\ pc \in Stages /\ pacing \in BOOLEAN
  /\ runs \in Layouts \cup {<<>>}
  /\ index \in Nat \ {0} /\ offset \in Nat /\ chunkEnd \in Nat
  /\ image \in [Address -> Byte \cup {Hole}]
  /\ hashed \in Seq(Byte) /\ hashPosition \in Nat
  /\ acquiredBytes \in Nat /\ unreadableBytes \in Nat /\ processed \in Nat
  /\ unreadable \in Seq(Span)
  /\ observed \in [Address -> Status \cup {Hole}]
  /\ topologyChanged \in BOOLEAN /\ cancelled \in BOOLEAN

Reading == pc \in {"chunk", "page"}
ReadThrough == pc \in {"tail", "end", "completed"}

(* The physical bytes the engine has gone past. *)
Passed(a) ==
  \E i \in 1..Len(runs) :
    /\ runs[i].base <= a
    /\ \/ i < index /\ a < End(runs[i])
       \/ i = index /\ a < runs[i].base + offset

InSpan(a, span) == span.start <= a /\ a < span.start + span.length
Covered(a) == \E k \in 1..Len(unreadable) : InSpan(a, unreadable[k])
Acquired(a) == image[a] # Hole

(* The flat RAW file reads zeros where nothing was written. *)
RawByte(a) == IF Acquired(a) THEN image[a] ELSE Zero

(* acquire.cpp's accounting: bytes acquired and bytes marked unreadable add *)
(* up to the bytes of the runs before this one plus the offset in it, so    *)
(* that after the last run they add up to physicalBytes, whatever mixture   *)
(* of full, short, retried and empty transfers led there.                   *)
Accounted ==
  /\ acquiredBytes + unreadableBytes = processed
  /\ Reading => processed = Before[runs][index] + offset
  /\ ReadThrough => processed = PhysicalBytes

(* The retry of a short transfer neither skips a byte nor reads it twice:   *)
(* the bytes passed, and only those, are either in the image or inside a    *)
(* span of the unreadable list, and none is both.  Bytes that are in no run *)
(* are never written.                                                       *)
ExactlyOnce ==
  pc # "failed" =>
    \A a \in Address :
      /\ Passed(a) <=> (Acquired(a) \/ Covered(a))
      /\ ~(Acquired(a) /\ Covered(a))

(* The counters of the summary count the bytes they claim to count: the    *)
(* bytes of the image that were written and the bytes the spans cover.     *)
CountersMatchEvidence ==
  pc # "failed" =>
    /\ acquiredBytes = Cardinality({a \in Address : Acquired(a)})
    /\ unreadableBytes = Cardinality({a \in Address : Covered(a)})

(* The stream fed to the hasher, which carries no addresses, is the flat    *)
(* image up to hashPosition, zeros included, and nothing was written beyond *)
(* it; when the acquisition has completed it is the whole logical image.    *)
HashMatchesImage ==
  pc # "failed" =>
    /\ Len(hashed) = hashPosition
    /\ \A a \in Address : a < hashPosition => hashed[a + 1] = RawByte(a)
    /\ \A a \in Address : a >= hashPosition => ~Acquired(a)
    /\ pc \in {"end", "completed"} => hashPosition = LogicalSize

(* AddUnreadable keeps its list in address order, without overlap, and as  *)
(* short as it can be: spans that touch differ in their status.            *)
SpansCanonical ==
  \A k \in 1 .. Len(unreadable) - 1 :
    LET this == unreadable[k]
        next == unreadable[k + 1]
    IN  /\ this.start + this.length <= next.start
        /\ this.start + this.length = next.start => this.status # next.status

(* Coalescing does not lose the NTSTATUS of a byte: each byte of a span was *)
(* refused by the device with the span's status.                            *)
StatusFaithful ==
  \A k \in 1..Len(unreadable) : \A a \in Address :
    InSpan(a, unreadable[k]) => observed[a] = unreadable[k].status

Touching(rs) == \E i \in 1 .. Len(rs) - 1 : End(rs[i]) = rs[i + 1].base

(* docs/MAP_SCHEMA.md, section 5: a span lies in one reported run. *)
SpansWithinOneRun ==
  \A k \in 1..Len(unreadable) : \E i \in 1..Len(runs) :
    /\ runs[i].base <= unreadable[k].start
    /\ unreadable[k].start + unreadable[k].length <= End(runs[i])

(* README.md: a failed transfer is isolated at page granularity.  What one *)
(* step adds to the unreadable bytes lies in a single page.                *)
IsolatedToPage ==
  [][\A a, b \in Address :
       /\ observed[a] = Hole /\ observed'[a] # Hole
       /\ observed[b] = Hole /\ observed'[b] # Hole
       => a \div PageSize = b \div PageSize]_vars

(* The engine ends: retrying pages always gets further, whatever the       *)
(* device answers, and every pacing sleep ends.                            *)
Terminates == <>Ended

(* The engine implements the provenance promise. *)
ByteProvenance(a) ==
  IF Acquired(a) THEN image[a]
  ELSE IF Covered(a)
       THEN unreadable[CHOOSE k \in 1..Len(unreadable) :
                         InSpan(a, unreadable[k])].status
       ELSE Hole

Promise == INSTANCE Provenance WITH
  Unknown <- Hole,
  phys <- {a \in Address : \E i \in 1..Len(runs) :
             runs[i].base <= a /\ a < End(runs[i])},
  bytes <- [a \in Address |-> ByteProvenance(a)],
  outcome <- IF Ended THEN pc ELSE "running",
  digest <- IF pc = "completed" THEN hashed ELSE <<>>

KeepsProvenancePromise == Promise!Spec

(* Where the engine is between two writes: a run that is done is behind.   *)
(* Once Acquire() has returned true nothing but the seal is left to do.    *)
RunDone == runs # <<>> /\ offset = Run.length

Walk == INSTANCE MemoryWalk WITH
  stage <- CASE pc = "query"     -> "before"
             [] pc = "failed"    -> "failed"
             [] pc = "completed" -> "sealed"
             [] OTHER            -> "walking",
  run <- IF RunDone THEN index + 1 ELSE index,
  offset <- IF RunDone THEN 0 ELSE offset,
  given <- {a \in Address : Acquired(a)}

(* The engine asks a writer for nothing the writers' model leaves out: it  *)
(* hands over consecutive pieces of a run, skips what it cannot read       *)
(* inside one page at a time, however transfer, retry and window cut       *)
(* across pages, and returns success only after the last run.              *)
HandsOverInOrder == Walk!Spec
=============================================================================
