---------------------------- MODULE ImageWriters ----------------------------
(***************************************************************************)
(* The three IRawWriter implementations of cli/raw_writer.cpp,             *)
(* cli/zdmp_writer.cpp and cli/e01_writer.cpp: what is in the image file   *)
(* when a writer has sealed it, and whether it can be read back.           *)
(*                                                                         *)
(* A file is a sequence of cells.  A byte of memory is named by its        *)
(* physical address; a header, a section or a checksum is one cell, though *)
(* it takes one to three WriteFile calls.  The engine is a stub: it        *)
(* hands a writer some bytes or skips some in a page, by the steps of      *)
(* MemoryWalk, which Acquire is shown to take.  Other programs take space  *)
(* on the volume meanwhile, and every system call may fail.  The volume    *)
(* and its file system are external; a sparse file is allocated in         *)
(* granules.  Nothing in this repository reads the containers: what a      *)
(* reader finds is derived from the headers and the tables the writers     *)
(* leave for one.                                                          *)
(***************************************************************************)
EXTENDS Naturals, Sequences, FiniteSetsExt

CONSTANTS
  Layouts,     \* sequences of [base, length]: sorted, apart, in whole pages
  Volumes,     \* records [sparse, fat, free]: where the image goes
  PageSize,    \* PHYLA_PAGE_SIZE
  MaxTransfer, \* PHYLA_MAX_TRANSFER
  MaxHeaderRuns, \* the runs a DumpHeader64 holds
  ChunkSize,   \* E01Writer::kChunkSize
  Word,        \* 2^32, where the chunk offsets of the E01 table wrap
  Headroom,    \* kDiskHeadroomBytes
  FatLimit,    \* kMaxFatFileBytes
  Granule,     \* the allocation unit of a sparse file
  MaxOthers    \* bound: the space other programs take during a capture

ASSUME WritersAssumption ==
  /\ {PageSize, MaxTransfer, ChunkSize, Word, Granule} \subseteq Nat \ {0}
  /\ {MaxHeaderRuns, Headroom, FatLimit, MaxOthers} \subseteq Nat
  /\ ChunkSize <= Word

ASSUME LayoutsAssumption ==
  \A rs \in Layouts :
    /\ rs \in Seq([base : Nat, length : Nat \ {0}]) /\ Len(rs) > 0
    /\ \A i, j \in DOMAIN rs : i < j => rs[i].base + rs[i].length <= rs[j].base
    /\ \A i \in DOMAIN rs :
         rs[i].base % PageSize = 0 /\ rs[i].length % PageSize = 0

ASSUME VolumesAssumption ==
  Volumes \subseteq [sparse : BOOLEAN, fat : BOOLEAN, free : Nat]

VARIABLES
  format,  \* the effective output format
  runs,    \* the runs the writer was configured with
  volume,  \* the volume of the staging file
  phase,   \* "closed", "open", "sealed" or "failed"
  file,    \* the cells of the staging file
  buffer,  \* E01: chunkBuffer_, the part in use
  chunks,  \* E01: chunkTableOffsets_
  run,     \* the engine: the run it is in
  offset,  \* and offsetWithinRun
  others,  \* space taken by other programs since the preflight looked
  given,   \* history: the addresses WriteAt has accepted
  ranOut,  \* history: a call failed because the volume could not hold more
  linked   \* history: E01: the calls that link the table in succeeded

setting == <<format, runs, volume>>
walk == <<run, offset>>
vars == <<setting, phase, file, buffer, chunks, walk, others, given, ranOut,
          linked>>

Min2(a, b) == IF a < b THEN a ELSE b

---------------------------------------------------------------------------
(* Files                                                                   *)

Byte(a) == [kind |-> "byte", at |-> a]
Zero == [kind |-> "zero"]
Mark(kind) == [kind |-> kind]
DumpHeader(list) == [kind |-> "dump", runs |-> list]
Sectors(next) == [kind |-> "sectors", next |-> next]
Table(offsets) == [kind |-> "table", chunks |-> offsets]

Zeros(n) == [i \in 1..n |-> Zero]
Bytes(a, n) == [i \in 1..n |-> Byte(a + i - 1)]

(* The file when the cells have been written at a position of it; what it *)
(* lacks up to there reads as zeros.                                       *)
Overlay(f, at, cells) ==
  [i \in 1..IF Len(f) < at + Len(cells) THEN at + Len(cells) ELSE Len(f) |->
     IF i \in at + 1..at + Len(cells) THEN cells[i - at]
     ELSE IF i <= Len(f) THEN f[i] ELSE Zero]

---------------------------------------------------------------------------
(* The memory                                                              *)

(* The lengths of a list of runs before the i-th. *)
Below(list, i) == MapThenSumSet(LAMBDA j : list[j].length, 1..i - 1)

PhysicalBelow(i) == Below(runs, i)
PhysicalSize == PhysicalBelow(Len(runs) + 1)
LogicalSize == runs[Len(runs)].base + runs[Len(runs)].length
InRun(a, i) == a \in runs[i].base..runs[i].base + runs[i].length - 1
Address == runs[run].base + offset
RestOfRun == runs[run].length - offset
AtEnd == run > Len(runs)

(* What CaptureEvidenceToFile makes of --format and of the extension. *)
EffectiveFormat(requested, extension) ==
  IF requested # "raw" \/ extension = "other" THEN requested
  ELSE IF extension = "dmp" THEN "zdmp" ELSE extension

Init ==
  /\ \E requested \in {"raw", "zdmp", "e01"},
        extension \in {"other", "zdmp", "dmp", "e01"} :
       format = EffectiveFormat(requested, extension)
  /\ runs \in Layouts /\ volume \in Volumes /\ phase = "closed"
  /\ file = <<>> /\ buffer = <<>> /\ chunks = <<>> /\ run = 1 /\ offset = 0
  /\ others = 0 /\ given = {} /\ ranOut = FALSE /\ linked = FALSE

---------------------------------------------------------------------------
(* The volume                                                              *)

Allocated(f, written) ==
  IF format = "raw" /\ volume.sparse
  THEN Granule * Cardinality({a \div Granule : a \in written})
  ELSE Len(f)

Fits(f, written) ==
  /\ Allocated(f, written) + others <= volume.free
  /\ volume.fat => Len(f) <= FatLimit

Fail(full) ==
  /\ phase' = "failed" /\ ranOut' = (ranOut \/ full)
  /\ UNCHANGED <<setting, file, buffer, chunks, walk, others, given, linked>>

(* The file becomes f, if the volume can hold it and the calls succeed. *)
Stores(f, written) == Fits(f, written) /\ file' = f /\ UNCHANGED ranOut
StoreFails(f, written) ==
  Fail(FALSE) \/ (~Fits(f, written) /\ Fail(TRUE))

(* Another program writes to the volume. *)
OthersTake ==
  /\ phase = "open" /\ others < MaxOthers
  /\ others' = others + 1
  /\ UNCHANGED <<setting, phase, file, buffer, chunks, walk, given, ranOut,
                 linked>>

(* The addresses written once n bytes more have been handed over. *)
Handed(n) == given \cup {Address + i : i \in 0..n - 1}

Advance(n) ==
  IF n = RestOfRun THEN (run' = run + 1 /\ offset' = 0)
                   ELSE (run' = run /\ offset' = offset + n)

(* WriteAt returns true. *)
Accepted(n) ==
  /\ given' = Handed(n) /\ Advance(n)
  /\ UNCHANGED <<setting, phase, others, linked>>

Opens(f) ==
  \/ /\ Stores(f, {}) /\ phase' = "open"
     /\ UNCHANGED <<setting, buffer, chunks, walk, others, given, linked>>
  \/ StoreFails(f, {})

---------------------------------------------------------------------------
(* RawWriter                                                               *)

PreflightOfPayload ==
  /\ LogicalSize > 0 /\ PhysicalSize <= LogicalSize
  /\ volume.fat => LogicalSize <= FatLimit
  /\ PhysicalSize + Headroom <= volume.free

(* Its checks of the arguments and of the volume. *)
Preflight ==
  /\ LogicalSize > 0 /\ PhysicalSize <= LogicalSize
  /\ volume.fat => LogicalSize <= FatLimit
  /\ (IF volume.sparse THEN PhysicalSize ELSE LogicalSize) + Headroom
       <= volume.free

(* CREATE_NEW, FSCTL_SET_SPARSE and SetEndOfFile. *)
RawPreflightAndOpen ==
  /\ format = "raw" /\ phase = "closed"
  /\ IF Preflight THEN Opens(Zeros(LogicalSize)) ELSE Fail(FALSE)

(* It is refused beyond the logical size, like a call that fails. *)
RawWriteAt(n) ==
  LET f == Overlay(file, Address, Bytes(Address, n)) IN
  /\ format = "raw"
  /\ \/ /\ Address + n <= LogicalSize /\ Stores(f, Handed(n)) /\ Accepted(n)
        /\ UNCHANGED <<buffer, chunks>>
     \/ StoreFails(f, Handed(n))

---------------------------------------------------------------------------
(* ZdmpWriter                                                              *)

HeaderSize == 1

RunFileOffsetFlat(i) == HeaderSize + runs[i].base

(* runFileOffsets_, of all runs, whatever the header holds. *)
RunFileOffset(i) == HeaderSize + PhysicalBelow(i)

(* The runs in the header are counted in pages. *)
HeaderRuns ==
  [i \in 1..Min2(Len(runs), MaxHeaderRuns) |->
     [basePage |-> runs[i].base \div PageSize,
      pageCount |-> runs[i].length \div PageSize]]

ZdmpPreflightAndOpen ==
  /\ format = "zdmp" /\ phase = "closed"
  /\ Opens(<<DumpHeader(HeaderRuns)>>)

(* An address in no run would be written right after the header. *)
CalculateFileOffset(a) ==
  IF \E i \in DOMAIN runs : InRun(a, i)
  THEN LET i == CHOOSE j \in DOMAIN runs : InRun(a, j) IN
       RunFileOffset(i) + (a - runs[i].base)
  ELSE HeaderSize

ZdmpWriteAt(n) ==
  LET f == Overlay(file, CalculateFileOffset(Address), Bytes(Address, n)) IN
  /\ format = "zdmp"
  /\ \/ /\ Stores(f, Handed(n)) /\ Accepted(n) /\ UNCHANGED <<buffer, chunks>>
     \/ StoreFails(f, Handed(n))

(* RawWriter and ZdmpWriter: FlushFileBuffers. *)
FlushAndClose ==
  /\ phase = "open" /\ AtEnd /\ format # "e01"
  /\ \/ /\ phase' = "sealed"
        /\ UNCHANGED <<setting, file, buffer, chunks, walk, others, given,
                       ranOut, linked>>
     \/ Fail(FALSE)

---------------------------------------------------------------------------
(* E01Writer                                                               *)

(* WriteHeaderSection and WriteVolumeSection, after the file header. *)
HeaderSections == <<Mark("file"), Mark("header"), Mark("volume")>>

SectorsSectionOffset == Len(HeaderSections)

(* Then the header of the sectors section, whose end is not known yet. *)
E01PreflightAndOpen ==
  /\ format = "e01" /\ phase = "closed"
  /\ Opens(Append(HeaderSections, Sectors(0)))

(* CalculateAdler32 of a chunk; nobody compares it. *)
Checksum == Mark("checksum")

(* The first c chunks of a stream, each followed by its checksum. *)
Chunked(stream, c) ==
  [i \in 1..c * (ChunkSize + 1) |->
     LET chunk == (i - 1) \div (ChunkSize + 1)
         k == (i - 1) % (ChunkSize + 1)
     IN IF k = ChunkSize THEN Checksum
        ELSE stream[chunk * ChunkSize + k + 1]]

(* FlushActiveChunk enters each chunk with its distance from the sectors   *)
(* section, cut to 32 bits.                                                *)
ChunkOffsets(c) ==
  [i \in 1..c |->
     (Len(file) + (i - 1) * (ChunkSize + 1) - SectorsSectionOffset) % Word]

FullChunksLate(n) == (n - 1) \div ChunkSize

(* A chunk that is full is flushed before WriteAt returns. *)
FullChunks(n) == n \div ChunkSize

(* The address is not looked at: the bytes go to the end of the stream. *)
E01WriteAt(n) ==
  LET stream == buffer \o Bytes(Address, n)
      c == FullChunks(Len(stream))
      f == file \o Chunked(stream, c)
  IN /\ format = "e01"
     /\ \/ /\ Stores(f, Handed(n)) /\ Accepted(n)
           /\ buffer' = SubSeq(stream, c * ChunkSize + 1, Len(stream))
           /\ chunks' = chunks \o ChunkOffsets(c)
        \/ StoreFails(f, Handed(n))

(* WriteTableSection, WriteHashSection and WriteDoneSection. *)
LastSections(offsets) == <<Table(offsets), Mark("hash"), Mark("done")>>

(* The last chunk is filled up with zeros and flushed.  Then the sectors   *)
(* section is to get its end: two seeks and one write that nobody checks;  *)
(* what follows is written wherever they have left the file pointer.       *)
E01FlushAndClose ==
  LET rest == IF buffer = <<>> THEN 0 ELSE 1
      padded == buffer \o Zeros(rest * ChunkSize - Len(buffer))
      full == file \o Chunked(padded, rest)
      all == chunks \o ChunkOffsets(rest)
      end == Len(full)
  IN /\ phase = "open" /\ AtEnd /\ format = "e01"
     /\ \E back, rewrite, forth \in BOOLEAN :
          LET at == IF back THEN SectorsSectionOffset ELSE end
              f == IF rewrite THEN Overlay(full, at, <<Sectors(end)>>) ELSE full
              on == IF forth THEN end ELSE IF rewrite THEN at + 1 ELSE at
              sealed == Overlay(f, on, LastSections(all))
          IN \/ /\ Stores(sealed, given) /\ phase' = "sealed"
                /\ chunks' = all /\ buffer' = <<>>
                /\ linked' = (back /\ rewrite /\ forth)
                /\ UNCHANGED <<setting, walk, others, given>>
             \/ StoreFails(sealed, given)

---------------------------------------------------------------------------
(* The engine                                                              *)

WriteAt ==
  /\ phase = "open" /\ ~AtEnd
  /\ \E n \in 1..Min2(MaxTransfer, RestOfRun) :
       RawWriteAt(n) \/ ZdmpWriteAt(n) \/ E01WriteAt(n)

(* What cannot be read, at most up to the end of its page, is not handed   *)
(* over.                                                                   *)
Skip ==
  /\ phase = "open" /\ ~AtEnd
  /\ \E n \in 1..Min2(PageSize - (Address % PageSize), RestOfRun) : Advance(n)
  /\ UNCHANGED <<setting, phase, file, buffer, chunks, others, given, ranOut,
                 linked>>

Next ==
  \/ RawPreflightAndOpen \/ ZdmpPreflightAndOpen \/ E01PreflightAndOpen
  \/ WriteAt \/ Skip \/ FlushAndClose \/ E01FlushAndClose \/ OthersTake

Spec == Init /\ [][Next]_vars

---------------------------------------------------------------------------
(* What a reader finds                                                     *)

At(position) == IF position < Len(file) THEN file[position + 1] ELSE Zero

RawCell(a) == At(a)

(* The runs of the header, one after the other behind it. *)
ZdmpCell(a) ==
  LET header == file[1].runs
      list == [i \in DOMAIN header |->
                 [base |-> header[i].basePage * PageSize,
                  length |-> header[i].pageCount * PageSize]]
      holds(i) == a \in list[i].base..list[i].base + list[i].length - 1
  IN IF \E i \in DOMAIN list : holds(i)
     THEN LET i == CHOOSE j \in DOMAIN list : holds(j) IN
          At(HeaderSize + Below(list, i) + (a - list[i].base))
     ELSE Mark("missing")

(* The bytes of physical memory below an address: its place on the medium. *)
Place(a) ==
  LET i == CHOOSE j \in DOMAIN runs : InRun(a, j) IN
  PhysicalBelow(i) + (a - runs[i].base)

(* From the sectors section to the table, from there to the chunk. *)
E01Cell(a) ==
  LET sectors == At(SectorsSectionOffset)
      table == At(sectors.next)
      chunk == Place(a) \div ChunkSize + 1
  IN IF sectors.kind = "sectors" /\ table.kind = "table"
       /\ chunk \in DOMAIN table.chunks
     THEN At(SectorsSectionOffset + table.chunks[chunk] + (Place(a) % ChunkSize))
     ELSE Mark("missing")

Found(a) ==
  CASE format = "raw"  -> RawCell(a)
    [] format = "zdmp" -> ZdmpCell(a)
    [] format = "e01"  -> E01Cell(a)

ReadsBack == \A a \in given : Found(a) = Byte(a)

(* Where that can be expected of a format.  A crash dump has room for so   *)
(* many runs; an E01 image needs its links, offsets that fit, and every    *)
(* byte below the last one it was given.                                   *)
Contiguous ==
  \A a \in given, b \in 0..LogicalSize :
    b < a /\ (\E i \in DOMAIN runs : InRun(b, i)) => b \in given

Representable ==
  CASE format = "raw"  -> TRUE
    [] format = "zdmp" ->
         \A a \in given, i \in DOMAIN runs : InRun(a, i) => i <= MaxHeaderRuns
    [] format = "e01"  ->
         \/ given = {}
         \/ /\ linked /\ Contiguous
            /\ (Len(chunks) - 1) * (ChunkSize + 1) + 1 < Word

---------------------------------------------------------------------------
(* Properties                                                              *)

(* Every variable has its type; a full chunk never stays in the buffer.    *)
TypeOK ==
  /\ format \in {"raw", "zdmp", "e01"} /\ runs \in Layouts
  /\ volume \in Volumes /\ phase \in {"closed", "open", "sealed", "failed"}
  /\ \A i \in DOMAIN file : file[i].kind \in
       {"byte", "zero", "dump", "sectors", "table", "file", "header", "volume",
        "checksum", "hash", "done"}
  /\ Len(buffer) < ChunkSize /\ DOMAIN chunks = 1..Len(chunks)
  /\ run \in 1..Len(runs) + 1 /\ offset \in Nat
  /\ ~AtEnd => offset < runs[run].length
  /\ others \in 0..MaxOthers /\ \A a \in given : \E i \in DOMAIN runs : InRun(a, i)
  /\ {ranOut, linked} \subseteq BOOLEAN

(* An image that was sealed without an error gives back every byte that    *)
(* was written to it, at its own address, exactly when its format could    *)
(* represent the capture: a raw image always does, through gaps, touching  *)
(* runs, unreadable pages and short reads; a crash dump for the runs its   *)
(* header holds; an E01 image only of a capture without a gap and when the *)
(* calls nobody checks have succeeded.                                     *)
SealedReadsBack == phase = "sealed" => (ReadsBack <=> Representable)

(* The preflight of a raw image is enough: once it has passed, no later    *)
(* call is refused for lack of space or for the size of the file, while    *)
(* other programs take no more than the headroom less what the granules of *)
(* a sparse file add at the ends of the runs.                              *)
RawNeverRunsOut ==
  format = "raw" /\ others + Len(runs) * 2 * Granule <= Headroom => ~ranOut
=============================================================================
