# A verified model of PhylaRAM

PhylaRAM acquires the physical memory of a Windows machine: a small kernel
driver serves bounded reads, a C++ engine reads all of memory through it and
writes an image, a map of what could not be read and a digest, and an
independent verifier re-checks the three files. This directory holds TLA+
models of that program, the TLC configurations that check them on small
instances, and theorems about them that the TLAPS proof system checks.
`PROJECT.json` connects each definition to the source lines it stands for, each
run to its properties, and each property to a plausible bug that breaks it.

## 1. The system

| Component | State | Operations | Interacts with |
| --- | --- | --- | --- |
| Driver file object and session (`driver/driver.c`, `session.c`) | the context: frozen range table, run count, ended flag | create, cleanup, close; `PhylaSessionBegin/Release/End` | KMDF (exclusive device, sequential queue, synchronization scope), the memory manager |
| Driver I/O controls (`driver/ioctl.c`, `memory.c`) | none of their own | query info, get ranges, read run, end session, query hints | the session |
| `DeviceSession` (`cli/device.cpp`) | the handle, the last error | Open, Query, Read, End, Close | the driver, by I/O controls |
| Acquisition engine (`cli/acquire.cpp`) | run, offset, window, counters, unreadable spans, hash position | `Acquire` | DeviceSession, writer, hasher, the cancel flag |
| Evidence transaction (`cli/evidence_transaction.cpp`, `map.cpp`) | six path names, the result | `CaptureEvidenceToFile`, atomic strings, promotion, rollback | the file system, the engine |
| Writers (`raw_writer.cpp`, `zdmp_writer.cpp`, `e01_writer.cpp`) | the staged image, run offsets, the chunk in progress and the chunk table | preflight/open, write, flush/close | the engine, the file system and its volume |
| `Sha256` (`sha256.cpp`) | a BCrypt hash object | Update, UpdateZeros, Finish | the engine |
| Driver runtime (`driver_service.cpp`, `driver_resource.cpp`, `main.cpp`) | the service record, the extracted file | Start, Stop | the Service Control Manager, other processes |
| Window (`gui.cpp`) | `working_`, `closing_`, `cancelled_`, the worker, the message queue | start, cancel, close, messages | the worker thread |
| Verifier (`tools/phylaram-verify`) | none | `verify_bundle` | the three files |

What makes it hard: live memory changes between two reads of the same page;
transfers are short, fail, or answer something else; a session races its own
handle's cleanup; three files have to appear as one although the system may
crash between any two calls and other programs write to the same directory;
several processes fight over one service name with time limits on every wait;
a user cancels and closes at any moment; and two programs, in two languages,
have to agree on what a valid bundle is.

What makes each part correct:

* driver: no table is used after it was freed or leaked; a session's answers are
  all about the table frozen at the open; every handle closes;
* client: an accepted table is sorted and disjoint, and reads return the
  addresses asked for although the client sorts and the driver does not;
* engine: each address of each run is stored or marked exactly once, the digest
  is that of the image, the spans are canonical and say why;
* transaction: an image is never without its sidecars, earlier evidence is never
  touched, a failure leaves nothing behind, and success is said only of what is
  there;
* writers: a sealed image gives every byte back at its own address, wherever its
  format can, and a raw image that passed its preflight does not run out of room;
* runtime: nothing is left behind by a run that reports a clean end, its exit code
  tells whether there is a bundle, and every run ends;
* window: nothing leaks, no message outlives its operation, cancel means this
  capture, close closes.

## 2. The modules

| Module | Models | Kind |
| --- | --- | --- |
| `Provenance` | what an image promises about each byte of physical memory | abstract |
| `MemoryWalk` | the order in which a capture goes through memory, seen from its output | abstract |
| `Acquire` | `Acquire()` | detailed, implements `Provenance` and `MemoryWalk` |
| `Verifier` | `verify_bundle` as a predicate | pure operators |
| `EvidenceBundle` | the engine's output, the map written from it, the verifier on it | composes `Acquire` and `Verifier` |
| `AtomicPublication` | a bundle appears whole or not at all | abstract |
| `EvidenceTransaction` | `CaptureEvidenceToFile` and the file system | detailed, implements `AtomicPublication` |
| `MemorySession` | what one open handle promises | abstract |
| `DriverSession` | the driver | detailed, implements `MemorySession` |
| `DeviceClient` | `DeviceSession` over the driver's table, summary and copy | composes both ends |
| `ImageWriters` | the raw, crash dump and E01 writers, and what a reader finds in their files | detailed |
| `DriverRuntime` | `RunCapture`, `RunDryRun` and `DriverRuntime` in several processes | detailed |
| `CaptureWindow` | `MainWindow` and its worker | detailed |
| `EvidenceBundleProofs` | types, loops, accounting, image, digest, spans and counters of `Acquire`, its refinement of `Provenance` and of `MemoryWalk`, the verifier's verdict | proofs |
| `EvidenceTransactionProofs` | theorems about `EvidenceTransaction` | proofs |
| `DriverSessionProofs`, `DeviceClientProofs` | theorems about the two ends of the session | proofs |
| `ImageWritersProofs` | theorems about `ImageWriters` | proofs |
| `DriverRuntimeProofs`, `CaptureWindowProofs` | theorems about `DriverRuntime` and `CaptureWindow` | proofs |
| `FoldTheorems` | least elements, induction on sets of numbers, folds and sums over positions | lemmas |
| `MC*` | constants for TLC | instances |

**Acquire.** The variables are the locals of `Acquire()`: `runs`, `index`,
`offset`, `chunkEnd`, `processed`, the summary's counters and its list of spans,
and `hashPosition`. `image` and `hashed` are what the writer and the hasher have
been given. `ReadChunk` is one turn of the outer loop, `ReadPage` one turn of the
retry loop; each contains the read, the validation of the answer, gap zeros,
write, hash and bookkeeping in the code's order, with a failure of any call.
`ReadResults` is what `DeviceSession::Read` may return, bytes included: two reads of
one address need not agree, and an answer may be about another address or another
length than the request, which `ValidateReadResult` has to notice. Digests are compared as the streams
they were computed from. Progress reports are left out. The constant `Before`
gives each layout the sums of its run lengths, so that no recursive operator is
needed; an assumption says that it does.

**MemoryWalk.** The runs in order, every byte passed once: handed over in a piece of at most
one transfer, or skipped inside one page; the image is sealed after the last run; a write
that fails may leave a part of its piece. `Acquire` is shown to take only such steps. The
engine of `ImageWriters` is a stub that has the same steps written out; that they are
the same is plain to see and proves nothing about a writer, so no run or theorem says it.
A run that has been read is behind
(`RunDone`) although the engine turns to the next one only in its next pass.

**EvidenceBundle.** The map's status line is computed as `map.cpp` does, the
whole is handed to the verifier's `VerifyBundle`, a translation of the Rust code.

**EvidenceTransaction.** `fs` maps each of the six names to what is under it: absent,
another program's, or a capture's, durable or not. Each system call is an action,
so a crash fits between any two. `todo` is the list of deletions a failure still
has to do; a deletion may be refused. `Intrude` lets another program create files
at any time, `Collect` lets the operator take evidence away between captures.

**DriverSession.** `context` is `PHYLA_FILE_CONTEXT`, `pool` the tables allocated. A
handler runs in steps (check, use, copy, compare), so that a release between
check and use would be seen; `lock` is the framework's synchronization scope.
Words are bounded by `MaxWord`, so sums that would wrap are visible.

**DeviceClient.** The memory manager may report any array, unsorted, overlapping or
overflowing; `QueryAccepts` is the whole of `DeviceSession::Query` over both query
requests, `Read` goes by the driver's index.

**ImageWriters.** A file is a sequence of cells: a byte of memory, named by its address,
or a header, section, table or checksum. `runs` is the run table a writer was
configured with, `buffer` and `chunks` are `chunkBuffer_` and `chunkTableOffsets_`. The
engine is a stub: it hands over some bytes, in any pieces a transfer can have, or
skips some inside a page. `RawWriteAt`, `ZdmpWriteAt` and `E01WriteAt` place the same bytes by
address, by run table and by order of arrival; `E01FlushAndClose` includes the two
seeks and the write that the code does not check. `Found` reads an address back the
way the headers and tables of each format tell a reader to; the reader is not in
this repository. The volume may be full, and other programs fill it meanwhile.

**DriverRuntime.** `pc[p]` walks process p through Start, capture and Stop, one action
per call to the Service Control Manager. `StopServiceIfRunning` has three callers;
`caller` remembers which. The manager itself is external: a record marked for
deletion disappears when it is stopped and the last handle to it is closed.
`WaitUntilServiceIsDeleted` opens the record (`Probe`), holds on to it while it sleeps
(`Sleep`) and gives up after `Attempts` handles, counted in `probes`: it keeps the very
record alive whose end it awaits, for itself until the next attempt and for every
other process, two waiting ones included. `Leftover` are the records an earlier
run may have left, in any state. `command[p]` is capture or dry run; `Inspect` is what the
latter does with the device. `Capture` ends with the last time `Acquire` looks at the flag,
which is before its last read; from there (`FinishCapture`) a cancellation is not noticed.
`Fill` writes and flushes the extracted driver, or deletes it again. `ExitCode` is the
number the process returns, after `Stop` and its cleanup status. `timedOut`, `found` and
`asked` are history.

**CaptureWindow.** Messages carry their payloads; `heap` counts payloads that are
allocated. A message box is a nested message loop: buttons are dead, `WM_CLOSE` is
not. Posting fails when the queue is full. The worker's `stage` keeps the places of a capture
where the flag makes a difference: `LookAtFlag` is the look before a read, the only
one by which `Acquire` stops of its own accord; `Transfer` is the read with what follows
it, `ReportProgress` the report of a whole window, the last one after the last look;
`Finish` the last zeros and End. A failure of any of these reads the flag again and is
called a cancellation if it is set (`AcquireFails`). `asked` records whether a look
followed the raising of the flag (`"before"`) or none has yet (`"late"`).

## 3. The runs

| Run | What it shows | Bounds |
| --- | --- | --- |
| `acquire` | exactly-once, counters, digest equals image, canonical and faithful spans, agreement with the verifier, refinement of `Provenance` and of `MemoryWalk`, termination | addresses below 7, pages of 2, transfers of 4, two layouts (139,422 states) |
| `acquire_spans` | a span may cross two touching runs (finding) | same |
| `transaction` | bundle integrity through crashes, refused deletions and other programs; refinement of `AtomicPublication` | two captures, two foreign files, RAW and container (245,914 states) |
| `staging` | a container writer that fails to open leaves its staging file (finding) | same |
| `rollback` | the rollback deletes a foreign digest (finding) | same, RAW |
| `driver_session` | memory safety, refinement of `MemorySession`, every handle closes | two tables, three-bit words, two pending requests (83,336 states) |
| `device_client` | layout, read addresses, one table per session | every array of at most two entries over three-bit words and some of three (82,070 states) |
| `image_writers` | a sealed image reads back exactly where its format can represent the capture; the raw preflight is enough | four layouts, six volumes, pages of 2, chunks of 4, headers of two runs, chunk offsets below 10 (489,426 states) |
| `driver_runtime` | clean end, replacement, exit codes, termination | two processes, two runs, two probes, a driver an earlier run may have left running: one process captures and is interrupted, the other makes dry runs and is killed (560,272 states) |
| `runtime_stop` | a timed-out stop may be reported clean (finding) | one process, one run |
| `runtime_cancel` | Ctrl+C during the start is lost (finding) | one process, one run |
| `capture_window` | payload ownership, message order, cancel, names, closing | three operations, any number of progress messages, a queue of two (1,802 states) |

Why the bounds are enough. `acquire`: the layouts have a run that starts and ends
inside a page, a hole before and between runs, runs that touch inside a page and a
run longer than a transfer, so first and last page, retry after a short transfer,
gap, coalescing in a window, across windows and across runs all happen.
`transaction`: a second capture finds the leftovers of the first, including those
of a crash; two foreign files suffice to meet each promotion once. `driver_session`:
a request can run while another is queued and the handle is closed. `image_writers`:
the layouts have a gap, touching runs, one run more than the header holds, a padded
last chunk, a third chunk whose offset no longer fits, and a gap larger than the
headroom; the volumes have exactly what a preflight asks for, less, or plenty, with
and without sparse files and with a limit on the size of a file. `driver_runtime`:
a process meets a service in each state of the other's, including an abandoned
one; each wait may expire at any time; two probes are enough for the
second to find the record gone or still there, and for both processes to sleep on one. `capture_window`: with a queue of two the
post of progress and that of the result both fail somewhere; the third operation
sees a flag set by the first or second.

`driver_runtime` and its two companions, `capture_window` and `image_writers` do not
check for deadlock: there the program ends, or the number of its runs or operations
is bounded.

The five violations are disagreements between the code and its documents; each
property states the document's words, and a companion property states what does
hold (`OnlyContainmentIsRefused`, `FailureLeavesNothing`,
`ForeignFilesKept`, `CleanUnlessTimedOut`; for a cancellation during the start
`CancelMeansThisCapture`, which the window satisfies because it resets its flag
before it starts the driver).

Two more disagreements are in no run of their own; the property that states what the code
does instead is checked and proved. `README.md:81` says of exit code 1 that no bundle was
published: `ExitCodeTells` says that one may have been, with a cleanup error.
`tests/TEST_PLAN.md:126` says that a cancellation publishes nothing: the flag is not looked
at after the last read has begun, so a cancellation during that read, its report, the last
zeros or End is published when they succeed, in the window as on the command line.
`CancelMeansThisCapture` excludes a finalized capture only when a look was still to come,
and `asked` of `DriverRuntime` is limited in the same way, so that the trace of
`runtime_cancel` is about the reset of the flag and not about this.

### Fairness

* `Acquire`: weak fairness of the engine. It is one thread in a loop, and the
  calls it makes return; nothing is asked of the device's answers.
* `DriverSession`: weak fairness of presenting a request, the running handler and the
  file callbacks, which the framework schedules; none of the client.
* `DriverRuntime`: weak fairness of each process. Its steps include the expiry of
  each wait, so nothing is asked of the manager or the kernel.
* `CaptureWindow`: weak fairness of the message loop and of the worker; none of the
  user. That a capture nobody cancels ends is `Terminates` of `Acquire`; here its loop may
  go on, but one that is to be closed has its flag set and ends at the next look. That
  its start and stop end is `ExitsInTheEnd`.
* `EvidenceTransaction`, `DeviceClient`, `ImageWriters`: none; only safety is claimed.

## 4. The theorems

All are checked by TLAPS for every value of the constants that satisfies the named
assumptions of the modules (positive page and transfer sizes, layouts that are
sorted, disjoint and numbered as `DeviceSession::Query` guarantees and `LayoutAlways` proves, tables whose ends fit a
word as the memory manager's do, model values that differ from data). For the writers the
runs are also whole pages, as the driver's are, and a chunk is no larger than the range
of a chunk offset: `kChunkSize` is 64 KiB, the offsets have 32 bits.

* **Engine.** `TypeCorrect` rests on `Positioned`: while a loop runs a run is selected, the
  offset is inside it, and the window read page by page ends inside it; without
  these the address computed next is not known to be an address of the image.
  `AccountingCorrect` adds `Blank` (nothing is counted before the query) and shows
  that acquired and unreadable bytes add up to the bytes passed, and to all bytes
  of all runs after the last. `DigestOfImage` needs no more than that: once positions
  are typed, a stored answer and the zeros before it extend the stream and the image
  alike, a hole of the image being a zero of the stream. `SpansInOrder` and `StatusKept`
  rest on `Behind`: every span ends before the byte asked for next, so the next one
  extends the last or follows it, and which of the two the code's test on status and
  address decides. `EachByteOnce` compares three sets: a step passes the bytes from
  `Here` on, none of which was passed before because runs ascend, and adds the same
  bytes to the image or to the spans. `CountersTrue` follows from that by cardinality.
  `PagesIsolated` is arithmetic: a request of `PageRequest` never leaves the page it starts in.
  `ProvenanceRefinement` maps each step to one of `Provenance` or a stutter. Its invariant
  `Evidenced` joins spans, exactly-once and digest: the first two say that what is
  known of a byte is never rewritten, although spans are rewritten in place, and at
  the end the third says that the stream covers the last physical byte.
  `WalkRefinement` needs one more fact about the loops, `Windowed`: what is read page by page is
  left of one transfer, so that no page request is larger than one. A request, answered in
  part or not at all, is then a piece or a skip of `MemoryWalk`; a write that fails halfway
  leaves a part of a piece (`WrittenPart`); and turning to the next run, which takes the engine
  a pass of its own, is a stutter. Pages and runs need not be aligned for it.
* **Bundle.** `BundleAccepted` takes the verifier's checks one by one to the invariant that
  makes each true: ranges to the layout, sums to partial sums kept beside the list of
  spans (`Summed`), zeros to `ExactlyOnce`, digest to `HashMatchesImage`. That the verifier's
  fold over a list is the last of its partial sums is `LengthOfList`. Containment is
  what remains, and without touching runs it holds: the byte at the end of a run, if
  a span went on, would lie in another run.
* **Transaction.** The invariant `Orderly` says, besides types, what the capture has
  under each name at each call (`Staged`), that no image of any capture is published
  while files may still be deleted (`Unpublished`), and that a capture past its
  collision check began where nothing was (`Vacant`). `Unpublished` is what makes
  `ImageNeverAlone` inductive: a rollback deletes sidecars by name, and only
  the absence of an image keeps that from tearing a bundle apart. `PreexistingSafe`
  follows from `Vacant`: whoever deletes began on an empty field. `Doomed` says that a
  rollback lists only its own image and map, each once, and `Swept` that at each call
  of a failing capture every file of its own is still listed, was refused, or is a
  container's staging file; `NothingLeft` and `ForeignSafe` follow. `TransactionRefinement`
  needs `Answerable`, that a capture about to answer finds what it answers for, and
  that under `Orderly` the image alone determines the bundle; each step is then a step
  of `AtomicPublication` or a stutter. It assumes, by name (`BundleAssumption`), that
  the model value for an absent file is no bundle.
* **Driver.** `Safe` says that the lock is held by whoever is inside a callback
  (`Exclusive`), that a handler past its check still has the session (`Holds`), that the
  context's table is allocated and is the frozen one (`Backed`), and that an interval
  being copied lies in a run (`CopyInRun`). From it follow `TableOutlivesUse`,
  `NothingLeaks`, and, with a refinement mapping, `SessionRefinement`: the driver
  implements `MemorySession`, overflow checks included.
* **Client.** The invariant `Client` says that what the client keeps while the handle is
  open was told by the table in force (`OfThisSession`), and what it was told is the
  driver's table in another order (`Told`). `LayoutAlways` is then about data: the driver
  added up its array in its own order and with overflow guards, the client's list is
  sorted, and the two sums agree because a sum does not depend on the order of its
  terms. `OneTableAlways` needs that the order is unique: the runs of an accepted table
  are not empty and do not overlap, so two lists of them in ascending order are
  equal. `ReadsInPlace` is the index the list carries.
* **Runtime.** `Lifecycle` is the invariant: handles and the device belong to those whose
  place in the code says so (`Held`), the sleep between two probes included; the numbers of runs are unique, the record in the
  manager cannot be that of a run which has not called `CreateServiceW`, and one about to
  call it has no record left of what it found (`Numbered`); a run that is past its wait
  left a halted record, past its deletion a marked one, past its file none of its
  files (`Cleaning`). Other processes cannot undo that: only the run that created a
  record starts it, a stopped service stays stopped, a marked record stays marked.
* **Window.** `Tidy` adds to types, ownership and order of the messages that the
  window works as long as a worker has not been joined, and that a window that has
  gone has no worker. `PayloadsOwned` and `QueueIsCurrent` follow for any queue
  limit and number of operations. `Honest` adds that a flag which is set has been
  asked for in this operation, that a worker past its last look was not asked before
  it, and that nobody edits the destination while a
  result is on its way to its box; `CancelIsThisCapture` and `NamesAreTheWorkers` follow, the
  latter because `SetWorking` disables the control and not because the result kept the name.
* **Writers.** `TypeCorrect` rests on `Shape`, which adds to the types that the walk is inside a
  run and every address given in some run. `RawFitsAlways` counts granules: the addresses
  of a run touch at most two more than its length fills (`GranulesOfRun`), so those of all
  runs fit into what the preflight asked for, and a dense file has its size from the
  start (`Sized`). `ReadsBackAlways` is about contents, and its invariant has a part for each
  kind of format. `Kept`: raw images and dumps hold each byte given at its `Position`, and two
  bytes never have one position, because `Place`, the number of bytes of memory below an
  address, grows with the address (`PlaceOrder`); a reader of a dump arrives at the same
  place by the page counts of the header, run after run. `Chained`: the addresses
  given to an E01 writer, in ascending order, are one stream (`Streaming`), whose full
  chunks are in the file and whose rest is in the buffer, each chunk at its table entry's
  offset modulo the word; cutting a stream into chunks piece by piece or at once
  is the same (`ChunkedContinues`). When it is sealed, the table is reached if and only if all
  three unchecked calls succeeded, in each of the eight outcomes (`LinksTell`). What
  remains is arithmetic: without a gap the j-th address given is the j-th of
  memory (`NoGap`), and, the other way, the last address given can only be found if its
  place is its number in the stream and the last chunk's offset did not wrap
  (`E01Needs`), because a wrapped offset misses the chunk by more than a chunk.
  The layouts of the writers are narrower than the engine's: whole pages.
* **Lemmas.** `FoldTheorems` is about the folds of the community modules. That a function
  satisfying their recursive equation exists has to be shown before its values can be
  spoken of (`FoldExists`), and that a sum may be taken apart at any element is
  `AnyOutFirst`. The inductions are over sets of numbers (`SetInduction`, from the
  well-foundedness of `<`), because the library's induction theorems take an operator.

Only model-checked: liveness (`Terminates`, `ClosesInTheEnd`, `ExitsInTheEnd`,
`ClosesWhenAsked`), because the proof system handles neither fairness nor `ENABLED`
here. Every other property of a passing run is proved.

Proved and in no run: `Accounted`, which `ExactlyOnce` and `CountersMatchEvidence` imply once a
run does not fail, and `IsolatedToPage`, which says of the device's answers what
`HandsOverInOrder` says of the walk.

## 5. Not modelled, and why

* In the containers: case metadata, kernel hints in the dump header, and the values of
  Adler and MD5 checksums, which nothing in this repository reads. `ImageWriters` and
  `Acquire` are not composed: the stub of the former takes the steps `MemoryWalk` allows, and
  `WalkRefinement` says that the engine takes no others, but no theorem joins the two.
  `ImageWriters` and `EvidenceTransaction` are not composed: the transaction needs of a writer only that
  its open makes the staging file and that its close may fail.
* Resolving the volume of an output path, making a directory for the driver, its
  random name and its security descriptor: each is one call that may fail.
* `ParseCommandLine`, printing, painting, formatting of JSON: text.
* A topology that changes during a capture and changes back before its end: the
  driver compares the first and the last table only, and nothing is claimed of it.
* Kernel hints: data no property speaks of.
* 64-bit wrap-around of the engine's counters: their sum is bounded by the layout,
  which `DeviceSession::Query` has checked on words (`DeviceClient`).
* The digest itself: two bundles with equal digests are taken to have equal streams.
* Python converters, scripts, tests and integrations.

## 6. Plan

Done, in order of importance: engine, verifier, transaction, driver, client, runtime,
window, writers; every safety property of theirs proved; the engine shown to follow the
walk the writers are modelled under. What is left:

1. **Compose** engine and transaction with a crash in the middle of a capture, so that
   the verifier is asked about what a crash leaves.
2. **Carry data through the walk**: `MemoryWalk` speaks of addresses; with the bytes in it, what
   a sealed container gives back would be compared with what the engine has read.
