------------------------------ MODULE Verifier ------------------------------
(***************************************************************************)
(* The offline verifier, verify_bundle() of tools/phylaram-verify: what it *)
(* accepts, as a predicate on a provenance map, an image file and a SHA-256*)
(* sidecar.  The checks are conjuncts in the order of the code; each one   *)
(* that is false is an early return of an error there.                     *)
(*                                                                         *)
(*   map   [status, logicalSize, physicalBytes, acquiredBytes,             *)
(*          unreadableBytes, topologyChanged, sha256, ranges, unreadable]  *)
(*   file  [size, at]: its length and the byte at each offset              *)
(*                                                                         *)
(* A digest is the byte sequence it is the digest of (SHA-256 is taken to  *)
(* be injective).  Reading the files, the JSON and the hexadecimal fields, *)
(* the producer and schema tags and 64-bit overflow are left out.          *)
(***************************************************************************)
EXTENDS Integers, Sequences, FiniteSetsExt

CONSTANT Zero

Upto(range) == range.base + range.length

LengthOf(seq) == MapThenSumSet(LAMBDA k : seq[k].length, 1..Len(seq))

HighestEnd(ranges) == Max({Upto(ranges[k]) : k \in 1..Len(ranges)})

(* validate_ranges *)
ValidRanges(map) ==
  /\ map.ranges # <<>>
  /\ \A k \in 1..Len(map.ranges) :
       /\ map.ranges[k].length # 0
       /\ \A j \in 1 .. k - 1 :
            map.ranges[j].driverIndex # map.ranges[k].driverIndex
       /\ Upto(map.ranges[k]) <= map.logicalSize
       /\ k > 1 => map.ranges[k].base >= Upto(map.ranges[k - 1])
  /\ LengthOf(map.ranges) = map.physicalBytes
  /\ HighestEnd(map.ranges) = map.logicalSize
  /\ {map.ranges[k].driverIndex : k \in 1..Len(map.ranges)}
       = 0 .. Len(map.ranges) - 1

(* span_is_contained_in_range *)
ContainedInRange(span, ranges) ==
  \E k \in 1..Len(ranges) :
    /\ span.start >= ranges[k].base
    /\ span.start + span.length <= Upto(ranges[k])

(* validate_unreadable_spans *)
ValidUnreadableSpans(map) ==
  /\ \A k \in 1..Len(map.unreadable) :
       LET span == map.unreadable[k]
       IN  /\ span.length # 0
           /\ k > 1 => LET previous == map.unreadable[k - 1]
                       IN  span.start >= previous.start + previous.length
           /\ ContainedInRange(span, map.ranges)
  /\ LengthOf(map.unreadable) = map.unreadableBytes

(* validate_status *)
ValidStatus(map) ==
  map.status = IF map.topologyChanged \/ map.unreadableBytes # 0
               THEN "incomplete" ELSE "complete"

(* verify_unreadable_representation *)
ZeroBacked(map, file) ==
  \A k \in 1..Len(map.unreadable) :
    \A i \in 0 .. map.unreadable[k].length - 1 :
      file.at[map.unreadable[k].start + i] = Zero

(* calculate_logical_raw_sha256 *)
LogicalDigest(file, size) == [i \in 1..size |-> file.at[i - 1]]

(* verify_bundle *)
VerifyBundle(map, file, sidecar) ==
  /\ file.size = map.logicalSize
  /\ ValidRanges(map)
  /\ ValidUnreadableSpans(map)
  /\ map.acquiredBytes + map.unreadableBytes = map.physicalBytes
  /\ ValidStatus(map)
  /\ ZeroBacked(map, file)
  /\ LogicalDigest(file, map.logicalSize) = map.sha256
  /\ sidecar = map.sha256
=============================================================================
