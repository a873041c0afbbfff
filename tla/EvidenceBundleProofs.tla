------------------------ MODULE EvidenceBundleProofs ------------------------
(***************************************************************************)
(* Theorems about Acquire and the bundle made of its output, for every     *)
(* page size, transfer size, set of run tables, byte values and NTSTATUS   *)
(* codes: the types, where the loops can be and the accounting of the      *)
(* bytes; the digest of the image, the image of the spans, the spans of    *)
(* the device's answers and the counters of both; and, of all of them      *)
(* together, the abstract promise and the verifier's verdict; last, the    *)
(* walk a writer is taken through.                                         *)
(***************************************************************************)
EXTENDS EvidenceBundle, FoldTheorems, SequenceTheorems, TLAPS

---------------------------------------------------------------------------
(* Types, loops and accounting.                                            *)

(* Where the loops can be: a run is selected while they run, the offset    *)
(* never leaves it, and the window that is read page by page ends in it.   *)
Positioned ==
  /\ Reading => runs \in Layouts /\ index \in 1..Len(runs)
                /\ offset \in 0..Run.length
  /\ pc = "page" => offset <= chunkEnd /\ chunkEnd <= Run.length
  /\ ReadThrough => runs \in Layouts /\ index = Len(runs)
                    /\ offset = Run.length
  /\ pc = "query" => runs = <<>> /\ index = 1 /\ offset = 0

PositionedType == TypeOK /\ Positioned

(* What the assumption on the layouts says of one run of a table. *)
LEMMA LayoutFacts ==
  ASSUME NEW rs \in Layouts, NEW i \in 1..Len(rs)
  PROVE  /\ rs \in Seq([driverIndex : Nat, base : Nat, length : Nat])
         /\ Len(rs) \in Nat \ {0}
         /\ rs[i].base \in Nat /\ rs[i].length \in Nat \ {0}
         /\ rs[i].base + rs[i].length <= AddressLimit
<1> DEFINE R == [driverIndex : Nat, base : Nat, length : Nat]
<1>1. rs \in Seq(R)
  BY LayoutsAssumption
<1>2. IsLayout(rs)
  BY LayoutsAssumption
<1>3. rs[i] \in R
  BY <1>1, ElementOfSeq
<1>4. Len(rs) \in Nat
  BY <1>1, LenProperties
<1> QED BY <1>1, <1>2, <1>3, <1>4 DEF IsLayout, End

(* What the device may answer. *)
LEMMA ResultFacts ==
  ASSUME NEW pa \in Nat, NEW n \in Nat, NEW result \in ReadResults(pa, n)
  PROVE  /\ result.physicalAddress \in {pa, pa + 1}
         /\ result.copied \in 0..n
         /\ result.data \in [1..result.copied -> Byte]
         /\ result.copyStatus \in Status
BY DEF ReadResults

LEMMA ZerosFacts ==
  ASSUME NEW pa \in Nat, hashPosition \in Nat, pa >= hashPosition
  PROVE  /\ GapZeros(pa) \in Seq(Byte)
         /\ Len(GapZeros(pa)) = pa - hashPosition
         /\ \A i \in 1 .. pa - hashPosition : GapZeros(pa)[i] = Zero
<1> DEFINE n == pa - hashPosition
<1>1. n \in Nat
  OBVIOUS
<1>2. GapZeros(pa) = [i \in 1..n |-> Zero]
  BY DEF GapZeros, ZerosTo
<1>3. GapZeros(pa) \in [1..n -> Byte]
  BY <1>2, BytesAssumption
<1>4. GapZeros(pa) \in Seq(Byte)
  BY <1>1, <1>3
<1>5. Len(GapZeros(pa)) = n
  BY <1>1, <1>2
<1> QED BY <1>2, <1>4, <1>5
---------------------------------------------------------------------------
(* The types, and where the loops are.                                     *)

LEMMA ConcatFacts ==
  ASSUME NEW s \in Seq(Byte), NEW k \in Nat, NEW data \in [1..k -> Byte]
  PROVE  /\ s \o data \in Seq(Byte)
         /\ Len(s \o data) = Len(s) + k
         /\ \A i \in 1 .. Len(s) + k :
              (s \o data)[i] = IF i <= Len(s) THEN s[i] ELSE data[i - Len(s)]
<1>1. data \in Seq(Byte) /\ Len(data) = k
  OBVIOUS
<1> QED BY <1>1, ConcatProperties

(* What a stored transfer does to the hashed stream and to the image: the  *)
(* zeros of the gap and the bytes read, at the end of the one, and the same *)
(* bytes at their address in the other.                                     *)
StreamGrows(pa, result) ==
  /\ Len(hashed') = Len(hashed) + (pa - hashPosition) + result.copied
  /\ \A i \in 1 .. Len(hashed) + (pa - hashPosition) + result.copied :
       hashed'[i] =
         IF i <= Len(hashed) THEN hashed[i]
         ELSE IF i <= Len(hashed) + (pa - hashPosition) THEN Zero
         ELSE result.data[i - Len(hashed) - (pa - hashPosition)]

ImageGains(pa, result) ==
  \A a \in Address :
    /\ image'[a] = IF a \in pa .. pa + result.copied - 1
                   THEN result.data[a - pa + 1] ELSE image[a]
    /\ a \in pa .. pa + result.copied - 1 => result.data[a - pa + 1] \in Byte

LEMMA StoreFacts ==
  ASSUME TypeOK, NEW pa \in Nat, NEW n \in Nat,
         NEW result \in ReadResults(pa, n), ValidateReadResult(result, pa, n),
         Store(result)
  PROVE  /\ result.copied \in 0..n
         /\ hashPosition <= pa
         /\ hashed' \in Seq(Byte)
         /\ StreamGrows(pa, result)
         /\ image' \in [Address -> Byte \cup {Hole}]
         /\ ImageGains(pa, result)
         /\ hashPosition' = pa + result.copied
<1> DEFINE c == result.copied
           gap == pa - hashPosition
           filled == hashed \o GapZeros(pa)
<1>1. /\ c \in 0..n /\ result.data \in [1..c -> Byte]
      /\ result.physicalAddress = pa
  BY ResultFacts DEF ValidateReadResult
<1>2. hashed \in Seq(Byte) /\ hashPosition \in Nat /\ Len(hashed) \in Nat
  BY LenProperties DEF TypeOK
<1>3. hashPosition <= pa
  BY <1>1 DEF Store
<1>4. /\ GapZeros(pa) \in Seq(Byte)
      /\ Len(GapZeros(pa)) = gap
      /\ \A i \in 1..gap : GapZeros(pa)[i] = Zero
  BY <1>2, <1>3, ZerosFacts
<1>5. /\ filled \in Seq(Byte)
      /\ Len(filled) = Len(hashed) + gap
      /\ \A i \in 1 .. Len(hashed) + gap :
           filled[i] = IF i <= Len(hashed) THEN hashed[i]
                       ELSE GapZeros(pa)[i - Len(hashed)]
  BY <1>2, <1>4, ConcatProperties, ZenonT(30)
<1> HIDE DEF filled, gap
<1>g. gap = pa - hashPosition /\ gap \in Nat
  BY <1>2, <1>3 DEF gap
<1>6. \A i \in 1 .. Len(hashed) + gap :
        filled[i] = IF i <= Len(hashed) THEN hashed[i] ELSE Zero
  <2> TAKE i \in 1 .. Len(hashed) + gap
  <2>1. CASE i <= Len(hashed)
    BY <2>1, <1>5
  <2>2. CASE i > Len(hashed)
    <3>1. i - Len(hashed) \in 1..gap
      BY <2>2, <1>2, <1>g
    <3> QED BY <3>1, <2>2, <1>2, <1>4, <1>5
  <2> QED BY <2>1, <2>2, <1>2, <1>g
<1>7. hashed' = filled \o result.data
  BY <1>1 DEF Store, filled
<1>c. c \in Nat /\ result.data \in [1..c -> Byte]
  BY <1>1
<1> HIDE DEF c
<1>8. /\ hashed' \in Seq(Byte)
      /\ Len(hashed') = Len(filled) + c
      /\ \A i \in 1 .. Len(filled) + c :
           hashed'[i] = IF i <= Len(filled) THEN filled[i]
                        ELSE result.data[i - Len(filled)]
  BY <1>c, <1>5, <1>7, ConcatFacts
<1>9. \A i \in 1 .. Len(hashed) + gap + c :
        hashed'[i] = IF i <= Len(hashed) THEN hashed[i]
                     ELSE IF i <= Len(hashed) + gap THEN Zero
                     ELSE result.data[i - Len(hashed) - gap]
  <2> TAKE i \in 1 .. Len(hashed) + gap + c
  <2>1. i - Len(filled) = i - Len(hashed) - gap
    BY <1>2, <1>g, <1>5, SMTT(30)
  <2>2. CASE i <= Len(hashed) + gap
    <3>1. i \in 1 .. Len(hashed) + gap
      BY <2>2, <1>2, <1>g
    <3> QED BY <3>1, <2>2, <1>c, <1>g, <1>2, <1>5, <1>6, <1>8
  <2>3. CASE i > Len(hashed) + gap
    BY <2>1, <2>3, <1>c, <1>g, <1>2, <1>5, <1>8, SMTT(30)
  <2> QED BY <2>2, <2>3, <1>2, <1>g, <1>c
<1>10. /\ image' = Written(pa, c, result.data)
       /\ hashPosition' = pa + c
  BY <1>1 DEF Store, c
<1>11. \A a \in Address :
         /\ a \in Int
         /\ a \in pa .. pa + c - 1 => result.data[a - pa + 1] \in Byte
  BY <1>c, SizesAssumption DEF Address
<1>12. image' \in [Address -> Byte \cup {Hole}]
  BY <1>10, <1>11 DEF Written, TypeOK
<1>13. StreamGrows(pa, result)
  BY <1>5, <1>8, <1>9, <1>g DEF StreamGrows, c
<1>14. ImageGains(pa, result)
  BY <1>10, <1>11 DEF ImageGains, Written, c
<1> QED BY <1>1, <1>3, <1>8, <1>10, <1>12, <1>13, <1>14 DEF c

(* The request of a pass, and the address it starts at. *)
LEMMA ChunkRequest ==
  ASSUME PositionedType, pc = "chunk", offset < Run.length,
         NEW n, n = Smaller(MaxTransfer, Run.length - offset)
  PROVE  /\ n \in Nat \ {0} /\ offset + n <= Run.length
         /\ Here \in Nat /\ Here + n <= End(Run) /\ Here + n <= AddressLimit
<1>1. runs \in Layouts /\ index \in 1..Len(runs) /\ offset \in Nat
  BY DEF PositionedType, Positioned, Reading, TypeOK
<1>2. /\ Run.base \in Nat /\ Run.length \in Nat
      /\ Run.base + Run.length <= AddressLimit
  BY <1>1, LayoutFacts DEF Run
<1>3. n \in Nat \ {0} /\ offset + n <= Run.length
  BY <1>1, <1>2, SizesAssumption, SMTT(30) DEF Smaller
<1> QED BY <1>1, <1>2, <1>3, SizesAssumption, SMTT(30) DEF Here, End

LEMMA PageRequestFacts ==
  ASSUME PositionedType, pc = "page", offset < chunkEnd,
         NEW n, n = PageRequest(Here, chunkEnd - offset)
  PROVE  /\ n \in Nat \ {0} /\ offset + n <= chunkEnd
         /\ Here \in Nat /\ Here + n <= End(Run) /\ Here + n <= AddressLimit
<1>1. /\ runs \in Layouts /\ index \in 1..Len(runs) /\ offset \in Nat
      /\ chunkEnd \in Nat /\ chunkEnd <= Run.length
  BY DEF PositionedType, Positioned, Reading, TypeOK
<1>2. /\ Run.base \in Nat /\ Run.length \in Nat
      /\ Run.base + Run.length <= AddressLimit
  BY <1>1, LayoutFacts DEF Run
<1>3. Here \in Nat /\ chunkEnd - offset \in Nat \ {0}
  BY <1>1, <1>2 DEF Here
<1>4. Here % PageSize \in 0 .. PageSize - 1
  BY <1>3, SizesAssumption
<1> DEFINE toBoundary == PageSize - (Here % PageSize)
<1>5. toBoundary \in Nat \ {0}
  BY <1>4, SizesAssumption
<1>6. n \in Nat \ {0} /\ n <= chunkEnd - offset
  <2> HIDE DEF toBoundary
  <2>1. n = Smaller(toBoundary, chunkEnd - offset)
    BY DEF PageRequest, toBoundary
  <2> QED BY <2>1, <1>3, <1>5 DEF Smaller
<1>7. Here + n <= Run.base + Run.length
  BY <1>1, <1>2, <1>6, SMTT(30) DEF Here
<1>8. offset + n <= chunkEnd
  BY <1>1, <1>6
<1> QED BY <1>2, <1>3, <1>6, <1>7, <1>8, SizesAssumption DEF End

(* One unreadable page keeps the list of spans well-typed. *)
LEMMA MarkType ==
  ASSUME TypeOK, NEW pa \in Address, NEW n \in Nat \ {0},
         NEW status \in Status, MarkUnreadable(pa, n, status)
  PROVE  /\ unreadable' \in Seq(Span)
         /\ unreadableBytes' \in Nat /\ processed' \in Nat /\ offset' \in Nat
         /\ observed' \in [Address -> Status \cup {Hole}]
<1> DEFINE last == unreadable[Len(unreadable)]
           new == [start |-> pa, length |-> n, status |-> status]
           longer == [last EXCEPT !.length = @ + n]
<1>1. unreadable \in Seq(Span) /\ Len(unreadable) \in Nat
  BY LenProperties DEF TypeOK
<1>2. CASE Coalesces(pa, status)
  <2>1. Len(unreadable) \in 1..Len(unreadable)
    BY <1>1, <1>2, EmptySeq DEF Coalesces
  <2>2. last \in Span
    BY <1>1, <2>1, ElementOfSeq
  <2>3. longer \in Span
    BY <2>2 DEF Span
  <2>4. unreadable' = [unreadable EXCEPT ![Len(unreadable)] = longer]
    BY <1>2 DEF MarkUnreadable
  <2> HIDE DEF longer, last
  <2>5. unreadable' \in Seq(Span)
    BY <1>1, <2>1, <2>3, <2>4, ExceptSeq
  <2> QED BY <2>5, SMTT(30) DEF MarkUnreadable, TypeOK
<1>3. CASE ~Coalesces(pa, status)
  <2>1. new \in Span
    BY DEF Span
  <2>2. unreadable' = Append(unreadable, new)
    BY <1>3 DEF MarkUnreadable
  <2> HIDE DEF new
  <2>3. unreadable' \in Seq(Span)
    BY <1>1, <2>1, <2>2
  <2> QED BY <2>3, SMTT(30) DEF MarkUnreadable, TypeOK
<1> QED BY <1>2, <1>3

LEMMA InitPositioned == Init => PositionedType
<1> SUFFICES ASSUME Init PROVE PositionedType
  OBVIOUS
<1>1. hashed \in Seq(Byte) /\ unreadable \in Seq(Span)
  BY EmptySeq DEF Init
<1>b. /\ pacing \in BOOLEAN /\ topologyChanged \in BOOLEAN
      /\ cancelled \in BOOLEAN
  BY Zenon DEF Init
<1>f. /\ image \in [Address -> Byte \cup {Hole}]
      /\ observed \in [Address -> Status \cup {Hole}]
  BY DEF Init
<1>2. TypeOK
  BY <1>1, <1>b, <1>f DEF Init, TypeOK, Stages
<1>3. Positioned
  BY DEF Init, Positioned, Reading, ReadThrough
<1> QED BY <1>2, <1>3 DEF PositionedType

(* Steps that leave the walk and the evidence alone. *)
LEMMA FailPositioned ==
  ASSUME PositionedType, Fail PROVE PositionedType'
<1>1. TypeOK'
  BY DEF PositionedType, TypeOK, Fail, position, stored, marked, Stages
<1>2. Positioned'
  BY DEF Fail, Positioned, Reading, ReadThrough
<1> QED BY <1>1, <1>2 DEF PositionedType

LEMMA StoreFailsPositioned ==
  ASSUME PositionedType, NEW pa \in Nat, NEW n \in Nat,
         NEW result \in ReadResults(pa, n), ValidateReadResult(result, pa, n),
         StoreFails(result)
  PROVE  PositionedType'
<1>0. /\ hashed \in Seq(Byte) /\ hashPosition \in Nat
      /\ image \in [Address -> Byte \cup {Hole}]
  BY DEF PositionedType, TypeOK
<1>2. ASSUME NEW k \in 0 .. result.copied,
             image' = Written(result.physicalAddress, k, result.data),
             result.physicalAddress >= hashPosition,
             hashed' = hashed \o GapZeros(result.physicalAddress),
             hashPosition' = result.physicalAddress
      PROVE  /\ hashed' \in Seq(Byte) /\ hashPosition' \in Nat
             /\ image' \in [Address -> Byte \cup {Hole}]
  <2>1. /\ result.copied \in 0..n /\ result.data \in [1..result.copied -> Byte]
        /\ result.physicalAddress = pa
    BY ResultFacts DEF ValidateReadResult
  <2>2. GapZeros(pa) \in Seq(Byte)
    BY <1>0, <1>2, <2>1, ZerosFacts
  <2>3. hashed' \in Seq(Byte)
    BY <1>0, <1>2, <2>1, <2>2, ConcatProperties
  <2>4. \A a \in Address :
          a \in pa .. pa + k - 1 => result.data[a - pa + 1] \in Byte
    BY <2>1, SizesAssumption DEF Address
  <2> QED BY <1>0, <1>2, <2>1, <2>3, <2>4 DEF Written
<1>3. /\ hashed' \in Seq(Byte) /\ hashPosition' \in Nat
      /\ image' \in [Address -> Byte \cup {Hole}]
  <2>1. CASE UNCHANGED <<image, hashed, hashPosition>>
    BY <2>1, <1>0
  <2> QED BY <2>1, <1>2 DEF StoreFails
<1>4. TypeOK'
  BY <1>3 DEF PositionedType, TypeOK, StoreFails, position, marked, Stages
<1>5. Positioned'
  BY DEF StoreFails, Positioned, Reading, ReadThrough
<1> QED BY <1>4, <1>5 DEF PositionedType

LEMMA StoreType ==
  ASSUME TypeOK, NEW pa \in Nat, NEW n \in Nat,
         NEW result \in ReadResults(pa, n), ValidateReadResult(result, pa, n),
         Store(result), pc' \in Stages, chunkEnd' \in Nat
  PROVE  TypeOK'
<1>0. result.copied \in Nat
  BY ResultFacts
<1>1. /\ hashed' \in Seq(Byte)
      /\ image' \in [Address -> Byte \cup {Hole}]
      /\ hashPosition' \in Nat
  <2>1. /\ hashed' \in Seq(Byte)
        /\ image' \in [Address -> Byte \cup {Hole}]
        /\ hashPosition' = pa + result.copied
    BY StoreFacts
  <2> QED BY <1>0, <2>1
<1>2. pacing' \in BOOLEAN
  BY SizesAssumption, Zenon DEF Store
<1>3. offset' \in Nat /\ processed' \in Nat /\ acquiredBytes' \in Nat
  <2>1. /\ offset' = offset + result.copied
        /\ processed' = processed + result.copied
        /\ acquiredBytes' = acquiredBytes + result.copied
    BY DEF Store
  <2>2. offset \in Nat /\ processed \in Nat /\ acquiredBytes \in Nat
    BY DEF TypeOK
  <2> QED BY <1>0, <2>1, <2>2
<1>4. UNCHANGED <<index, runs, topologyChanged, cancelled, unreadableBytes,
                  unreadable, observed>>
  BY DEF Store, marked
<1> QED BY <1>1, <1>2, <1>3, <1>4 DEF TypeOK

LEMMA ReadChunkPositioned ==
  ASSUME PositionedType, ReadChunk PROVE PositionedType'
<1> DEFINE n == Smaller(MaxTransfer, Run.length - offset)
<1>1. /\ n \in Nat \ {0} /\ offset + n <= Run.length /\ Here \in Nat
  BY ChunkRequest DEF ReadChunk
<1>2. /\ runs \in Layouts /\ index \in 1..Len(runs) /\ offset \in Nat
      /\ Run.length \in Nat
  BY LayoutFacts
     DEF ReadChunk, PositionedType, Positioned, Reading, TypeOK, Run
<1>3. PICK result \in ReadResults(Here, n) :
        /\ ValidateReadResult(result, Here, n)
        /\ \/ /\ result.copied # 0
              /\ Store(result)
              /\ pc' = AfterTransfer(result.copied, n)
              /\ chunkEnd' = offset + n
           \/ result.copied # 0 /\ StoreFails(result)
           \/ /\ result.copied = 0
              /\ pc' = AfterTransfer(0, n)
              /\ chunkEnd' = offset + n
              /\ UNCHANGED <<pacing, runs, position, processed, stored,
                             marked, topologyChanged, cancelled>>
  BY DEF ReadChunk
<1> HIDE DEF n
<1>4. result.copied \in 0..n
  BY <1>1, <1>3, ResultFacts
<1>5. CASE /\ Store(result)
           /\ pc' = AfterTransfer(result.copied, n)
           /\ chunkEnd' = offset + n
  <2>1. pc' \in Stages /\ chunkEnd' \in Nat
    BY <1>1, <1>2, <1>5 DEF Stages, AfterTransfer
  <2>2. TypeOK'
    BY <1>1, <1>3, <1>5, <2>1, StoreType DEF PositionedType
  <2>3. /\ UNCHANGED <<runs, index>>
        /\ offset' = offset + result.copied
    BY <1>5 DEF Store
  <2>4. Run' = Run
    BY <2>3 DEF Run
  <2>5. /\ offset' \in 0..Run.length
        /\ offset' <= chunkEnd' /\ chunkEnd' <= Run.length
    BY <1>1, <1>2, <1>4, <1>5, <2>3, SMTT(30)
  <2>6. pc' \in {"chunk", "page"}
    BY <1>5 DEF AfterTransfer
  <2>7. Positioned'
    BY <1>2, <2>3, <2>4, <2>5, <2>6 DEF Positioned, Reading, ReadThrough
  <2> QED BY <2>2, <2>7 DEF PositionedType
<1>6. CASE StoreFails(result)
  BY <1>1, <1>3, <1>6, StoreFailsPositioned
<1>7. CASE /\ pc' = AfterTransfer(0, n)
           /\ chunkEnd' = offset + n
           /\ UNCHANGED <<pacing, runs, position, processed, stored,
                          marked, topologyChanged, cancelled>>
  <2>1. TypeOK'
    BY <1>1, <1>7
       DEF PositionedType, TypeOK, position, stored, marked, Stages,
           AfterTransfer
  <2>2. Positioned'
    BY <1>1, <1>2, <1>7
       DEF Positioned, Reading, ReadThrough, AfterTransfer, Run, position
  <2> QED BY <2>1, <2>2 DEF PositionedType
<1> QED BY <1>3, <1>5, <1>6, <1>7

LEMMA ReadPagePositioned ==
  ASSUME PositionedType, ReadPage PROVE PositionedType'
<1> DEFINE n == PageRequest(Here, chunkEnd - offset)
<1>1. /\ n \in Nat \ {0} /\ offset + n <= chunkEnd
      /\ Here \in Nat /\ Here + n <= AddressLimit
  BY PageRequestFacts DEF ReadPage
<1>2. /\ runs \in Layouts /\ index \in 1..Len(runs) /\ offset \in Nat
      /\ Run.length \in Nat /\ chunkEnd \in Nat /\ chunkEnd <= Run.length
  BY LayoutFacts DEF ReadPage, PositionedType, Positioned, Reading, TypeOK, Run
<1>3. PICK result \in ReadResults(Here, n) :
        /\ ValidateReadResult(result, Here, n)
        /\ \/ /\ result.copied # 0
              /\ Store(result)
              /\ pc' = AfterTransfer(result.copied, n)
              /\ UNCHANGED chunkEnd
           \/ result.copied # 0 /\ StoreFails(result)
           \/ /\ result.copied = 0
              /\ MarkUnreadable(Here, n, result.copyStatus)
              /\ UNCHANGED <<pc, chunkEnd>>
  BY DEF ReadPage
<1> HIDE DEF n
<1>4. result.copied \in 0..n /\ result.copyStatus \in Status
  BY <1>1, <1>3, ResultFacts
<1>5. CASE /\ Store(result)
           /\ pc' = AfterTransfer(result.copied, n)
           /\ UNCHANGED chunkEnd
  <2>1. pc' \in Stages /\ chunkEnd' \in Nat
    BY <1>1, <1>2, <1>5 DEF Stages, AfterTransfer
  <2>2. TypeOK'
    BY <1>1, <1>3, <1>5, <2>1, StoreType DEF PositionedType
  <2>3. /\ offset' \in Nat /\ offset' <= chunkEnd'
        /\ UNCHANGED <<index, runs, chunkEnd>>
    <3>1. /\ offset' = offset + result.copied
          /\ UNCHANGED <<index, runs, chunkEnd>>
      BY <1>5 DEF Store
    <3> QED BY <1>1, <1>2, <1>4, <3>1, SMTT(30)
  <2>4. pc' \in {"chunk", "page"}
    BY <1>5 DEF AfterTransfer
  <2>5. Positioned'
    BY <1>2, <2>3, <2>4 DEF Positioned, Reading, ReadThrough, Run
  <2> QED BY <2>2, <2>5 DEF PositionedType
<1>6. CASE StoreFails(result)
  BY <1>1, <1>3, <1>6, StoreFailsPositioned
<1>7. CASE /\ MarkUnreadable(Here, n, result.copyStatus)
           /\ UNCHANGED <<pc, chunkEnd>>
  <2>1. Here \in Address
    BY <1>1, SizesAssumption DEF Address
  <2>2. /\ unreadable' \in Seq(Span)
        /\ unreadableBytes' \in Nat /\ processed' \in Nat /\ offset' \in Nat
        /\ observed' \in [Address -> Status \cup {Hole}]
    BY <1>1, <1>4, <1>7, <2>1, MarkType DEF PositionedType
  <2>3. UNCHANGED <<index, runs, pacing, image, hashed, hashPosition,
                    acquiredBytes, topologyChanged, cancelled, pc, chunkEnd>>
    BY <1>7 DEF MarkUnreadable, stored
  <2>4. TypeOK'
    BY <2>2, <2>3 DEF PositionedType, TypeOK
  <2>5. offset' = offset + n
    BY <1>7 DEF MarkUnreadable
  <2>6. Positioned'
    BY <1>1, <1>2, <2>3, <2>5
       DEF Positioned, Reading, ReadThrough, Run, ReadPage
  <2> QED BY <2>4, <2>6 DEF PositionedType
<1> QED BY <1>3, <1>5, <1>6, <1>7

LEMMA QueryPositioned ==
  ASSUME PositionedType, Query PROVE PositionedType'
<1>1. TypeOK'
  BY DEF Query, PositionedType, TypeOK, Stages, position, stored, marked
<1>2. ASSUME NEW rs \in Layouts, runs' = rs, pc' = "chunk"
      PROVE  Positioned'
  <2>1. Len(rs) \in Nat \ {0}
    BY LayoutsAssumption, LenProperties DEF IsLayout
  <2>2. rs[1].length \in Nat
    BY <2>1, LayoutFacts
  <2> QED BY <1>2, <2>1, <2>2
          DEF Query, Positioned, Reading, ReadThrough, Run, position,
              PositionedType
<1>3. CASE pc' = "failed"
  BY <1>1, <1>3 DEF Positioned, Reading, ReadThrough, PositionedType
<1> QED BY <1>1, <1>2, <1>3 DEF Query, PositionedType

LEMMA NextRunPositioned ==
  ASSUME PositionedType, NextRun PROVE PositionedType'
<1>1. /\ runs \in Layouts /\ index \in 1..Len(runs) /\ Len(runs) \in Nat
      /\ runs' = runs
  BY LayoutFacts DEF PositionedType, Positioned, NextRun, Reading
<1>2. TypeOK'
  BY <1>1
     DEF NextRun, PositionedType, TypeOK, Stages, position, stored, marked
<1>3. CASE index < Len(runs)
  <2>1. runs[index + 1].length \in Nat
    BY <1>1, <1>3, LayoutFacts, SMTT(30)
  <2>2. Positioned'
    BY <1>1, <1>3, <2>1 DEF NextRun, Positioned, Reading, ReadThrough, Run
  <2> QED BY <1>2, <2>2 DEF PositionedType
<1>4. CASE ~(index < Len(runs))
  <2>1. Positioned'
    BY <1>1, <1>4
       DEF NextRun, Positioned, Reading, ReadThrough, Run, position,
           PositionedType
  <2> QED BY <1>2, <2>1 DEF PositionedType
<1> QED BY <1>3, <1>4

THEOREM PositionedAlways == Spec => []PositionedType
<1>1. PositionedType /\ [Next]_vars => PositionedType'
  <2> SUFFICES ASSUME PositionedType, [Next]_vars
               PROVE  PositionedType'
    OBVIOUS
  <2>1. CASE Query
    BY <2>1, QueryPositioned
  <2>2. CASE NextRun
    BY <2>2, NextRunPositioned
  <2>3. CASE ReadChunk
    BY <2>3, ReadChunkPositioned
  <2>4. CASE ReadPage
    BY <2>4, ReadPagePositioned
  <2>5. CASE ReadFails \/ CancelSeen
    BY <2>5, FailPositioned DEF ReadFails, CancelSeen
  <2>6. CASE WindowDone
    <3>1. TypeOK'
      BY <2>6
         DEF WindowDone, PositionedType, TypeOK, position, stored, marked,
             Stages
    <3>2. Positioned'
      BY <2>6
         DEF WindowDone, PositionedType, Positioned, Reading, ReadThrough,
             position, Run
    <3> QED BY <3>1, <3>2 DEF PositionedType
  <2>7. CASE Pace
    <3>1. CASE cancelled
      BY <2>7, <3>1, FailPositioned DEF Pace
    <3>2. CASE ~cancelled
      <4>1. pacing' \in BOOLEAN
        BY <2>7, <3>2, Zenon DEF Pace
      <4>2. UNCHANGED <<pc, runs, chunkEnd, processed, topologyChanged,
                        cancelled, position, stored, marked>>
        BY <2>7, <3>2 DEF Pace
      <4>3. TypeOK'
        BY <4>1, <4>2
           DEF PositionedType, TypeOK, position, stored, marked
      <4>4. Positioned'
        BY <4>2
           DEF PositionedType, Positioned, Reading, ReadThrough, position, Run
      <4> QED BY <4>3, <4>4 DEF PositionedType
    <3> QED BY <3>1, <3>2
  <2>8. CASE HashTail
    <3>1. CASE Fail
      BY <3>1, FailPositioned
    <3>2. ASSUME LogicalSize >= hashPosition,
                 hashed' = hashed \o GapZeros(LogicalSize),
                 hashPosition' = LogicalSize, pc' = "end", pc = "tail",
                 UNCHANGED <<pacing, runs, chunkEnd, processed,
                             topologyChanged, cancelled, position, image,
                             acquiredBytes, marked>>
          PROVE  PositionedType'
      <4>1. /\ runs \in Layouts /\ index = Len(runs)
            /\ index \in Nat \ {0} /\ hashPosition \in Nat
            /\ hashed \in Seq(Byte)
        BY <3>2 DEF PositionedType, Positioned, ReadThrough, TypeOK
      <4>2. runs # <<>>
        BY <4>1, EmptySeq
      <4>3. LogicalSize \in Nat
        BY <4>1, <4>2, LayoutFacts, SMTT(30) DEF LogicalSize, End
      <4>4. hashed' \in Seq(Byte)
        BY <3>2, <4>1, <4>3, ZerosFacts, ConcatProperties
      <4>5. TypeOK'
        BY <3>2, <4>3, <4>4
           DEF PositionedType, TypeOK, position, marked, Stages
      <4>6. Positioned'
        BY <3>2
           DEF PositionedType, Positioned, Reading, ReadThrough, position, Run
      <4> QED BY <4>5, <4>6 DEF PositionedType
    <3> QED BY <2>8, <3>1, <3>2 DEF HashTail
  <2>9. CASE EndSession
    <3>1. CASE Fail
      BY <3>1, FailPositioned
    <3>2. CASE /\ topologyChanged' \in BOOLEAN /\ pc' = "completed"
               /\ UNCHANGED <<pacing, runs, chunkEnd, processed, cancelled,
                              position, stored, marked>>
      <4>1. TypeOK'
        BY <3>2 DEF PositionedType, TypeOK, position, stored, marked, Stages
      <4>2. Positioned'
        BY <2>9, <3>2
           DEF PositionedType, Positioned, Reading, ReadThrough, position, Run,
               EndSession
      <4> QED BY <4>1, <4>2 DEF PositionedType
    <3> QED BY <2>9, <3>1, <3>2 DEF EndSession
  <2>10. CASE Cancel
    <3>1. cancelled' \in BOOLEAN
      BY <2>10, Zenon DEF Cancel
    <3>2. UNCHANGED <<pc, pacing, runs, chunkEnd, processed, topologyChanged,
                      position, stored, marked>>
      BY <2>10 DEF Cancel
    <3>3. TypeOK'
      BY <3>1, <3>2 DEF PositionedType, TypeOK, position, stored, marked
    <3>4. Positioned'
      BY <3>2
         DEF PositionedType, Positioned, Reading, ReadThrough, position, Run
    <3> QED BY <3>3, <3>4 DEF PositionedType
  <2>11. CASE UNCHANGED vars
    <3>1. TypeOK'
      BY <2>11 DEF vars, PositionedType, TypeOK, position, stored, marked
    <3>2. Positioned'
      BY <2>11
         DEF vars, PositionedType, Positioned, Reading, ReadThrough, position,
             Run
    <3> QED BY <3>1, <3>2 DEF PositionedType
  <2> QED BY <2>1, <2>2, <2>3, <2>4, <2>5, <2>6, <2>7, <2>8, <2>9, <2>10, <2>11
          DEF Next, Engine, Returned
<1> QED BY InitPositioned, <1>1, PTL DEF Spec

(* The variables of the engine keep their types. *)
THEOREM TypeCorrect == Spec => []TypeOK
<1>1. PositionedType => TypeOK
  BY DEF PositionedType
<1> QED BY <1>1, PositionedAlways, PTL
---------------------------------------------------------------------------
(* The accounting.                                                         *)

(* Nothing has been counted or stored before the query has answered. *)
Blank ==
  pc = "query" =>
    /\ acquiredBytes = 0 /\ unreadableBytes = 0 /\ processed = 0
    /\ hashPosition = 0 /\ unreadable = <<>>
    /\ \A a \in Address : image[a] = Hole

Counted == PositionedType /\ Blank /\ Accounted

LEMMA PrefixFacts ==
  ASSUME NEW rs \in Layouts
  PROVE  /\ Before[rs][1] = 0
         /\ \A i \in 1..Len(rs) :
              /\ Before[rs][i] \in Nat
              /\ Before[rs][i + 1] = Before[rs][i] + rs[i].length
<1>1. Len(rs) \in Nat
  BY LayoutsAssumption, LenProperties
<1>2. IsPrefixSum(rs, Before[rs])
  BY LayoutsAssumption
<1> DEFINE sum == Before[rs]
<1>3. /\ sum \in [1..Len(rs) + 1 -> Nat] /\ sum[1] = 0
      /\ \A i \in 1..Len(rs) : sum[i + 1] = sum[i] + rs[i].length
  BY <1>2 DEF IsPrefixSum
<1>4. ASSUME NEW i \in 1..Len(rs) PROVE i \in 1..Len(rs) + 1
  BY <1>1
<1> HIDE DEF sum
<1>5. ASSUME NEW i \in 1..Len(rs) PROVE sum[i] \in Nat
  BY <1>3, <1>4
<1>6. /\ sum[1] = 0
      /\ \A i \in 1..Len(rs) :
           sum[i] \in Nat /\ sum[i + 1] = sum[i] + rs[i].length
  BY <1>3, <1>5
<1> QED BY <1>6 DEF sum

(* A step that moves offset and counters by the same amount in one run. *)
LEMMA AdvanceCounted ==
  ASSUME Counted, Reading, pc' \in {"chunk", "page"}, NEW k \in Nat,
         UNCHANGED <<runs, index>>, offset' = offset + k,
         processed' = processed + k,
         acquiredBytes' + unreadableBytes'
           = acquiredBytes + unreadableBytes + k
  PROVE  Blank' /\ Accounted'
<1>1. /\ runs \in Layouts /\ index \in 1..Len(runs) /\ offset \in Nat
      /\ acquiredBytes \in Nat /\ unreadableBytes \in Nat
      /\ processed \in Nat
  BY DEF Counted, PositionedType, Positioned, TypeOK
<1>2. Before[runs][index] \in Nat
  BY <1>1, PrefixFacts
<1>3. processed = Before[runs][index] + offset
      /\ acquiredBytes + unreadableBytes = processed
  BY DEF Counted, Accounted
<1>4. processed' = Before[runs'][index'] + offset'
  <2> DEFINE sum == Before[runs][index]
  <2>1. Before[runs'][index'] = sum
    OBVIOUS
  <2> HIDE DEF sum
  <2>2. sum \in Nat /\ processed = sum + offset
    BY <1>2, <1>3 DEF sum
  <2>3. processed' = sum + offset'
    BY <1>1, <2>2
  <2> QED BY <2>1, <2>3
<1>5. acquiredBytes' + unreadableBytes' = processed'
  BY <1>1, <1>3
<1> QED BY <1>4, <1>5 DEF Blank, Accounted, Reading, ReadThrough

(* A step that neither moves nor counts, at a place of the same kind. *)
LEMMA StillCounted ==
  ASSUME Counted, UNCHANGED <<runs, index, offset, processed, acquiredBytes,
                              unreadableBytes>>,
         \/ pc' = "failed"
         \/ Reading /\ pc' \in {"chunk", "page"}
         \/ ReadThrough /\ pc' \in {"tail", "end", "completed"}
         \/ pc' = pc /\ UNCHANGED <<hashPosition, unreadable, image>>
  PROVE  Blank' /\ Accounted'
BY DEF Counted, Blank, Accounted, Reading, ReadThrough, PhysicalBytes

LEMMA InitCounted == Init => Blank /\ Accounted
BY DEF Init, Blank, Accounted, Reading, ReadThrough

LEMMA NextRunCounted ==
  ASSUME Counted, NextRun PROVE Blank' /\ Accounted'
<1>1. /\ runs \in Layouts /\ index \in 1..Len(runs) /\ offset = Run.length
      /\ runs' = runs /\ Len(runs) \in Nat
      /\ processed = Before[runs][index] + offset
      /\ acquiredBytes + unreadableBytes = processed
  BY LayoutFacts
     DEF Counted, PositionedType, Positioned, Reading, NextRun, Accounted
<1>2. Before[runs][index + 1] = processed
  BY <1>1, PrefixFacts DEF Run
<1>3. acquiredBytes' + unreadableBytes' = processed' /\ processed' = processed
  BY <1>1 DEF NextRun, stored, marked
<1>4. CASE index < Len(runs)
  <2>1. pc' = "chunk" /\ index' = index + 1 /\ offset' = 0
    BY <1>4 DEF NextRun
  <2>2. processed \in Nat
    BY DEF Counted, PositionedType, TypeOK
  <2> QED BY <1>1, <1>2, <1>3, <2>1, <2>2
          DEF Blank, Accounted, Reading, ReadThrough
<1>5. CASE ~(index < Len(runs))
  <2>1. pc' = "tail" /\ index = Len(runs)
    BY <1>1, <1>5 DEF NextRun
  <2> QED BY <1>1, <1>2, <1>3, <2>1
          DEF Blank, Accounted, Reading, ReadThrough, PhysicalBytes
<1> QED BY <1>4, <1>5

LEMMA ReadCounted ==
  ASSUME Counted, ReadChunk \/ ReadPage PROVE Blank' /\ Accounted'
<1>0. /\ acquiredBytes \in Nat /\ unreadableBytes \in Nat /\ offset \in Nat
      /\ processed \in Nat /\ Reading
  BY DEF Counted, PositionedType, TypeOK, Reading, ReadChunk, ReadPage
<1>1. ASSUME NEW k \in Nat, NEW result, result.copied = k, Store(result),
             pc' \in {"chunk", "page"}
      PROVE  Blank' /\ Accounted'
  <2>1. /\ UNCHANGED <<runs, index, unreadableBytes>>
        /\ offset' = offset + k
        /\ processed' = processed + k
        /\ acquiredBytes' = acquiredBytes + k
    BY <1>1 DEF Store, marked
  <2>2. acquiredBytes' + unreadableBytes' = acquiredBytes + unreadableBytes + k
    BY <1>0, <2>1
  <2> QED BY <1>0, <1>1, <2>1, <2>2, AdvanceCounted
<1>2. ASSUME NEW result, StoreFails(result) PROVE Blank' /\ Accounted'
  BY <1>2, StillCounted DEF StoreFails, position, marked
<1>3. CASE ReadChunk
  <2> DEFINE n == Smaller(MaxTransfer, Run.length - offset)
  <2>1. n \in Nat /\ Here \in Nat
    BY <1>3, ChunkRequest DEF ReadChunk, Counted
  <2>2. PICK result \in ReadResults(Here, n) :
          \/ Store(result) /\ pc' = AfterTransfer(result.copied, n)
          \/ StoreFails(result)
          \/ /\ pc' = AfterTransfer(0, n)
             /\ UNCHANGED <<runs, position, processed, stored, marked>>
    BY <1>3 DEF ReadChunk
  <2>3. /\ result.copied \in Nat
        /\ AfterTransfer(result.copied, n) \in {"chunk", "page"}
        /\ AfterTransfer(0, n) \in {"chunk", "page"}
    BY <2>1, ResultFacts DEF AfterTransfer
  <2>4. CASE /\ pc' = AfterTransfer(0, n)
             /\ UNCHANGED <<runs, position, processed, stored, marked>>
    BY <1>0, <2>3, <2>4, StillCounted DEF position, stored, marked
  <2> HIDE DEF n
  <2> QED BY <1>1, <1>2, <2>2, <2>3, <2>4
<1>4. CASE ReadPage
  <2> DEFINE n == PageRequest(Here, chunkEnd - offset)
  <2>1. n \in Nat /\ Here \in Nat
    BY <1>4, PageRequestFacts DEF ReadPage, Counted
  <2>2. PICK result \in ReadResults(Here, n) :
          \/ Store(result) /\ pc' = AfterTransfer(result.copied, n)
          \/ StoreFails(result)
          \/ MarkUnreadable(Here, n, result.copyStatus) /\ UNCHANGED pc
    BY <1>4 DEF ReadPage
  <2>3. /\ result.copied \in Nat
        /\ AfterTransfer(result.copied, n) \in {"chunk", "page"}
    BY <2>1, ResultFacts DEF AfterTransfer
  <2>4. CASE MarkUnreadable(Here, n, result.copyStatus) /\ UNCHANGED pc
    <3>1. /\ UNCHANGED <<runs, index, acquiredBytes>>
          /\ offset' = offset + n
          /\ processed' = processed + n
          /\ unreadableBytes' = unreadableBytes + n
      BY <2>4 DEF MarkUnreadable, stored
    <3>2. pc' \in {"chunk", "page"}
      BY <2>4, <1>0 DEF Reading
    <3> HIDE DEF n
    <3>3. acquiredBytes' + unreadableBytes'
            = acquiredBytes + unreadableBytes + n
      BY <1>0, <2>1, <3>1
    <3> QED BY <1>0, <2>1, <3>1, <3>2, <3>3, AdvanceCounted
  <2> HIDE DEF n
  <2> QED BY <1>1, <1>2, <2>2, <2>3, <2>4
<1> QED BY <1>3, <1>4

LEMMA NextCounted ==
  ASSUME Counted, [Next]_vars PROVE Blank' /\ Accounted'
<1>1. ASSUME Fail PROVE Blank' /\ Accounted'
  BY <1>1, StillCounted DEF Fail, position, stored, marked
<1>2. CASE Query
  <2>1. ASSUME NEW rs \in Layouts, runs' = rs, pc' = "chunk", pc = "query",
               UNCHANGED <<processed, position, stored, marked>>
        PROVE  Blank' /\ Accounted'
    <3>1. Before[rs][1] = 0
      BY PrefixFacts
    <3> QED BY <2>1, <3>1
            DEF Counted, PositionedType, Positioned, Blank, Accounted, Reading,
                ReadThrough, position, stored, marked
  <2>2. CASE pc' = "failed"
    BY <1>2, <2>2, StillCounted DEF Query, position, stored, marked, Counted,
       Blank, Accounted, Reading, ReadThrough
  <2> QED BY <1>2, <2>1, <2>2 DEF Query
<1>3. CASE ReadFails \/ CancelSeen
  BY <1>1, <1>3 DEF ReadFails, CancelSeen
<1>4. CASE WindowDone
  BY <1>4, StillCounted DEF WindowDone, Reading, position, stored, marked
<1>5. CASE Pace
  BY <1>1, <1>5, StillCounted DEF Pace, position, stored, marked
<1>6. CASE HashTail
  BY <1>1, <1>6, StillCounted DEF HashTail, ReadThrough, position, marked
<1>7. CASE EndSession
  BY <1>1, <1>7, StillCounted
     DEF EndSession, ReadThrough, position, stored, marked
<1>8. CASE Cancel
  BY <1>8, StillCounted DEF Cancel, position, stored, marked
<1>9. CASE UNCHANGED vars
  BY <1>9, StillCounted DEF vars, position, stored, marked
<1> QED BY <1>2, <1>3, <1>4, <1>5, <1>6, <1>7, <1>8, <1>9, NextRunCounted,
           ReadCounted DEF Next, Engine, Returned

(* Acquired and unreadable bytes add up to what has been gone through, and *)
(* at completion to the physical bytes the driver reported.                *)
THEOREM AccountingCorrect == Spec => []Accounted
<1>1. Init => Blank /\ Accounted
  BY InitCounted
<1>2. PositionedType /\ Blank /\ Accounted /\ [Next]_vars
        => Blank' /\ Accounted'
  BY NextCounted DEF Counted
<1> QED BY <1>1, <1>2, PositionedAlways, PTL DEF Spec

---------------------------------------------------------------------------
(* Digest, spans and counters.                                             *)

(* The counters, and what is blank before the query, in one invariant. *)
LEMMA CountedAlways == Spec => []Counted
<1>1. PositionedType /\ Blank /\ Accounted /\ [Next]_vars
        => Blank' /\ Accounted'
  BY NextCounted DEF Counted
<1>2. PositionedType /\ Blank /\ Accounted <=> Counted
  BY DEF Counted
<1> QED BY <1>1, <1>2, InitCounted, PositionedAlways, PTL DEF Spec

(* A read that was asked for, and what became of its answer. *)
LEMMA ReadAnswers ==
  ASSUME Counted, ReadChunk \/ ReadPage
  PROVE  /\ Reading
         /\ \E n \in Nat \ {0} : \E result \in ReadResults(Here, n) :
              /\ Here \in Address /\ Here + n <= End(Run)
              /\ ValidateReadResult(result, Here, n)
              /\ \/ StoreFails(result)
                 \/ /\ pc' \in {"chunk", "page"}
                    /\ \/ Store(result)
                       \/ MarkUnreadable(Here, n, result.copyStatus)
                       \/ UNCHANGED <<runs, position, stored, marked>>
<1>1. CASE ReadChunk
  <2> DEFINE n == Smaller(MaxTransfer, Run.length - offset)
  <2>1. /\ n \in Nat \ {0} /\ Here \in Nat /\ Here + n <= End(Run)
        /\ Here + n <= AddressLimit
    BY <1>1, ChunkRequest DEF ReadChunk, Counted
  <2>2. PICK result \in ReadResults(Here, n) :
          /\ ValidateReadResult(result, Here, n)
          /\ \/ Store(result) /\ pc' = AfterTransfer(result.copied, n)
             \/ StoreFails(result)
             \/ /\ pc' = AfterTransfer(0, n)
                /\ UNCHANGED <<runs, position, stored, marked>>
    BY <1>1 DEF ReadChunk
  <2> HIDE DEF n
  <2>3. Here \in Address
    BY <2>1, SizesAssumption DEF Address
  <2> QED BY <1>1, <2>1, <2>2, <2>3 DEF ReadChunk, AfterTransfer, Reading
<1>2. CASE ReadPage
  <2> DEFINE n == PageRequest(Here, chunkEnd - offset)
  <2>1. /\ n \in Nat \ {0} /\ Here \in Nat /\ Here + n <= End(Run)
        /\ Here + n <= AddressLimit /\ pc = "page"
    BY <1>2, PageRequestFacts DEF ReadPage, Counted
  <2>2. PICK result \in ReadResults(Here, n) :
          /\ ValidateReadResult(result, Here, n)
          /\ \/ Store(result) /\ pc' = AfterTransfer(result.copied, n)
             \/ StoreFails(result)
             \/ MarkUnreadable(Here, n, result.copyStatus) /\ UNCHANGED pc
    BY <1>2 DEF ReadPage
  <2> HIDE DEF n
  <2>3. Here \in Address
    BY <2>1, SizesAssumption DEF Address
  <2> QED BY <2>1, <2>2, <2>3 DEF AfterTransfer, Reading
<1> QED BY <1>1, <1>2

(* The same for what a failed call does not touch. *)
LEMMA StoredRead ==
  ASSUME Counted, ReadChunk \/ ReadPage
  PROVE  \/ /\ pc' = "failed"
            /\ UNCHANGED <<unreadable, observed, runs, position>>
         \/ /\ UNCHANGED <<runs, position, stored, marked>>
            /\ pc' \in {"chunk", "page"}
         \/ \E n \in Nat \ {0} : \E result \in ReadResults(Here, n) :
              /\ Here \in Address /\ Here + n <= End(Run)
              /\ pc' \in {"chunk", "page"}
              /\ \/ Store(result) /\ ValidateReadResult(result, Here, n)
                 \/ MarkUnreadable(Here, n, result.copyStatus)
BY ReadAnswers DEF StoreFails, marked
---------------------------------------------------------------------------
(* The digest.                                                             *)

(* A transfer at or beyond the hash position: the gap is zeros in both the *)
(* stream and the image.                                                   *)
LEMMA StoreHashed ==
  ASSUME Counted, HashMatchesImage, pc # "failed", pc' \in {"chunk", "page"},
         NEW n \in Nat, Here \in Address, NEW result \in ReadResults(Here, n),
         ValidateReadResult(result, Here, n), Store(result)
  PROVE  HashMatchesImage'
<1> DEFINE pa == Here
           c == result.copied
<1>1. /\ pa \in Nat /\ TypeOK /\ hashPosition \in Nat
      /\ Len(hashed) = hashPosition
  BY SizesAssumption
     DEF Counted, PositionedType, TypeOK, Address, HashMatchesImage
<1>2. /\ c \in Nat /\ hashPosition <= pa
      /\ StreamGrows(pa, result) /\ ImageGains(pa, result)
      /\ hashPosition' = pa + c
  BY <1>1, StoreFacts, ResultFacts, SMTT(30)
<1> HIDE DEF pa, c
<1>3. Len(hashed') = pa + c
  BY <1>1, <1>2 DEF StreamGrows, c
<1>4. ASSUME NEW a \in Address
      PROVE  /\ a \in Nat
             /\ a < hashPosition => hashed[a + 1] = RawByte(a)
             /\ a >= hashPosition => image[a] = Hole
             /\ a < pa => image'[a] = image[a]
             /\ pa <= a /\ a < pa + c =>
                  image'[a] = result.data[a - pa + 1] /\ image'[a] # Hole
             /\ a >= pa + c => image'[a] = image[a]
  <2>1. a \in Nat
    BY SizesAssumption DEF Address
  <2> QED BY <1>1, <1>2, <2>1, BytesAssumption, SMTT(30)
          DEF HashMatchesImage, Acquired, ImageGains, c
<1>5. ASSUME NEW a \in Address, a < pa + c
      PROVE  hashed'[a + 1] = RawByte(a)'
  <2>1. /\ a < hashPosition => hashed'[a + 1] = hashed[a + 1]
        /\ hashPosition <= a /\ a < pa => hashed'[a + 1] = Zero
        /\ pa <= a => hashed'[a + 1] = result.data[a - pa + 1]
    <3> DEFINE i == a + 1
    <3>1. i \in 1 .. Len(hashed) + (pa - hashPosition) + c
      BY <1>1, <1>2, <1>4, <1>5 DEF c
    <3>2. /\ Len(hashed) + (pa - hashPosition) = pa
          /\ i - Len(hashed) - (pa - hashPosition) = a - pa + 1
          /\ i <= Len(hashed) <=> a < hashPosition
          /\ i <= pa <=> a < pa
          /\ i \in Nat
      BY <1>1, <1>2, <1>4, SMTT(30)
    <3> HIDE DEF i
    <3>3. hashed'[i] =
            IF i <= Len(hashed) THEN hashed[i]
            ELSE IF i <= Len(hashed) + (pa - hashPosition) THEN Zero
            ELSE result.data[i - Len(hashed) - (pa - hashPosition)]
      BY <1>2, <3>1 DEF StreamGrows, c
    <3>4. /\ a < hashPosition => hashed'[i] = hashed[i]
          /\ hashPosition <= a /\ a < pa => hashed'[i] = Zero
          /\ pa <= a => hashed'[i] = result.data[a - pa + 1]
      BY <1>1, <1>2, <1>4, <3>2, <3>3
    <3> QED BY <3>4 DEF i
  <2>2. CASE a < hashPosition
    BY <1>1, <1>2, <1>4, <2>1, <2>2 DEF RawByte, Acquired
  <2>3. CASE hashPosition <= a /\ a < pa
    BY <1>1, <1>2, <1>4, <2>1, <2>3 DEF RawByte, Acquired
  <2>4. CASE pa <= a
    BY <1>1, <1>2, <1>4, <1>5, <2>1, <2>4 DEF RawByte, Acquired
  <2> QED BY <1>1, <1>4, <2>2, <2>3, <2>4
<1>6. ASSUME NEW a \in Address, a >= pa + c
      PROVE  ~Acquired(a)'
  BY <1>1, <1>2, <1>4, <1>6 DEF Acquired
<1> QED BY <1>2, <1>3, <1>5, <1>6 DEF HashMatchesImage

LEMMA TailHashed ==
  ASSUME Counted, HashMatchesImage, pc = "tail", pc' = "end",
         LogicalSize >= hashPosition, LogicalSize \in Nat,
         hashed' = hashed \o GapZeros(LogicalSize),
         hashPosition' = LogicalSize, UNCHANGED <<image, runs>>
  PROVE  HashMatchesImage'
<1> DEFINE zeros == GapZeros(LogicalSize)
           gap == LogicalSize - hashPosition
<1>1. /\ hashed \in Seq(Byte) /\ hashPosition \in Nat
      /\ Len(hashed) = hashPosition
  BY DEF Counted, PositionedType, TypeOK, HashMatchesImage
<1>b. ASSUME NEW a \in Address, a >= hashPosition
      PROVE  image[a] = Hole
  BY <1>b DEF HashMatchesImage, Acquired
<1>2. /\ zeros \in Seq(Byte) /\ Len(zeros) = gap /\ gap \in Nat
      /\ \A i \in 1..gap : zeros[i] = Zero
  BY <1>1, ZerosFacts
<1>3. hashed' = hashed \o zeros
  OBVIOUS
<1> HIDE DEF zeros
<1>4. /\ Len(hashed') = hashPosition + gap
      /\ \A i \in 1 .. hashPosition + gap :
           hashed'[i] = IF i <= hashPosition THEN hashed[i]
                        ELSE zeros[i - hashPosition]
  BY <1>1, <1>2, <1>3, ConcatProperties
<1>5. ASSUME NEW a \in Address, a < LogicalSize
      PROVE  hashed'[a + 1] = RawByte(a)'
  <2>1. /\ a \in Nat /\ RawByte(a)' = RawByte(a)
        /\ a + 1 \in 1 .. hashPosition + gap
    BY <1>1, <1>2, <1>5, SizesAssumption DEF Address, RawByte, Acquired
  <2>2. CASE a < hashPosition
    BY <1>1, <1>4, <2>1, <2>2 DEF HashMatchesImage
  <2>3. CASE a >= hashPosition
    <3> DEFINE i == a + 1
    <3>1. /\ i \in 1 .. hashPosition + gap /\ i - hashPosition \in 1..gap
          /\ ~(i <= hashPosition)
      BY <1>1, <1>2, <1>5, <2>1, <2>3
    <3>2. hashed'[a + 1] = Zero
      <4> HIDE DEF i
      <4>1. zeros[i - hashPosition] = Zero
        BY <1>2, <3>1
      <4>2. hashed'[i] = zeros[i - hashPosition]
        BY <1>4, <3>1
      <4>3. hashed'[i] = Zero
        BY <4>1, <4>2
      <4> QED BY <4>3 DEF i
    <3>3. image[a] = Hole
      BY <1>b, <2>3
    <3> QED BY <2>1, <3>2, <3>3 DEF RawByte, Acquired
  <2>4. a < hashPosition \/ a >= hashPosition
    BY <1>1, <2>1
  <2> QED BY <2>2, <2>3, <2>4
<1>6. ASSUME NEW a \in Address, a >= LogicalSize
      PROVE  ~Acquired(a)'
  <2>1. a \in Nat /\ a >= hashPosition
    BY <1>1, <1>6, SizesAssumption DEF Address
  <2>2. image[a] = Hole
    BY <1>b, <2>1
  <2> QED BY <2>2 DEF Acquired
<1>7. LogicalSize' = LogicalSize /\ Len(hashed') = LogicalSize
  BY <1>1, <1>2, <1>4 DEF LogicalSize
<1> QED BY <1>5, <1>6, <1>7 DEF HashMatchesImage

LEMMA InitHashed == Init => HashMatchesImage
<1> SUFFICES ASSUME Init PROVE HashMatchesImage
  OBVIOUS
<1>1. \A a \in Address : a \in Nat /\ image[a] = Hole
  BY SizesAssumption DEF Init, Address
<1> QED BY <1>1 DEF Init, HashMatchesImage, Acquired

LEMMA StillHashed ==
  ASSUME HashMatchesImage,
         \/ pc' = "failed"
         \/ /\ pc # "failed" /\ UNCHANGED <<image, hashed, hashPosition>>
            /\ pc' \in {"end", "completed"} =>
                 pc \in {"end", "completed"} /\ UNCHANGED runs
  PROVE  HashMatchesImage'
BY DEF HashMatchesImage, RawByte, Acquired, LogicalSize

LEMMA NextHashed ==
  ASSUME Counted, Counted', HashMatchesImage, [Next]_vars
  PROVE  HashMatchesImage'
<1>1. CASE ReadChunk \/ ReadPage
  <2>1. pc # "failed"
    BY <1>1 DEF ReadChunk, ReadPage
  <2>2. CASE pc' = "failed" \/ (pc' \in {"chunk", "page"} /\ UNCHANGED stored)
    BY <2>1, <2>2, StillHashed DEF stored
  <2>3. CASE \E n \in Nat \ {0} : \E result \in ReadResults(Here, n) :
              /\ Here \in Address /\ Here + n <= End(Run)
              /\ pc' \in {"chunk", "page"}
              /\ \/ Store(result) /\ ValidateReadResult(result, Here, n)
                 \/ MarkUnreadable(Here, n, result.copyStatus)
    <3>1. PICK n \in Nat \ {0} : \E result \in ReadResults(Here, n) :
              /\ Here \in Address /\ pc' \in {"chunk", "page"}
              /\ \/ Store(result) /\ ValidateReadResult(result, Here, n)
                 \/ MarkUnreadable(Here, n, result.copyStatus)
      BY <2>3
    <3>2. PICK result \in ReadResults(Here, n) :
              /\ Here \in Address /\ pc' \in {"chunk", "page"}
              /\ \/ Store(result) /\ ValidateReadResult(result, Here, n)
                 \/ MarkUnreadable(Here, n, result.copyStatus)
      BY <3>1
    <3>3. CASE Store(result) /\ ValidateReadResult(result, Here, n)
      BY <2>1, <3>2, <3>3, StoreHashed
    <3>4. CASE MarkUnreadable(Here, n, result.copyStatus)
      BY <2>2, <3>2, <3>4 DEF MarkUnreadable
    <3> QED BY <3>2, <3>3, <3>4
  <2> QED BY <1>1, <2>2, <2>3, StoredRead
<1>2. CASE HashTail
  <2>1. CASE Fail
    BY <2>1, StillHashed DEF Fail
  <2>2. CASE ~Fail
    <3>1. LogicalSize \in Nat
      <4>1. runs \in Layouts /\ index = Len(runs) /\ index \in Nat \ {0}
        BY <1>2
           DEF HashTail, Counted, PositionedType, Positioned, ReadThrough,
               TypeOK
      <4>2. runs # <<>>
        BY <4>1, EmptySeq
      <4> QED BY <4>1, <4>2, LayoutFacts, SMTT(30) DEF LogicalSize, End
    <3> QED BY <1>2, <2>2, <3>1, TailHashed DEF HashTail
  <2> QED BY <2>1, <2>2
<1>3. CASE /\ Query \/ NextRun \/ WindowDone \/ ReadFails \/ CancelSeen \/ Pace
              \/ EndSession \/ Cancel \/ UNCHANGED vars
  BY <1>3, StillHashed
     DEF Query, NextRun, WindowDone, ReadFails, CancelSeen, Pace, EndSession,
         Cancel, Fail, stored, vars, Ended, HashMatchesImage
<1> QED BY <1>1, <1>2, <1>3 DEF Next, Engine, Returned

(* The stream fed to the hasher, zeros of the gaps included, is the flat   *)
(* image, whatever transfers and retries it was made of: acquire.cpp feeds *)
(* hasher and writer with the same bytes, and the zeros only to the former.*)
THEOREM DigestOfImage == Spec => []HashMatchesImage
BY InitHashed, NextHashed, CountedAlways, PTL DEF Spec
---------------------------------------------------------------------------
(* The spans.                                                              *)

(* Every span ends before the byte asked for next. *)
Behind ==
  Reading => \A k \in 1..Len(unreadable) :
               unreadable[k].start + unreadable[k].length <= Here

(* The two things MarkUnreadable does to the list. *)
Extends(pa, n, status) ==
  LET last == unreadable[Len(unreadable)]
  IN  /\ Len(unreadable) > 0 /\ Len(unreadable') = Len(unreadable)
      /\ last.start + last.length = pa /\ last.status = status
      /\ \A k \in 1 .. Len(unreadable) - 1 : unreadable'[k] = unreadable[k]
      /\ unreadable'[Len(unreadable)].start = last.start
      /\ unreadable'[Len(unreadable)].length = last.length + n
      /\ unreadable'[Len(unreadable)].status = status

Appends(pa, n, status) ==
  LET last == unreadable[Len(unreadable)]
  IN  /\ Len(unreadable') = Len(unreadable) + 1
      /\ Len(unreadable) > 0 /\ last.start + last.length = pa =>
           last.status # status
      /\ \A k \in 1 .. Len(unreadable) : unreadable'[k] = unreadable[k]
      /\ unreadable'[Len(unreadable) + 1].start = pa
      /\ unreadable'[Len(unreadable) + 1].length = n
      /\ unreadable'[Len(unreadable) + 1].status = status

LEMMA MarkFacts ==
  ASSUME Counted, NEW pa \in Address, NEW n \in Nat \ {0},
         NEW status \in Status, MarkUnreadable(pa, n, status)
  PROVE  /\ Len(unreadable) \in Nat
         /\ \A k \in 1..Len(unreadable) : unreadable[k] \in Span
         /\ Extends(pa, n, status) \/ Appends(pa, n, status)
<1> DEFINE L == Len(unreadable)
           last == unreadable[L]
           longer == [last EXCEPT !.length = @ + n]
           new == [start |-> pa, length |-> n, status |-> status]
<1>1. /\ unreadable \in Seq(Span) /\ L \in Nat
      /\ \A k \in 1..L : unreadable[k] \in Span
  BY LenProperties, ElementOfSeq DEF Counted, PositionedType, TypeOK
<1>2. CASE Coalesces(pa, status)
  <2>1. L \in 1..L /\ L > 0
    BY <1>1, <1>2, EmptySeq DEF Coalesces
  <2>2. last \in Span /\ last.start + last.length = pa /\ last.status = status
    BY <1>1, <1>2, <2>1 DEF Coalesces
  <2>3. /\ longer.start = last.start /\ longer.length = last.length + n
        /\ longer.status = status /\ longer \in Span
    BY <2>2 DEF Span
  <2>4. unreadable' = [unreadable EXCEPT ![L] = longer]
    BY <1>2 DEF MarkUnreadable
  <2>5. DOMAIN unreadable = 1..L
    BY <1>1
  <2> HIDE DEF longer, last, L
  <2>6. /\ unreadable'[L] = longer
        /\ \A k \in 1..L - 1 : unreadable'[k] = unreadable[k]
    BY <1>1, <2>1, <2>4, <2>5
  <2>7. Len(unreadable') = L
    BY <1>1, <2>1, <2>3, <2>4, ExceptSeq DEF L
  <2> QED BY <1>1, <2>1, <2>2, <2>3, <2>6, <2>7 DEF Extends, L, last
<1>3. CASE ~Coalesces(pa, status)
  <2>1. unreadable' = Append(unreadable, new) /\ new \in Span
    BY <1>3 DEF MarkUnreadable, Span
  <2>2. /\ Len(unreadable') = L + 1
        /\ \A k \in 1..L : unreadable'[k] = unreadable[k]
        /\ unreadable'[L + 1] = new
    <3> HIDE DEF new
    <3> QED BY <1>1, <2>1, AppendProperties
  <2>3. L > 0 /\ last.start + last.length = pa => last.status # status
    BY <1>1, <1>3, EmptySeq DEF Coalesces
  <2> QED BY <1>1, <2>2, <2>3 DEF Appends
<1> QED BY <1>1, <1>2, <1>3

(* What makes the canonical list inductive. *)
Spanned == Counted /\ Behind /\ SpansCanonical /\ StatusFaithful

(* A page that returned nothing. *)
LEMMA MarkSpanned ==
  ASSUME Spanned, Reading, pc' \in {"chunk", "page"}, NEW n \in Nat \ {0},
         NEW status \in Status, Here \in Address,
         MarkUnreadable(Here, n, status)
  PROVE  Behind' /\ SpansCanonical' /\ StatusFaithful'
<1> DEFINE L == Len(unreadable)
           pa == Here
           u == unreadable
           v == unreadable'
<1>1. /\ L \in Nat /\ pa \in Nat
      /\ \A k \in 1..L : /\ u[k].start \in Nat /\ u[k].length \in Nat \ {0}
                         /\ u[k].start + u[k].length <= pa
      /\ Extends(pa, n, status) \/ Appends(pa, n, status)
  <2>1. /\ L \in Nat /\ \A k \in 1..L : u[k] \in Span
        /\ Extends(pa, n, status) \/ Appends(pa, n, status)
    BY MarkFacts DEF Spanned
  <2>2. \A k \in 1..L : u[k].start + u[k].length <= pa
    BY DEF Spanned, Behind
  <2> QED BY <2>1, <2>2, SizesAssumption DEF Span, Address
<1>2. Here' = pa + n
  <2>1. UNCHANGED <<runs, index>> /\ offset' = offset + n
    BY DEF MarkUnreadable
  <2>2. /\ runs \in Layouts /\ index \in 1..Len(runs) /\ offset \in Nat
    BY DEF Spanned, Counted, PositionedType, Positioned, TypeOK
  <2>3. Run.base \in Nat
    BY <2>2, LayoutFacts DEF Run
  <2> QED BY <2>1, <2>2, <2>3 DEF Here, Run
<1>3. \A a \in Address :
        /\ a \in Nat
        /\ a < pa => observed'[a] = observed[a]
        /\ pa <= a /\ a < pa + n => observed'[a] = status
  BY <1>1, SizesAssumption, SMTT(30) DEF MarkUnreadable, Address
<1>4. \A k \in 1..L, a \in Address :
        u[k].start <= a /\ a < u[k].start + u[k].length =>
          a < pa /\ observed'[a] = u[k].status
  BY <1>1, <1>3, SMTT(30) DEF Spanned, StatusFaithful, InSpan
<1>5. \A k \in 1 .. L - 1 :
        /\ u[k].start + u[k].length <= u[k + 1].start
        /\ u[k].start + u[k].length = u[k + 1].start =>
             u[k].status # u[k + 1].status
  BY DEF Spanned, SpansCanonical
<1> HIDE DEF L, pa, u, v
<1>6. CASE Extends(pa, n, status)
  <2>1. /\ L > 0 /\ Len(v) = L
        /\ u[L].start + u[L].length = pa /\ u[L].status = status
        /\ \A k \in 1 .. L - 1 : v[k] = u[k]
        /\ v[L].start = u[L].start /\ v[L].length = u[L].length + n
        /\ v[L].status = status
    BY <1>6 DEF Extends, L, u, v
  <2>2. \A k \in 1..L : v[k].start + v[k].length <= pa + n
    <3> TAKE k \in 1..L
    <3>1. CASE k = L
      BY <1>1, <2>1, <3>1
    <3>2. CASE k # L
      <4>1. k \in 1 .. L - 1 /\ v[k] = u[k]
        BY <1>1, <2>1, <3>2
      <4> QED BY <1>1, <4>1
    <3> QED BY <3>1, <3>2
  <2>3. \A k \in 1 .. L - 1 :
          /\ v[k].start + v[k].length <= v[k + 1].start
          /\ v[k].start + v[k].length = v[k + 1].start =>
               v[k].status # v[k + 1].status
    <3> TAKE k \in 1 .. L - 1
    <3>1. v[k] = u[k] /\ v[k + 1].start = u[k + 1].start
          /\ v[k + 1].status = u[k + 1].status
      <4>1. CASE k = L - 1
        BY <1>1, <2>1, <4>1
      <4>2. CASE k # L - 1
        <5>1. k + 1 \in 1 .. L - 1
          BY <1>1, <4>2
        <5> QED BY <2>1, <5>1
      <4> QED BY <4>1, <4>2
    <3> QED BY <1>5, <3>1
  <2>4. ASSUME NEW k \in 1..L, NEW a \in Address, v[k].start <= a,
               a < v[k].start + v[k].length
        PROVE  observed'[a] = v[k].status
    <3>1. CASE k = L
      <4>1. u[L].start + u[L].length = pa /\ a \in Nat /\ L \in 1..L
            /\ u[L].start <= a /\ a < pa + n
        BY <1>1, <1>3, <2>1, <2>4, <3>1, SMTT(30)
      <4>2. CASE a < pa
        BY <1>4, <2>1, <3>1, <4>1, <4>2
      <4>3. CASE pa <= a
        BY <1>3, <2>1, <3>1, <4>1, <4>3
      <4> QED BY <1>1, <4>1, <4>2, <4>3
    <3>2. CASE k # L
      <4>1. k \in 1 .. L - 1
        BY <1>1, <3>2
      <4> QED BY <1>4, <2>1, <2>4, <4>1
    <3> QED BY <3>1, <3>2
  <2>5. Behind'
    BY <1>2, <2>1, <2>2 DEF Behind, v
  <2>6. SpansCanonical'
    BY <2>1, <2>3 DEF SpansCanonical, v
  <2>7. StatusFaithful'
    BY <2>1, <2>4 DEF StatusFaithful, InSpan, v
  <2> QED BY <2>5, <2>6, <2>7
<1>7. CASE Appends(pa, n, status)
  <2>1. /\ Len(v) = L + 1
        /\ L > 0 /\ u[L].start + u[L].length = pa => u[L].status # status
        /\ \A k \in 1..L : v[k] = u[k]
        /\ v[L + 1].start = pa /\ v[L + 1].length = n
        /\ v[L + 1].status = status
    BY <1>7 DEF Appends, L, u, v
  <2>2. \A k \in 1 .. L + 1 : v[k].start + v[k].length <= pa + n
    <3> TAKE k \in 1 .. L + 1
    <3>1. CASE k = L + 1
      BY <1>1, <2>1, <3>1
    <3>2. CASE k # L + 1
      <4>1. k \in 1..L /\ v[k] = u[k]
        BY <1>1, <2>1, <3>2
      <4>2. /\ u[k].start \in Nat /\ u[k].length \in Nat
            /\ u[k].start + u[k].length <= pa
        BY <1>1, <4>1
      <4> QED BY <1>1, <4>1, <4>2
    <3> QED BY <3>1, <3>2
  <2>3. \A k \in 1..L :
          /\ v[k].start + v[k].length <= v[k + 1].start
          /\ v[k].start + v[k].length = v[k + 1].start =>
               v[k].status # v[k + 1].status
    <3> TAKE k \in 1..L
    <3>0. v[k] = u[k]
      BY <2>1
    <3>1. CASE k = L
      BY <1>1, <2>1, <3>0, <3>1
    <3>2. CASE k # L
      <4>1. k \in 1 .. L - 1 /\ k + 1 \in 1..L
        BY <1>1, <3>2
      <4> QED BY <1>5, <2>1, <3>0, <4>1
    <3> QED BY <3>1, <3>2
  <2>4. ASSUME NEW k \in 1 .. L + 1, NEW a \in Address, v[k].start <= a,
               a < v[k].start + v[k].length
        PROVE  observed'[a] = v[k].status
    <3>1. CASE k = L + 1
      BY <1>3, <2>1, <2>4, <3>1
    <3>2. CASE k # L + 1
      <4>1. k \in 1..L
        BY <1>1, <3>2
      <4> QED BY <1>4, <2>1, <2>4, <4>1
    <3> QED BY <3>1, <3>2
  <2>5. Behind'
    BY <1>2, <2>1, <2>2 DEF Behind, v
  <2>6. SpansCanonical'
    <3>1. Len(v) - 1 = L
      BY <1>1, <2>1
    <3> QED BY <2>3, <3>1 DEF SpansCanonical, v
  <2>7. StatusFaithful'
    BY <2>1, <2>4 DEF StatusFaithful, InSpan, v
  <2> QED BY <2>5, <2>6, <2>7
<1> QED BY <1>1, <1>6, <1>7

LEMMA InitSpanned == Init => Behind /\ SpansCanonical /\ StatusFaithful
BY EmptySeq DEF Init, Behind, Reading, SpansCanonical, StatusFaithful

(* A step that records nothing, and only moves on. *)
LEMMA StillSpanned ==
  ASSUME Spanned, UNCHANGED <<unreadable, observed>>,
         Reading' => (Reading /\ Here <= Here') \/ unreadable = <<>>,
         Here \in Nat \/ ~Reading, Here' \in Nat \/ ~Reading'
  PROVE  Behind' /\ SpansCanonical' /\ StatusFaithful'
<1>1. SpansCanonical' /\ StatusFaithful'
  BY DEF Spanned, SpansCanonical, StatusFaithful, InSpan
<1>2. Behind'
  <2>1. SUFFICES ASSUME Reading', NEW k \in 1..Len(unreadable)
                 PROVE  unreadable[k].start + unreadable[k].length <= Here'
    BY DEF Behind
  <2>2. Len(unreadable) # 0 /\ unreadable \in Seq(Span)
    BY <2>1 DEF Spanned, Counted, PositionedType, TypeOK
  <2>3. Reading /\ Here <= Here'
    BY <2>1, <2>2, EmptySeq
  <2>4. /\ unreadable[k] \in Span
        /\ unreadable[k].start + unreadable[k].length <= Here
    BY <2>1, <2>2, <2>3, ElementOfSeq DEF Spanned, Behind
  <2>5. unreadable[k].start \in Nat /\ unreadable[k].length \in Nat
    BY <2>4, SizesAssumption DEF Span, Address
  <2> QED BY <2>1, <2>3, <2>4, <2>5
<1> QED BY <1>1, <1>2

LEMMA HereFacts ==
  ASSUME Counted, Reading
  PROVE  /\ runs \in Layouts /\ index \in 1..Len(runs) /\ Len(runs) \in Nat
         /\ offset \in Nat /\ Run.base \in Nat /\ Run.length \in Nat
         /\ Here = Run.base + offset /\ Here \in Nat
<1>1. runs \in Layouts /\ index \in 1..Len(runs) /\ offset \in Nat
  BY DEF Counted, PositionedType, Positioned, TypeOK
<1>2. Run.base \in Nat /\ Run.length \in Nat /\ Len(runs) \in Nat
  BY <1>1, LayoutFacts DEF Run
<1> QED BY <1>1, <1>2 DEF Here

(* The run being read ends among the addresses. *)
LEMMA RunFits ==
  ASSUME Counted, Reading
  PROVE  /\ AddressLimit \in Nat
         /\ End(Run) \in Nat /\ End(Run) <= AddressLimit
<1>1. runs \in Layouts /\ index \in 1..Len(runs)
  BY HereFacts
<1>2. /\ Run.base \in Nat /\ Run.length \in Nat
      /\ Run.base + Run.length <= AddressLimit
  BY <1>1, LayoutFacts DEF Run
<1>3. End(Run) = Run.base + Run.length
  BY DEF End
<1> HIDE DEF End
<1> QED BY <1>2, <1>3, SizesAssumption

(* Runs that follow one another do not overlap. *)
LEMMA RunsAscend ==
  ASSUME NEW rs \in Layouts, NEW i \in 1..Len(rs), NEW j \in 1..Len(rs), i < j
  PROVE  rs[i].base + rs[i].length <= rs[j].base
BY LayoutsAssumption DEF IsLayout, End

LEMMA NextRunAhead ==
  ASSUME Counted, NextRun, pc' = "chunk"
  PROVE  Here <= Here' /\ Here' \in Nat /\ Reading
<1>1. Reading /\ pc = "chunk" /\ offset = Run.length
  BY DEF NextRun, Reading
<1>2. index < Len(runs) /\ index' = index + 1 /\ offset' = 0 /\ runs' = runs
  BY <1>1 DEF NextRun
<1>3. /\ runs \in Layouts /\ index \in 1..Len(runs) /\ Len(runs) \in Nat
      /\ Here = Run.base + offset /\ Run.base \in Nat /\ Run.length \in Nat
  BY <1>1, HereFacts
<1>4. index + 1 \in 1..Len(runs) /\ index < index + 1
  BY <1>2, <1>3
<1>5. /\ runs[index].base + runs[index].length <= runs[index + 1].base
      /\ runs[index + 1].base \in Nat
  BY <1>3, <1>4, RunsAscend, LayoutFacts
<1>6. Here' = runs[index + 1].base
  BY <1>2, <1>5 DEF Here, Run
<1> QED BY <1>1, <1>3, <1>5, <1>6 DEF Run

LEMMA NextSpanned ==
  ASSUME Spanned, Counted', [Next]_vars
  PROVE  Behind' /\ SpansCanonical' /\ StatusFaithful'
<1>0. Counted /\ (Reading => Here \in Nat) /\ (Reading' => Here' \in Nat)
  <2>1. ASSUME Reading' PROVE Here' \in Nat
    <3>1. runs' \in Layouts /\ index' \in 1..Len(runs') /\ offset' \in Nat
      BY <2>1 DEF Counted, PositionedType, Positioned, TypeOK
    <3>2. runs'[index'].base \in Nat
      BY <3>1, LayoutFacts
    <3> QED BY <3>1, <3>2 DEF Here, Run
  <2> QED BY <2>1, HereFacts DEF Spanned
<1>1. ASSUME UNCHANGED <<unreadable, observed>>,
             Reading' => Reading /\ UNCHANGED <<runs, index, offset>>
      PROVE  Behind' /\ SpansCanonical' /\ StatusFaithful'
  <2>1. Reading' => Reading /\ Here <= Here'
    BY <1>0, <1>1 DEF Here, Run
  <2> QED BY <1>0, <1>1, <2>1, StillSpanned
<1>2. CASE ReadChunk \/ ReadPage
  <2>1. Reading
    BY <1>2 DEF ReadChunk, ReadPage, Reading
  <2>2. CASE /\ pc' = "failed"
             /\ UNCHANGED <<unreadable, observed, runs, position>>
    BY <1>1, <2>2 DEF Reading
  <2>3. CASE /\ UNCHANGED <<runs, position, stored, marked>>
             /\ pc' \in {"chunk", "page"}
    BY <1>1, <2>1, <2>3 DEF position, marked
  <2>4. ASSUME NEW n \in Nat \ {0}, NEW result \in ReadResults(Here, n),
               Here \in Address, pc' \in {"chunk", "page"},
               \/ Store(result)
               \/ MarkUnreadable(Here, n, result.copyStatus)
        PROVE  Behind' /\ SpansCanonical' /\ StatusFaithful'
    <3>1. result.copied \in Nat /\ result.copyStatus \in Status
      BY <1>0, <2>1, ResultFacts
    <3>2. CASE Store(result)
      <4>1. /\ UNCHANGED <<unreadable, observed, runs, index>>
            /\ offset' = offset + result.copied
        BY <3>2 DEF Store, marked
      <4>2. /\ Here = Run.base + offset /\ Run.base \in Nat /\ offset \in Nat
            /\ Here' = Run.base + offset'
        BY <1>0, <2>1, <4>1, HereFacts DEF Here, Run
      <4>3. Here <= Here'
        BY <3>1, <4>1, <4>2
      <4> QED BY <1>0, <2>1, <4>1, <4>3, StillSpanned
    <3>3. CASE MarkUnreadable(Here, n, result.copyStatus)
      BY <2>1, <2>4, <3>1, <3>3, MarkSpanned
    <3> QED BY <2>4, <3>2, <3>3
  <2> QED BY <1>0, <1>2, <2>2, <2>3, <2>4, StoredRead
<1>3. CASE Query
  <2>1. unreadable = <<>> /\ ~Reading /\ UNCHANGED <<unreadable, observed>>
    BY <1>0, <1>3 DEF Query, Counted, Blank, Reading, marked
  <2> QED BY <1>0, <2>1, StillSpanned
<1>4. CASE NextRun
  <2>1. UNCHANGED <<unreadable, observed>> /\ pc' \in {"chunk", "tail"}
    BY <1>4 DEF NextRun, marked
  <2>2. CASE pc' = "chunk"
    BY <1>0, <1>4, <2>1, <2>2, NextRunAhead, StillSpanned
  <2>3. CASE pc' = "tail"
    BY <1>1, <2>1, <2>3 DEF Reading
  <2> QED BY <2>1, <2>2, <2>3
<1>5. CASE \/ WindowDone \/ ReadFails \/ CancelSeen \/ Pace \/ HashTail
           \/ EndSession \/ Cancel \/ UNCHANGED vars
  BY <1>1, <1>5
     DEF WindowDone, ReadFails, CancelSeen, Pace, HashTail, EndSession, Cancel,
         Fail, position, marked, vars, Reading
<1> QED BY <1>2, <1>3, <1>4, <1>5 DEF Next, Engine, Returned

(* The strengthened invariant of the list of spans holds always. *)
THEOREM SpannedAlways == Spec => []Spanned
<1>1. Init => Behind /\ SpansCanonical /\ StatusFaithful
  BY InitSpanned
<1>2. Counted /\ Counted' /\ Behind /\ SpansCanonical /\ StatusFaithful
        /\ [Next]_vars => Behind' /\ SpansCanonical' /\ StatusFaithful'
  BY NextSpanned DEF Spanned
<1>3. Counted /\ Behind /\ SpansCanonical /\ StatusFaithful <=> Spanned
  BY DEF Spanned
<1> QED BY <1>1, <1>2, <1>3, CountedAlways, PTL DEF Spec

(* AddUnreadable of acquire.cpp keeps its list sorted, without overlap and *)
(* as short as the statuses allow, through retries, windows and runs.      *)
THEOREM SpansInOrder == Spec => []SpansCanonical
<1>1. Spanned => SpansCanonical
  BY DEF Spanned
<1> QED BY <1>1, SpannedAlways, PTL

(* Coalescing never gives a byte another NTSTATUS than the device gave it. *)
THEOREM StatusKept == Spec => []StatusFaithful
<1>1. Spanned => StatusFaithful
  BY DEF Spanned
<1> QED BY <1>1, SpannedAlways, PTL
---------------------------------------------------------------------------
(* Each byte once.                                                         *)

LEMMA PassedIsBehind ==
  ASSUME Counted, Reading, NEW a \in Address, Passed(a)
  PROVE  a < Here
<1>1. /\ runs \in Layouts /\ index \in 1..Len(runs) /\ Len(runs) \in Nat
      /\ offset \in Nat /\ Run.base \in Nat /\ Here = Run.base + offset
      /\ a \in Nat
  BY HereFacts, SizesAssumption DEF Address
<1>2. PICK i \in 1..Len(runs) :
        /\ runs[i].base <= a
        /\ \/ i < index /\ a < End(runs[i])
           \/ i = index /\ a < runs[i].base + offset
  BY DEF Passed
<1>3. CASE i < index
  <2>1. /\ runs[i].base + runs[i].length <= Run.base
        /\ runs[i].base \in Nat /\ runs[i].length \in Nat
    BY <1>1, <1>2, <1>3, RunsAscend, LayoutFacts DEF Run
  <2> QED BY <1>1, <1>2, <1>3, <2>1, SMTT(30) DEF End
<1>4. CASE i = index
  BY <1>1, <1>2, <1>4 DEF Run
<1> QED BY <1>2, <1>3, <1>4

(* A step of k bytes passes these and no others. *)
LEMMA PassedGrows ==
  ASSUME Counted, Reading, NEW k \in Nat, UNCHANGED <<runs, index>>,
         offset' = offset + k, NEW a \in Address
  PROVE  Passed(a)' <=> Passed(a) \/ (Here <= a /\ a < Here + k)
<1>1. /\ runs \in Layouts /\ index \in 1..Len(runs) /\ offset \in Nat
      /\ runs[index].base \in Nat /\ Here = runs[index].base + offset
      /\ a \in Nat
  BY HereFacts, SizesAssumption DEF Address, Run
<1>2. ASSUME NEW i \in 1..Len(runs)
      PROVE  (\/ i < index /\ a < End(runs[i])
              \/ i = index /\ a < runs[i].base + (offset + k))
             <=> \/ i < index /\ a < End(runs[i])
                 \/ i = index /\ a < runs[i].base + offset
                 \/ i = index /\ runs[i].base + offset <= a
                      /\ a < runs[i].base + offset + k
  <2>1. CASE i = index
    BY <1>1, <2>1
  <2>2. CASE i # index
    BY <2>2
  <2> QED BY <2>1, <2>2
<1>3. ASSUME Passed(a)' PROVE Passed(a) \/ (Here <= a /\ a < Here + k)
  <2>1. PICK i \in 1..Len(runs) :
          /\ runs[i].base <= a
          /\ \/ i < index /\ a < End(runs[i])
             \/ i = index /\ a < runs[i].base + (offset + k)
    BY <1>3 DEF Passed
  <2> QED BY <1>1, <1>2, <2>1 DEF Passed
<1>4. ASSUME Passed(a) PROVE Passed(a)'
  <2>1. PICK i \in 1..Len(runs) :
          /\ runs[i].base <= a
          /\ \/ i < index /\ a < End(runs[i])
             \/ i = index /\ a < runs[i].base + offset
    BY <1>4 DEF Passed
  <2> QED BY <1>2, <2>1 DEF Passed
<1>5. ASSUME Here <= a, a < Here + k PROVE Passed(a)'
  <2>1. runs[index].base <= a /\ a < runs[index].base + (offset + k)
    BY <1>1, <1>5, SMTT(30)
  <2> QED BY <1>1, <2>1 DEF Passed
<1> QED BY <1>3, <1>4, <1>5

(* The bytes of one step, stored or marked, were not passed before. *)
LEMMA StepOnce ==
  ASSUME Counted, ExactlyOnce, Reading, pc # "failed", NEW k \in Nat,
         UNCHANGED <<runs, index>>, offset' = offset + k,
         \A a \in Address :
           LET new == Here <= a /\ a < Here + k
           IN  \/ /\ Acquired(a)' <=> Acquired(a) \/ new
                  /\ Covered(a)' <=> Covered(a)
               \/ /\ Acquired(a)' <=> Acquired(a)
                  /\ Covered(a)' <=> Covered(a) \/ new
  PROVE  ExactlyOnce'
<1> SUFFICES ASSUME NEW a \in Address
             PROVE  /\ Passed(a)' <=> (Acquired(a)' \/ Covered(a)')
                    /\ ~(Acquired(a)' /\ Covered(a)')
  BY DEF ExactlyOnce
<1> DEFINE new == Here <= a /\ a < Here + k
           passed == Passed(a)
           acquired == Acquired(a)
           covered == Covered(a)
<1>1. Passed(a)' <=> passed \/ new
  BY PassedGrows
<1>2. /\ passed <=> acquired \/ covered
      /\ ~(acquired /\ covered)
  BY DEF ExactlyOnce
<1>3. ~(passed /\ new)
  <2>1. Here \in Nat /\ a \in Nat
    BY HereFacts, SizesAssumption DEF Address
  <2> QED BY <2>1, PassedIsBehind
<1>4. \/ (Acquired(a)' <=> acquired \/ new) /\ (Covered(a)' <=> covered)
      \/ (Acquired(a)' <=> acquired) /\ (Covered(a)' <=> covered \/ new)
  OBVIOUS
<1> HIDE DEF new, passed, acquired, covered
<1> QED BY <1>1, <1>2, <1>3, <1>4

(* A transfer acquires its bytes and no others. *)
LEMMA StoreAcquires ==
  ASSUME Counted, Reading, NEW n \in Nat, Here \in Address,
         NEW result \in ReadResults(Here, n),
         ValidateReadResult(result, Here, n), Store(result)
  PROVE  /\ result.copied \in 0..n
         /\ \A a \in Address :
              Acquired(a)' <=>
                Acquired(a) \/ (Here <= a /\ a < Here + result.copied)
<1> DEFINE c == result.copied
<1>1. Here \in Nat /\ c \in 0..n /\ ImageGains(Here, result)
  <2>1. TypeOK /\ Here \in Nat
    BY HereFacts DEF Counted, PositionedType
  <2> QED BY <2>1, StoreFacts
<1>2. ASSUME NEW a \in Address
      PROVE  Acquired(a)' <=> Acquired(a) \/ (Here <= a /\ a < Here + c)
  <2>1. a \in Nat
    BY SizesAssumption DEF Address
  <2>2. CASE Here <= a /\ a < Here + c
    <3>1. a \in Here .. Here + result.copied - 1
      BY <1>1, <2>1, <2>2
    <3>2. image'[a] \in Byte
      BY <1>1, <3>1 DEF ImageGains
    <3> QED BY <2>2, <3>2, BytesAssumption DEF Acquired
  <2>3. CASE ~(Here <= a /\ a < Here + c)
    <3>1. a \notin Here .. Here + result.copied - 1
      BY <1>1, <2>1, <2>3
    <3>2. image'[a] = image[a]
      BY <1>1, <3>1 DEF ImageGains
    <3> QED BY <2>3, <3>2 DEF Acquired
  <2> QED BY <2>2, <2>3
<1> QED BY <1>1, <1>2

LEMMA StoreOnce ==
  ASSUME Counted, ExactlyOnce, Reading, NEW n \in Nat, Here \in Address,
         NEW result \in ReadResults(Here, n),
         ValidateReadResult(result, Here, n), Store(result)
  PROVE  ExactlyOnce'
<1> DEFINE c == result.copied
<1>1. /\ c \in Nat
      /\ \A a \in Address :
           Acquired(a)' <=> Acquired(a) \/ (Here <= a /\ a < Here + c)
  BY StoreAcquires
<1>2. UNCHANGED <<runs, index, unreadable>> /\ offset' = offset + c
  BY DEF Store, marked
<1>3. \A a \in Address : Covered(a)' <=> Covered(a)
  BY <1>2 DEF Covered
<1> HIDE DEF c
<1> QED BY <1>1, <1>2, <1>3, StepOnce DEF Reading

(* A page that is marked covers its bytes and no others. *)
LEMMA MarkCovers ==
  ASSUME Counted, NEW n \in Nat \ {0}, Here \in Address,
         NEW status \in Status, MarkUnreadable(Here, n, status),
         NEW a \in Address
  PROVE  Covered(a)' <=> Covered(a) \/ (Here <= a /\ a < Here + n)
<1> DEFINE L == Len(unreadable)
           pa == Here
           u == unreadable
           v == unreadable'
<1>1. /\ L \in Nat /\ pa \in Nat
      /\ \A k \in 1..L : u[k].start \in Nat /\ u[k].length \in Nat \ {0}
      /\ Extends(pa, n, status) \/ Appends(pa, n, status)
  <2>1. L \in Nat /\ \A k \in 1..L : u[k] \in Span
    BY MarkFacts
  <2>2. Extends(pa, n, status) \/ Appends(pa, n, status)
    BY MarkFacts
  <2>3. pa \in Nat
    BY SizesAssumption DEF Address
  <2> HIDE DEF L, pa, u, v
  <2>4. ASSUME NEW k \in 1..L
        PROVE  u[k].start \in Nat /\ u[k].length \in Nat \ {0}
    <3>1. u[k] \in Span
      BY <2>1
    <3> QED BY <3>1, SizesAssumption DEF Span, Address
  <2> QED BY <2>1, <2>2, <2>3, <2>4
<1>2. a \in Nat
  BY SizesAssumption DEF Address
<1>3. CASE Extends(pa, n, status)
  <2>1. /\ L \in 1..L /\ Len(v) = L
        /\ u[L].start + u[L].length = pa
        /\ \A k \in 1..L : k # L => v[k] = u[k]
        /\ v[L].start = u[L].start /\ v[L].length = u[L].length + n
    BY <1>1, <1>3 DEF Extends
  <2>2. InSpan(a, v[L]) <=> InSpan(a, u[L]) \/ (pa <= a /\ a < pa + n)
    BY <1>1, <1>2, <2>1, SMTT(30) DEF InSpan
  <2>3. \A k \in 1..L : k # L => (InSpan(a, v[k]) <=> InSpan(a, u[k]))
    BY <2>1
  <2> HIDE DEF L, u, v
  <2>4. (\E k \in 1..L : InSpan(a, v[k]))
          <=> (\E k \in 1..L : InSpan(a, u[k])) \/ (pa <= a /\ a < pa + n)
    BY <2>1, <2>2, <2>3
  <2> QED BY <2>1, <2>4 DEF Covered, L, u, v
<1>4. CASE Appends(pa, n, status)
  <2>1. /\ L + 1 \in 1 .. L + 1 /\ Len(v) = L + 1
        /\ \A k \in 1..L : k \in 1 .. L + 1 /\ v[k] = u[k]
        /\ \A k \in 1 .. L + 1 : k \in 1..L \/ k = L + 1
        /\ v[L + 1].start = pa /\ v[L + 1].length = n
    BY <1>1, <1>4 DEF Appends
  <2>2. InSpan(a, v[L + 1]) <=> pa <= a /\ a < pa + n
    BY <2>1 DEF InSpan
  <2> HIDE DEF L, u, v
  <2>3. (\E k \in 1 .. L + 1 : InSpan(a, v[k]))
          <=> (\E k \in 1..L : InSpan(a, u[k])) \/ (pa <= a /\ a < pa + n)
    BY <2>1, <2>2
  <2> QED BY <2>1, <2>3 DEF Covered, L, u, v
<1> QED BY <1>1, <1>3, <1>4

LEMMA MarkOnce ==
  ASSUME Counted, ExactlyOnce, Reading, NEW n \in Nat \ {0}, Here \in Address,
         NEW status \in Status, MarkUnreadable(Here, n, status)
  PROVE  ExactlyOnce'
<1>1. /\ UNCHANGED <<runs, index, image>> /\ offset' = offset + n
      /\ \A a \in Address : Acquired(a)' <=> Acquired(a)
  BY DEF MarkUnreadable, stored, Acquired
<1> QED BY <1>1, MarkCovers, StepOnce DEF Reading

LEMMA InitOnce == Init => ExactlyOnce
<1> SUFFICES ASSUME Init PROVE ExactlyOnce
  OBVIOUS
<1>1. Len(runs) = 0 /\ Len(unreadable) = 0
  BY DEF Init
<1>2. \A a \in Address : image[a] = Hole
  BY DEF Init
<1> QED BY <1>1, <1>2 DEF ExactlyOnce, Passed, Covered, Acquired

(* A step that passes no byte and records none. *)
LEMMA StillOnce ==
  ASSUME ExactlyOnce,
         \/ pc' = "failed"
         \/ /\ pc # "failed" /\ UNCHANGED <<image, unreadable>>
            /\ \A a \in Address : Passed(a)' <=> Passed(a)
  PROVE  ExactlyOnce'
BY DEF ExactlyOnce, Acquired, Covered

LEMMA NextRunOnce ==
  ASSUME Counted, ExactlyOnce, NextRun PROVE ExactlyOnce'
<1>1. /\ runs \in Layouts /\ index \in 1..Len(runs) /\ Len(runs) \in Nat
      /\ offset = runs[index].length /\ runs' = runs /\ pc # "failed"
      /\ UNCHANGED <<image, unreadable>>
  BY HereFacts DEF NextRun, Reading, Run, stored, marked
<1>2. CASE index < Len(runs)
  <2>1. index' = index + 1 /\ offset' = 0
    BY <1>2 DEF NextRun
  <2>2. ASSUME NEW a \in Address, NEW i \in 1..Len(runs), runs[i].base <= a
        PROVE  (\/ i < index + 1 /\ a < End(runs[i])
                \/ i = index + 1 /\ a < runs[i].base + 0)
               <=> \/ i < index /\ a < End(runs[i])
                   \/ i = index /\ a < runs[i].base + offset
    <3>0. a \in Nat
      BY SizesAssumption DEF Address
    <3>1. a \in Nat /\ runs[i].base \in Nat
      BY <1>1, <3>0, LayoutFacts
    <3>2. i < index + 1 <=> i < index \/ i = index
      BY <1>1
    <3>3. ~(a < runs[i].base + 0)
      BY <2>2, <3>1
    <3>4. i = index => (a < End(runs[i]) <=> a < runs[i].base + offset)
      BY <1>1 DEF End
    <3>5. ~(i < index /\ i = index)
      BY <1>1
    <3> QED BY <3>2, <3>3, <3>4, <3>5, Zenon
  <2>3. \A a \in Address : Passed(a)' <=> Passed(a)
    BY <1>1, <2>1, <2>2 DEF Passed
  <2> QED BY <1>1, <2>3, StillOnce
<1>3. CASE ~(index < Len(runs))
  BY <1>1, <1>3, StillOnce DEF NextRun, position, Passed
<1> QED BY <1>2, <1>3

LEMMA NextOnce ==
  ASSUME Counted, ExactlyOnce, [Next]_vars PROVE ExactlyOnce'
<1>1. ASSUME pc # "failed" \/ pc' = "failed",
             UNCHANGED <<image, unreadable, runs, index, offset>>
      PROVE  ExactlyOnce'
  BY <1>1, StillOnce DEF Passed
<1>2. CASE ReadChunk \/ ReadPage
  <2>1. Reading /\ pc # "failed"
    BY <1>2 DEF ReadChunk, ReadPage, Reading
  <2>2. CASE pc' = "failed"
    BY <2>2, StillOnce
  <2>3. CASE /\ UNCHANGED <<runs, position, stored, marked>>
             /\ pc' \in {"chunk", "page"}
    BY <1>1, <2>1, <2>3 DEF position, stored, marked
  <2>4. ASSUME NEW n \in Nat \ {0}, NEW result \in ReadResults(Here, n),
               Here \in Address,
               \/ Store(result) /\ ValidateReadResult(result, Here, n)
               \/ MarkUnreadable(Here, n, result.copyStatus)
        PROVE  ExactlyOnce'
    <3>1. result.copyStatus \in Status
      BY <2>1, HereFacts, ResultFacts
    <3> QED BY <2>1, <2>4, <3>1, StoreOnce, MarkOnce
  <2> QED BY <1>2, <2>2, <2>3, <2>4, StoredRead
<1>3. CASE Query
  <2>1. /\ pc = "query" /\ pc' \in {"chunk", "failed"} /\ runs = <<>>
        /\ index' = 1 /\ offset' = 0 /\ UNCHANGED <<image, unreadable>>
        /\ pc' = "chunk" => runs' \in Layouts
    BY <1>3
       DEF Query, Counted, PositionedType, Positioned, position, stored, marked
  <2>2. CASE pc' = "chunk"
    <3>1. ASSUME NEW a \in Address PROVE ~Passed(a) /\ ~Passed(a)'
      <4>1. ~Passed(a)
        BY <2>1 DEF Passed
      <4>2. ASSUME NEW i \in 1..Len(runs')
            PROVE  ~(i < 1) /\ ~(/\ runs'[i].base <= a
                                 /\ i = 1 /\ a < runs'[i].base + 0)
        <5>1. a \in Nat /\ runs'[i].base \in Nat /\ i \in Nat \ {0}
          BY <2>1, <2>2, LayoutFacts, SizesAssumption DEF Address
        <5> QED BY <5>1
      <4> QED BY <2>1, <4>1, <4>2 DEF Passed
    <3> QED BY <2>1, <3>1, StillOnce
  <2> QED BY <2>1, <2>2, StillOnce
<1>4. CASE \/ WindowDone \/ ReadFails \/ CancelSeen \/ Pace \/ HashTail
           \/ EndSession \/ Cancel \/ UNCHANGED vars
  BY <1>1, <1>4
     DEF WindowDone, ReadFails, CancelSeen, Pace, HashTail, EndSession, Cancel,
         Fail, position, stored, marked, vars, Ended
<1> QED BY <1>2, <1>3, <1>4, NextRunOnce DEF Next, Engine, Returned

(* The retries of acquire.cpp, windows that end inside a page and runs     *)
(* that touch included, leave no byte out and take none twice: a byte that *)
(* has been passed is in the image or in a span, and never in both.        *)
THEOREM EachByteOnce == Spec => []ExactlyOnce
BY InitOnce, NextOnce, CountedAlways, PTL DEF Spec

---------------------------------------------------------------------------
(* The pages.                                                              *)

LEMMA DivUnique ==
  ASSUME NEW p \in Nat \ {0}, NEW q \in Nat, NEW r \in Nat, r < p,
         NEW a \in Nat, a = p * q + r
  PROVE  a \div p = q
<1> DEFINE d == a \div p
           m == a % p
<1>1. d \in Nat /\ m \in 0 .. p - 1 /\ a = p * d + m
  OBVIOUS
<1> HIDE DEF d, m
<1>2. CASE d < q
  <2>1. PICK k \in Nat : q = d + 1 + k
    <3>1. q - d - 1 \in Nat /\ q = d + 1 + (q - d - 1)
      BY <1>1, <1>2
    <3> QED BY <3>1
  <2>2. p * q = p * d + p + p * k /\ p * k \in Nat /\ p * d \in Nat
    BY <1>1, <2>1
  <2> QED BY <1>1, <2>2
<1>3. CASE q < d
  <2>1. PICK k \in Nat : d = q + 1 + k
    <3>1. d - q - 1 \in Nat /\ d = q + 1 + (d - q - 1)
      BY <1>1, <1>3
    <3> QED BY <3>1
  <2>2. p * d = p * q + p + p * k /\ p * k \in Nat /\ p * q \in Nat
    BY <1>1, <2>1
  <2> QED BY <1>1, <2>2
<1> QED BY <1>1, <1>2, <1>3 DEF d

(* A request of PageRequest does not leave the page it starts in. *)
LEMMA SamePage ==
  ASSUME NEW from \in Nat, NEW left \in Nat, NEW a \in Nat,
         from <= a, a < from + PageRequest(from, left)
  PROVE  a \div PageSize = from \div PageSize
<1> DEFINE d == from \div PageSize
           m == from % PageSize
<1>1. /\ PageSize \in Nat \ {0} /\ d \in Nat /\ m \in 0 .. PageSize - 1
      /\ from = PageSize * d + m /\ PageSize * d \in Nat
  BY SizesAssumption
<1>2. a < from + (PageSize - m)
  <2> HIDE DEF d
  <2> QED BY <1>1 DEF PageRequest, Smaller
<1> HIDE DEF d, m
<1>3. /\ a = PageSize * d + (m + (a - from))
      /\ m + (a - from) \in Nat /\ m + (a - from) < PageSize
  BY <1>1, <1>2
<1>4. a \div PageSize = d
  BY <1>1, <1>3, DivUnique
<1> QED BY <1>4 DEF d

(* README.md: a failed transfer is isolated at page granularity.  Whatever *)
(* the size of a page and wherever a window begins, what one step of the   *)
(* isolation loop gives up lies in one page.                               *)
THEOREM PagesIsolated == Spec => IsolatedToPage
<1> DEFINE OnePage ==
      \A a, b \in Address :
        /\ observed[a] = Hole /\ observed'[a] # Hole
        /\ observed[b] = Hole /\ observed'[b] # Hole
        => a \div PageSize = b \div PageSize
<1>1. Counted /\ [Next]_vars => OnePage
  <2> SUFFICES ASSUME Counted, [Next]_vars, observed' # observed
               PROVE  OnePage
    OBVIOUS
  <2>1. ReadPage
    BY DEF Next, Engine, Returned, vars, marked, Query, NextRun, ReadChunk,
           WindowDone, ReadFails, CancelSeen, Pace, HashTail, EndSession,
           Cancel, Fail, Store, StoreFails
  <2> DEFINE n == PageRequest(Here, chunkEnd - offset)
  <2>2. PICK result \in ReadResults(Here, n) :
          MarkUnreadable(Here, n, result.copyStatus)
    BY <2>1 DEF ReadPage, Store, StoreFails, marked
  <2>3. /\ offset < chunkEnd /\ Here \in Nat /\ n \in Nat
        /\ offset \in Nat /\ chunkEnd \in Nat
    BY <2>1, PageRequestFacts
       DEF ReadPage, Counted, PositionedType, TypeOK
  <2>4. ASSUME NEW a \in Address, observed[a] = Hole, observed'[a] # Hole
        PROVE  a \div PageSize = Here \div PageSize
    <3>1. a \in Nat /\ a \in Here .. Here + n - 1
      BY <2>2, <2>4, SizesAssumption DEF MarkUnreadable, Address
    <3> HIDE DEF n
    <3>2. Here <= a /\ a < Here + n
      BY <2>3, <3>1
    <3>3. chunkEnd - offset \in Nat
      BY <2>3
    <3> QED BY <2>3, <3>1, <3>2, <3>3, SamePage DEF n
  <2> QED BY <2>4
<1> QED BY <1>1, CountedAlways, PTL DEF Spec, IsolatedToPage

---------------------------------------------------------------------------
(* The promise.                                                            *)

Evidenced == Spanned /\ ExactlyOnce /\ HashMatchesImage

InPhys(a) == \E i \in 1..Len(runs) : runs[i].base <= a /\ a < End(runs[i])

(* What is known of a byte, without looking for the span it lies in.       *)
Truth(a) == IF Acquired(a) THEN image[a]
            ELSE IF Covered(a) THEN observed[a] ELSE Hole

LEMMA TruthFacts ==
  Spanned => \A a \in Address :
    /\ ByteProvenance(a) = Truth(a)
    /\ Truth(a) \in Byte \cup Status \cup {Hole}
    /\ Truth(a) # Hole <=> Acquired(a) \/ Covered(a)
    /\ Truth(a) \in Byte <=> Acquired(a)
<1> SUFFICES ASSUME Spanned, NEW a \in Address
             PROVE  /\ ByteProvenance(a) = Truth(a)
                    /\ Truth(a) \in Byte \cup Status \cup {Hole}
                    /\ Truth(a) # Hole <=> Acquired(a) \/ Covered(a)
                    /\ Truth(a) \in Byte <=> Acquired(a)
  OBVIOUS
<1>1. image[a] \in Byte \cup {Hole}
  BY DEF Spanned, Counted, PositionedType, TypeOK
<1>2. ASSUME Covered(a)
      PROVE  /\ observed[a] \in Status
             /\ unreadable[CHOOSE k \in 1..Len(unreadable) :
                             InSpan(a, unreadable[k])].status = observed[a]
  <2> DEFINE s == CHOOSE k \in 1..Len(unreadable) : InSpan(a, unreadable[k])
  <2>1. s \in 1..Len(unreadable) /\ InSpan(a, unreadable[s])
    BY <1>2 DEF Covered
  <2> HIDE DEF s
  <2>2. observed[a] = unreadable[s].status
    BY <2>1 DEF Spanned, StatusFaithful
  <2>3. unreadable[s] \in Span
    BY <2>1, ElementOfSeq DEF Spanned, Counted, PositionedType, TypeOK
  <2> QED BY <2>2, <2>3 DEF s, Span
<1>3. ByteProvenance(a) = Truth(a)
  BY <1>2 DEF ByteProvenance, Truth
<1> QED BY <1>1, <1>2, <1>3, BytesAssumption DEF Truth, Acquired

(* It is so after a step, too. *)
LEMMA TruthThen ==
  Spanned' => \A a \in Address :
    /\ ByteProvenance(a)' = Truth(a)'
    /\ Truth(a)' \in Byte \cup Status \cup {Hole}
    /\ Truth(a)' # Hole <=> Acquired(a)' \/ Covered(a)'
<1>1. Spanned' => (\A a \in Address :
                     /\ ByteProvenance(a) = Truth(a)
                     /\ Truth(a) \in Byte \cup Status \cup {Hole}
                     /\ Truth(a) # Hole <=> Acquired(a) \/ Covered(a)
                     /\ Truth(a) \in Byte <=> Acquired(a))'
  BY TruthFacts, PTL
<1> QED BY <1>1

LEMMA KnownInPhys ==
  ASSUME Evidenced, pc # "failed", NEW a \in Address,
         Acquired(a) \/ Covered(a)
  PROVE  /\ InPhys(a)
         /\ Reading => a < Here
<1>1. Passed(a)
  BY DEF Evidenced, ExactlyOnce
<1>2. Reading => a < Here
  BY <1>1, PassedIsBehind DEF Evidenced, Spanned
<1>3. PICK i \in 1..Len(runs) :
        /\ runs[i].base <= a
        /\ \/ i < index /\ a < End(runs[i])
           \/ i = index /\ a < runs[i].base + offset
  BY <1>1 DEF Passed
<1>4. PositionedType /\ runs # <<>>
  BY <1>3 DEF Evidenced, Spanned, Counted
<1>5. runs \in Layouts /\ offset \in Nat /\ offset <= Run.length
  <2>1. CASE Reading
    BY <1>4, <2>1 DEF PositionedType, Positioned, TypeOK
  <2>2. CASE ReadThrough
    <3>1. /\ runs \in Layouts /\ offset = Run.length /\ offset \in Nat
      BY <1>4, <2>2 DEF PositionedType, Positioned, TypeOK
    <3> QED BY <3>1
  <2> QED BY <1>4, <2>1, <2>2
          DEF PositionedType, Positioned, TypeOK, Stages, Reading, ReadThrough
<1>6. /\ runs[i].base \in Nat /\ runs[i].length \in Nat /\ a \in Nat
  BY <1>5, LayoutFacts, SizesAssumption, SMTT(30) DEF Address
<1>7. a < End(runs[i])
  BY <1>3, <1>5, <1>6 DEF End, Run
<1> QED BY <1>2, <1>3, <1>7 DEF InPhys

(* A step outside the bytes asked for changes nothing of what is known. *)
LEMMA LearnStep ==
  ASSUME Evidenced, Spanned', pc # "failed", UNCHANGED runs,
         \A a \in Address :
           \/ InPhys(a) /\ ~Acquired(a) /\ ~Covered(a)
           \/ Truth(a)' = Truth(a)
  PROVE  Promise!Learn
<1> DEFINE bytes == [a \in Address |-> ByteProvenance(a)]
<1>1. \A a \in Address :
        /\ bytes[a] = Truth(a) /\ bytes'[a] = Truth(a)'
        /\ Truth(a)' \in Byte \cup Status \cup {Hole}
        /\ Truth(a) # Hole <=> Acquired(a) \/ Covered(a)
  BY TruthFacts, TruthThen DEF Evidenced
<1>2. bytes' \in [Address -> Byte \cup Status \cup {Hole}]
  BY <1>1
<1>3. ASSUME NEW a \in Address, bytes[a] # Hole
      PROVE  bytes'[a] = bytes[a]
  BY <1>1, <1>3
<1>4. ASSUME NEW a \in Address, bytes'[a] # Hole
      PROVE  InPhys(a)
  BY <1>1, <1>4, KnownInPhys
<1>5. ASSUME NEW a \in Address, InPhys(a)
      PROVE  a \in {b \in Address : \E i \in 1..Len(runs) :
                      runs[i].base <= b /\ b < End(runs[i])}
  BY <1>5 DEF InPhys
<1> QED BY <1>2, <1>3, <1>4, <1>5 DEF Promise!Learn, Promise!Known

(* What a read of n bytes may change: the image and the list at its bytes. *)
Touches(n) ==
  /\ UNCHANGED runs
  /\ \A a \in Address :
       ~(Here <= a /\ a < Here + n) =>
         /\ image'[a] = image[a] /\ observed'[a] = observed[a]
         /\ Covered(a)' <=> Covered(a)

LEMMA AnswerTouches ==
  ASSUME Counted, Here \in Address, NEW n \in Nat \ {0},
         NEW result \in ReadResults(Here, n),
         ValidateReadResult(result, Here, n),
         \/ Store(result)
         \/ StoreFails(result)
         \/ MarkUnreadable(Here, n, result.copyStatus)
         \/ UNCHANGED <<runs, image, observed, unreadable>>
  PROVE  Touches(n)
<1>1. /\ Here \in Nat /\ result.physicalAddress = Here
      /\ result.copied \in 0..n /\ result.copyStatus \in Status
      /\ \A a \in Address : a \in Nat
  BY ResultFacts, SizesAssumption DEF ValidateReadResult, Address
<1>2. CASE UNCHANGED <<runs, image, observed, unreadable>>
  BY <1>2 DEF Touches, Covered
<1>3. CASE \E k \in 0 .. result.copied :
             /\ image' = Written(Here, k, result.data)
             /\ UNCHANGED <<runs, observed, unreadable>>
  <2>1. PICK k \in 0 .. result.copied :
          /\ image' = Written(Here, k, result.data)
          /\ UNCHANGED <<runs, observed, unreadable>>
    BY <1>3
  <2>2. ASSUME NEW a \in Address, ~(Here <= a /\ a < Here + n)
        PROVE  image'[a] = image[a]
    <3>1. a \notin Here .. Here + k - 1
      BY <1>1, <2>1, <2>2
    <3> QED BY <2>1, <3>1 DEF Written
  <2> QED BY <2>1, <2>2 DEF Touches, Covered
<1>4. CASE Store(result)
  <2>1. /\ image' = Written(Here, result.copied, result.data)
        /\ UNCHANGED <<runs, observed, unreadable>>
    BY <1>1, <1>4 DEF Store, marked
  <2> QED BY <1>1, <1>3, <2>1
<1>5. CASE StoreFails(result)
  BY <1>1, <1>2, <1>3, <1>5 DEF StoreFails, marked
<1>6. CASE MarkUnreadable(Here, n, result.copyStatus)
  <2>1. /\ UNCHANGED <<runs, image>>
        /\ observed' = [a \in Address |->
                          IF a \in Here .. Here + n - 1 THEN result.copyStatus
                                                        ELSE observed[a]]
    BY <1>6 DEF MarkUnreadable, stored
  <2>2. ASSUME NEW a \in Address, ~(Here <= a /\ a < Here + n)
        PROVE  observed'[a] = observed[a] /\ (Covered(a)' <=> Covered(a))
    <3>1. a \notin Here .. Here + n - 1
      BY <1>1, <2>2
    <3>2. Covered(a)' <=> Covered(a) \/ (Here <= a /\ a < Here + n)
      BY <1>1, <1>6, MarkCovers
    <3> QED BY <2>1, <2>2, <3>1, <3>2
  <2> QED BY <2>1, <2>2 DEF Touches
<1> QED BY <1>2, <1>4, <1>5, <1>6

LEMMA ReadTouches ==
  ASSUME Counted, ReadChunk \/ ReadPage
  PROVE  /\ Reading /\ pc' \in {"chunk", "page", "failed"}
         /\ \E n \in Nat : Here + n <= End(Run) /\ Touches(n)
<1>1. PICK n \in Nat \ {0} : \E result \in ReadResults(Here, n) :
        /\ Here \in Address /\ Here + n <= End(Run)
        /\ ValidateReadResult(result, Here, n)
        /\ \/ StoreFails(result)
           \/ /\ pc' \in {"chunk", "page"}
              /\ \/ Store(result)
                 \/ MarkUnreadable(Here, n, result.copyStatus)
                 \/ UNCHANGED <<runs, position, stored, marked>>
  BY ReadAnswers
<1>2. Touches(n)
  BY <1>1, AnswerTouches DEF stored, marked
<1>3. Reading /\ pc' \in {"chunk", "page", "failed"}
  BY <1>1, ReadAnswers DEF StoreFails
<1> QED BY <1>1, <1>2, <1>3

LEMMA ReadLearns ==
  ASSUME Evidenced, Evidenced', ReadChunk \/ ReadPage
  PROVE  Promise!Learn /\ UNCHANGED runs
<1>1. Counted
  BY DEF Evidenced, Spanned
<1>2. Reading /\ pc # "failed"
  BY <1>1, ReadTouches DEF Reading
<1>3. PICK n \in Nat : Here + n <= End(Run) /\ Touches(n)
  BY <1>1, ReadTouches
<1>4. /\ index \in 1..Len(runs) /\ offset \in Nat /\ Run.base \in Nat
      /\ Here = Run.base + offset /\ Here \in Nat
  BY <1>1, <1>2, HereFacts
<1>5. ASSUME NEW a \in Address
      PROVE  \/ InPhys(a) /\ ~Acquired(a) /\ ~Covered(a)
             \/ Truth(a)' = Truth(a)
  <2>1. a \in Nat
    BY SizesAssumption DEF Address
  <2>2. CASE Here <= a /\ a < Here + n
    <3>1. ~Acquired(a) /\ ~Covered(a)
      BY <1>2, <1>4, <2>1, <2>2, KnownInPhys
    <3>2. CASE a < End(Run)
      <4>1. Run.base <= a
        BY <1>4, <2>1, <2>2, SMTT(30)
      <4> QED BY <1>4, <3>1, <3>2, <4>1 DEF InPhys, Run
    <3>3. End(Run) \in Int
      BY <1>1, <1>2, HereFacts DEF End
    <3> QED BY <1>3, <1>4, <2>1, <2>2, <3>2, <3>3, SMTT(30)
  <2>3. CASE ~(Here <= a /\ a < Here + n)
    BY <1>3, <2>3 DEF Touches, Truth, Acquired
  <2> QED BY <2>2, <2>3
<1>6. UNCHANGED runs
  BY <1>3 DEF Touches
<1> QED BY <1>2, <1>5, <1>6, LearnStep DEF Evidenced

(* A step that leaves the evidence alone. *)
LEMMA StillTruth ==
  ASSUME Evidenced, Spanned', UNCHANGED <<runs, image, unreadable, observed>>
  PROVE  /\ [a \in Address |-> ByteProvenance(a)]'
              = [a \in Address |-> ByteProvenance(a)]
         /\ pc # "failed" => Promise!Learn
<1>1. \A a \in Address : Truth(a)' = Truth(a)
  BY DEF Truth, Acquired, Covered
<1>2. \A a \in Address : ByteProvenance(a)' = ByteProvenance(a)
  BY <1>1, TruthFacts, TruthThen DEF Evidenced
<1> QED BY <1>1, <1>2, LearnStep

LEMMA CompleteStep ==
  ASSUME Evidenced, Evidenced', pc = "end", pc' = "completed",
         UNCHANGED <<runs, image, hashed, hashPosition, unreadable, observed>>
  PROVE  Promise!Complete
<1> DEFINE bytes == [a \in Address |-> ByteProvenance(a)]
           phys == {a \in Address : \E i \in 1..Len(runs) :
                      runs[i].base <= a /\ a < End(runs[i])}
           last == Len(runs)
<1>1. /\ runs \in Layouts /\ index = last /\ offset = Run.length
      /\ last \in 1..last /\ last \in Nat
  <2>1. runs \in Layouts /\ index = last /\ offset = Run.length
    BY DEF Evidenced, Spanned, Counted, PositionedType, Positioned, ReadThrough
  <2>2. Len(runs) \in Nat \ {0}
    BY <2>1, LayoutsAssumption, LenProperties DEF IsLayout
  <2> QED BY <2>1, <2>2
<1>2. /\ Len(hashed) = hashPosition /\ hashPosition = LogicalSize
      /\ \A a \in Address : a < hashPosition => hashed[a + 1] = RawByte(a)
  BY DEF Evidenced, HashMatchesImage
<1>3. /\ LogicalSize = runs[last].base + runs[last].length
      /\ runs[last].base \in Nat /\ runs[last].length \in Nat \ {0}
      /\ LogicalSize \in 1..AddressLimit
  <2>1. runs # <<>>
    BY <1>1, EmptySeq
  <2>2. LogicalSize = runs[last].base + runs[last].length
    BY <2>1 DEF LogicalSize, End
  <2>3. /\ runs[last].base \in Nat /\ runs[last].length \in Nat \ {0}
        /\ runs[last].base + runs[last].length <= AddressLimit
    BY <1>1, LayoutFacts
  <2> QED BY <2>2, <2>3, SizesAssumption
<1>4. ASSUME NEW a \in Address, NEW i \in 1..last,
             runs[i].base <= a, a < End(runs[i])
      PROVE  (Acquired(a) \/ Covered(a)) /\ a < LogicalSize
  <2>1. runs[i].base \in Nat /\ runs[i].length \in Nat /\ a \in Nat
    BY <1>1, LayoutFacts, SizesAssumption DEF Address
  <2>2. i < index \/ i = index
    BY <1>1
  <2>3. Passed(a)
    BY <1>1, <1>4, <2>2 DEF Passed, End, Run
  <2>4. i < last => runs[i].base + runs[i].length <= runs[last].base
    BY <1>1, RunsAscend
  <2>5. a < LogicalSize
    BY <1>1, <1>3, <1>4, <2>1, <2>2, <2>4, SMTT(30) DEF End
  <2> QED BY <2>3, <2>5 DEF Evidenced, ExactlyOnce
<1>5. LogicalSize - 1 \in phys
  <2>1. /\ LogicalSize - 1 \in Address
        /\ runs[last].base <= LogicalSize - 1
        /\ LogicalSize - 1 < End(runs[last])
    BY <1>3, SizesAssumption, SMTT(30) DEF Address, End
  <2> QED BY <1>1, <2>1
<1>6. \A a \in Address : /\ bytes[a] = Truth(a)
                         /\ bytes[a] # Hole <=> Acquired(a) \/ Covered(a)
                         /\ bytes[a] \in Byte <=> Acquired(a)
  BY TruthFacts DEF Evidenced
<1>7. bytes' = bytes
  BY StillTruth DEF Evidenced
<1>8. hashed = [i \in 1..LogicalSize |->
                  IF bytes[i - 1] \in Byte THEN bytes[i - 1] ELSE Zero]
  <2>1. hashed \in Seq(Byte)
    BY DEF Evidenced, Spanned, Counted, PositionedType, TypeOK
  <2>2. hashed = [i \in 1..LogicalSize |-> hashed[i]]
    BY <1>2, <2>1
  <2>3. ASSUME NEW i \in 1..LogicalSize
        PROVE  hashed[i] = IF bytes[i - 1] \in Byte THEN bytes[i - 1] ELSE Zero
    <3>1. i - 1 \in Address /\ i - 1 < hashPosition /\ (i - 1) + 1 = i
      BY <1>2, <1>3, SizesAssumption DEF Address
    <3>2. hashed[i] = RawByte(i - 1)
      BY <1>2, <3>1
    <3>3. Acquired(i - 1) => Truth(i - 1) = image[i - 1]
      BY DEF Truth
    <3> HIDE DEF bytes
    <3> QED BY <1>6, <3>1, <3>2, <3>3 DEF RawByte
  <2> HIDE DEF bytes
  <2> QED BY <2>2, <2>3
<1> HIDE DEF bytes
<1>9. Len(hashed) = LogicalSize
  BY <1>2
<1>10. /\ \A a \in phys : bytes[a] # Hole
       /\ \A a \in phys : a < Len(hashed)
       /\ Len(hashed) - 1 \in phys
  BY <1>4, <1>5, <1>6, <1>9
<1>11. phys # {} /\ Ended' /\ ~Ended /\ hashed' = hashed
  BY <1>5 DEF Ended
<1> USE DEF bytes
<1> QED BY <1>7, <1>8, <1>9, <1>10, <1>11
        DEF Promise!Complete, Promise!Known, Promise!Flat

LEMMA StepKeepsPromise ==
  ASSUME Evidenced, Evidenced', [Next]_vars
  PROVE  [Promise!Next]_Promise!provenanceVars
<1>1. ASSUME UNCHANGED <<runs, image, unreadable, observed>>,
             pc' = pc \/ (~Ended /\ ~Ended'), UNCHANGED hashed \/ ~Ended
      PROVE  UNCHANGED Promise!provenanceVars
  BY <1>1, StillTruth
     DEF Evidenced, Promise!provenanceVars, Ended
<1>2. ASSUME UNCHANGED runs, pc' = "failed", ~Ended, Promise!Learn
      PROVE  Promise!Next
  BY <1>2 DEF Promise!Next, Promise!Abort, Ended
<1>3. ASSUME UNCHANGED runs, ~Ended, ~Ended', Promise!Learn
      PROVE  Promise!Next
  BY <1>3 DEF Promise!Next, Promise!Classify, Ended
<1>4. ASSUME Fail, ~Ended
      PROVE  Promise!Next
  <2>1. Promise!Learn
    BY <1>4, StillTruth DEF Fail, stored, marked, Ended, Evidenced
  <2> QED BY <1>2, <1>4, <2>1 DEF Fail
<1>5. CASE ReadChunk \/ ReadPage
  <2>1. Promise!Learn /\ UNCHANGED runs
    BY <1>5, ReadLearns
  <2>2. ~Ended /\ pc' \in {"chunk", "page", "failed"}
    BY <1>5, ReadTouches DEF Evidenced, Spanned, Reading, Ended
  <2> QED BY <1>2, <1>3, <2>1, <2>2 DEF Ended
<1>6. CASE Query
  <2>1. /\ pc = "query" /\ runs = <<>> /\ UNCHANGED <<stored, marked>>
    BY <1>6
       DEF Query, Evidenced, Spanned, Counted, PositionedType, Positioned
  <2>2. CASE pc' = "failed" /\ UNCHANGED runs
    BY <1>2, <2>1, <2>2, StillTruth DEF stored, marked, Ended, Evidenced
  <2>3. CASE pc' = "chunk" /\ runs' \in Layouts
    <3>1. UNCHANGED [a \in Address |-> ByteProvenance(a)]
      <4>1. \A a \in Address : Truth(a)' = Truth(a)
        BY <2>1 DEF Truth, Acquired, Covered, stored, marked
      <4> QED BY <4>1, TruthFacts, TruthThen DEF Evidenced
    <3>2. Len(runs) = 0
      BY <2>1
    <3>3. /\ 1 \in 1..Len(runs') /\ runs'[1].base \in Address
          /\ runs'[1].base < End(runs'[1])
      <4>1. 1 \in 1..Len(runs')
        BY <2>3, LayoutsAssumption, LenProperties DEF IsLayout
      <4>2. /\ runs'[1].base \in Nat /\ runs'[1].length \in Nat \ {0}
            /\ runs'[1].base + runs'[1].length <= AddressLimit
        BY <2>3, <4>1, LayoutFacts
      <4> QED BY <4>1, <4>2, SizesAssumption DEF Address, End
    <3>4. {a \in Address : \E i \in 1..Len(runs') :
             runs'[i].base <= a /\ a < End(runs'[i])} # {}
      <4>1. runs'[1].base \in {a \in Address : \E i \in 1..Len(runs') :
              runs'[i].base <= a /\ a < End(runs'[i])}
        BY <3>3, SizesAssumption DEF Address
      <4> QED BY <4>1
    <3> QED BY <2>1, <2>3, <3>1, <3>2, <3>4
            DEF Promise!Next, Promise!Freeze, Ended
  <2> QED BY <1>6, <2>2, <2>3 DEF Query
<1>7. CASE NextRun \/ WindowDone \/ Cancel
  BY <1>1, <1>7 DEF NextRun, WindowDone, Cancel, stored, marked, Ended
<1>8. CASE ReadFails \/ CancelSeen
  BY <1>4, <1>8 DEF ReadFails, CancelSeen, AboutToRead, Ended
<1>9. CASE Pace
  BY <1>1, <1>4, <1>9 DEF Pace, stored, marked
<1>10. CASE HashTail
  <2>1. CASE Fail
    BY <1>4, <1>10, <2>1 DEF HashTail, Ended
  <2>2. CASE pc' = "end" /\ UNCHANGED <<runs, image, marked>>
    BY <1>1, <1>10, <2>2 DEF HashTail, marked, Ended
  <2> QED BY <1>10, <2>1, <2>2 DEF HashTail
<1>11. CASE EndSession
  <2>1. CASE Fail
    BY <1>4, <1>11, <2>1 DEF EndSession, Ended
  <2>2. CASE pc' = "completed" /\ UNCHANGED <<runs, stored, marked>>
    BY <1>11, <2>2, CompleteStep DEF EndSession, stored, marked, Promise!Next
  <2> QED BY <1>11, <2>1, <2>2 DEF EndSession
<1>12. CASE UNCHANGED vars
  BY <1>1, <1>12 DEF vars, stored, marked
<1> QED BY <1>5, <1>6, <1>7, <1>8, <1>9, <1>10, <1>11, <1>12
        DEF Next, Engine, Returned

(* Acquire implements Provenance: every physical byte ends up with the     *)
(* value that was read or the NTSTATUS that says why there is none, what   *)
(* is known of a byte is never rewritten, and the digest of a completed    *)
(* acquisition is that of the flat image.                                  *)
THEOREM ProvenanceRefinement == Spec => KeepsProvenancePromise
<1>1. Init => Promise!Init
  <2> SUFFICES ASSUME Init PROVE Promise!Init
    OBVIOUS
  <2>1. Len(runs) = 0 /\ Len(unreadable) = 0 /\ pc = "query"
    BY DEF Init
  <2>2. \A a \in Address : ByteProvenance(a) = Hole
    BY <2>1 DEF Init, ByteProvenance, Acquired, Covered
  <2> QED BY <2>1, <2>2 DEF Promise!Init, Ended
<1>2. Evidenced /\ Evidenced' /\ [Next]_vars
        => [Promise!Next]_Promise!provenanceVars
  BY StepKeepsPromise
<1>3. Spanned /\ ExactlyOnce /\ HashMatchesImage <=> Evidenced
  BY DEF Evidenced
<1> QED BY <1>1, <1>2, <1>3, SpannedAlways, EachByteOnce, DigestOfImage, PTL
        DEF Spec, KeepsProvenancePromise, Promise!Spec
---------------------------------------------------------------------------
(* The counters.                                                           *)

(* A set of addresses gains the k bytes from p on. *)
Gains(S, T, p, k) ==
  /\ S \subseteq Address /\ T \subseteq Address
  /\ \A a \in S : ~(p <= a /\ a < p + k)
  /\ \A a \in Address : a \in T <=> a \in S \/ (p <= a /\ a < p + k)

LEMMA IntervalAdds ==
  ASSUME NEW p \in Nat, NEW k \in Nat, p + k <= AddressLimit,
         NEW S, NEW T, Gains(S, T, p, k)
  PROVE  Cardinality(T) = Cardinality(S) + k
<1> DEFINE n == AddressLimit
<1>0. /\ n \in Nat /\ p + k <= n
      /\ S \in SUBSET (0 .. n - 1) /\ T \in SUBSET (0 .. n - 1)
      /\ \A a \in S : ~(p <= a /\ a < p + k)
      /\ \A a \in 0 .. n - 1 : a \in T <=> a \in S \/ (p <= a /\ a < p + k)
  BY SizesAssumption DEF Gains, Address
<1> HIDE DEF n
<1> DEFINE I == p .. p + k - 1
<1>1. IsFiniteSet(0 .. n - 1)
  <2>1. 0 \in Int /\ n - 1 \in Int
    BY <1>0
  <2> QED BY <2>1, FS_Interval
<1>2. IsFiniteSet(S) /\ Cardinality(S) \in Nat
  BY <1>0, <1>1, FS_Subset, FS_CardinalityType
<1>3. IsFiniteSet(I) /\ Cardinality(I) = k
  <2> DEFINE q == p + k - 1
  <2>1. p \in Int /\ q \in Int
    OBVIOUS
  <2>2. IsFiniteSet(p..q) /\ Cardinality(p..q) = IF p > q THEN 0 ELSE q-p+1
    <3> HIDE DEF q
    <3> QED BY <2>1, FS_Interval
  <2> HIDE DEF I
  <2>3. p..q = I
    BY DEF I
  <2> QED BY <2>2, <2>3
<1>4. T = S \cup I /\ S \cap I = {}
  <2>1. \A a \in 0 .. n - 1 : a \in I <=> p <= a /\ a < p + k
    BY <1>0
  <2>2. I \in SUBSET (0 .. n - 1)
    BY <1>0
  <2> HIDE DEF I
  <2> QED BY <1>0, <2>1, <2>2
<1>5. Cardinality(S \cup I) = Cardinality(S) + Cardinality(I)
                                - Cardinality(S \cap I)
  <2> HIDE DEF I
  <2> QED BY <1>2, <1>3, FS_Union
<1>6. Cardinality(S \cap I) = 0
  BY <1>4, FS_EmptySet
<1> HIDE DEF I
<1> QED BY <1>2, <1>3, <1>4, <1>5, <1>6

AcquiredSet == {a \in Address : Acquired(a)}
CoveredSet == {a \in Address : Covered(a)}

(* A step that gives up or stores nothing. *)
LEMMA StillTallied ==
  ASSUME CountersMatchEvidence,
         \/ pc' = "failed"
         \/ /\ pc # "failed"
            /\ UNCHANGED <<image, unreadable, acquiredBytes, unreadableBytes>>
  PROVE  CountersMatchEvidence'
<1>1. CASE pc' = "failed"
  BY <1>1 DEF CountersMatchEvidence
<1>2. CASE UNCHANGED <<image, unreadable>>
  BY <1>2 DEF CountersMatchEvidence, Acquired, Covered
<1> QED BY <1>1, <1>2 DEF CountersMatchEvidence, Acquired, Covered

(* The bytes a read stores or gives up are new, and there are as many of   *)
(* them as the code adds to the counter.                                   *)
LEMMA ReadTallied ==
  ASSUME Counted, ExactlyOnce, CountersMatchEvidence, Reading,
         pc # "failed", NEW n \in Nat \ {0}, Here \in Address,
         Here + n <= End(Run), NEW result \in ReadResults(Here, n),
         \/ Store(result) /\ ValidateReadResult(result, Here, n)
         \/ MarkUnreadable(Here, n, result.copyStatus)
  PROVE  CountersMatchEvidence'
<1>1. /\ Here \in Nat /\ Address = 0 .. AddressLimit - 1
      /\ AddressLimit \in Nat /\ Here + n <= AddressLimit
  <2>1. Here \in Nat
    BY HereFacts
  <2> QED BY <2>1, RunFits DEF Address
<1>2. \A a \in Address : Here <= a => ~Acquired(a) /\ ~Covered(a)
  <2> SUFFICES ASSUME NEW a \in Address, Here <= a
               PROVE  ~Acquired(a) /\ ~Covered(a)
    OBVIOUS
  <2>1. ~Passed(a)
    BY <1>1, PassedIsBehind
  <2> QED BY <2>1 DEF ExactlyOnce
<1>3. /\ acquiredBytes = Cardinality(AcquiredSet)
      /\ unreadableBytes = Cardinality(CoveredSet)
  BY DEF CountersMatchEvidence, AcquiredSet, CoveredSet
<1>4. CASE Store(result) /\ ValidateReadResult(result, Here, n)
  <2> DEFINE c == result.copied
  <2>1. /\ c \in 0..n
        /\ \A a \in Address :
             Acquired(a)' <=> Acquired(a) \/ (Here <= a /\ a < Here + c)
    BY <1>4, StoreAcquires
  <2>2. acquiredBytes' = acquiredBytes + c
    BY <1>4 DEF Store
  <2>3. UNCHANGED <<unreadable, unreadableBytes>>
    BY <1>4 DEF Store, marked
  <2>4. Cardinality(AcquiredSet') = Cardinality(AcquiredSet) + c
    <3> HIDE DEF c
    <3>1. Gains(AcquiredSet, AcquiredSet', Here, c)
      BY <1>2, <2>1 DEF Gains, AcquiredSet
    <3>2. c \in Nat /\ Here + c <= AddressLimit
      BY <1>1, <2>1
    <3> QED BY <1>1, <3>1, <3>2, IntervalAdds
  <2>5. CoveredSet' = CoveredSet
    BY <2>3 DEF CoveredSet, Covered
  <2> HIDE DEF c
  <2>6. /\ acquiredBytes' = Cardinality(AcquiredSet')
        /\ unreadableBytes' = Cardinality(CoveredSet')
    BY <1>3, <2>2, <2>3, <2>4, <2>5
  <2> QED BY <2>6 DEF CountersMatchEvidence, AcquiredSet, CoveredSet
<1>5. CASE MarkUnreadable(Here, n, result.copyStatus)
  <2>1. \A a \in Address :
          Covered(a)' <=> Covered(a) \/ (Here <= a /\ a < Here + n)
    <3>1. result.copyStatus \in Status
      BY <1>1, ResultFacts
    <3> QED BY <1>5, <3>1, MarkCovers
  <2>2. unreadableBytes' = unreadableBytes + n
    BY <1>5 DEF MarkUnreadable
  <2>3. UNCHANGED <<image, acquiredBytes>>
    BY <1>5 DEF MarkUnreadable, stored
  <2>4. Cardinality(CoveredSet') = Cardinality(CoveredSet) + n
    <3>1. Gains(CoveredSet, CoveredSet', Here, n)
      BY <1>2, <2>1 DEF Gains, CoveredSet
    <3> QED BY <1>1, <3>1, IntervalAdds
  <2>5. AcquiredSet' = AcquiredSet
    BY <2>3 DEF AcquiredSet, Acquired
  <2>6. /\ acquiredBytes' = Cardinality(AcquiredSet')
        /\ unreadableBytes' = Cardinality(CoveredSet')
    BY <1>3, <2>2, <2>3, <2>4, <2>5
  <2> QED BY <2>6 DEF CountersMatchEvidence, AcquiredSet, CoveredSet
<1> QED BY <1>4, <1>5

LEMMA InitTallied == Init => CountersMatchEvidence
<1> SUFFICES ASSUME Init PROVE CountersMatchEvidence
  OBVIOUS
<1>1. AcquiredSet = {} /\ CoveredSet = {}
  BY DEF Init, AcquiredSet, CoveredSet, Acquired, Covered
<1> QED BY <1>1, FS_EmptySet
        DEF Init, CountersMatchEvidence, AcquiredSet, CoveredSet

LEMMA NextTallied ==
  ASSUME Counted, ExactlyOnce, CountersMatchEvidence, [Next]_vars
  PROVE  CountersMatchEvidence'
<1>1. CASE ReadChunk \/ ReadPage
  <2>1. Reading /\ pc # "failed"
    BY <1>1 DEF ReadChunk, ReadPage, Reading
  <2>2. CASE pc' = "failed" \/ UNCHANGED <<stored, marked>>
    BY <2>1, <2>2, StillTallied DEF stored, marked
  <2> QED BY <1>1, <2>1, <2>2, StoredRead, ReadTallied
<1>2. CASE Query \/ NextRun \/ WindowDone \/ ReadFails \/ CancelSeen \/ Pace
           \/ HashTail \/ EndSession \/ Cancel \/ UNCHANGED vars
  <2>1. \/ pc' = "failed"
        \/ pc # "failed" /\ UNCHANGED <<image, acquiredBytes, marked>>
        \/ UNCHANGED vars
    BY <1>2
       DEF Query, NextRun, WindowDone, ReadFails, CancelSeen, Pace, HashTail,
           EndSession, Cancel, Fail, stored, Ended
  <2>2. CASE UNCHANGED vars
    BY <2>2
       DEF CountersMatchEvidence, Acquired, Covered, vars, stored, marked
  <2> QED BY <2>1, <2>2, StillTallied DEF marked
<1> QED BY <1>1, <1>2 DEF Next, Engine, Returned

(* The numbers the summary and the map state are those of the evidence:    *)
(* acquiredBytes counts the bytes of the image that were written, and      *)
(* unreadableBytes those the spans cover, through every retry.             *)
THEOREM CountersTrue == Spec => []CountersMatchEvidence
BY InitTallied, NextTallied, CountedAlways, EachByteOnce, PTL DEF Spec

---------------------------------------------------------------------------
(* The sums of the map.                                                    *)

(* P adds up the lengths of a list. *)
AddsUp(P, t, total) ==
  /\ P \in [0..Len(t) -> Nat] /\ P[0] = 0
  /\ \A k \in 1..Len(t) : P[k] = P[k - 1] + t[k].length
  /\ P[Len(t)] = total

(* The verifier's sum of a list is the last of its partial sums. *)
LEMMA LengthOfList ==
  ASSUME NEW t, Len(t) \in Nat,
         \A k \in 1..Len(t) : t[k].length \in Nat,
         NEW P, NEW total, AddsUp(P, t, total)
  PROVE  V!LengthOf(t) = total
<1> DEFINE n == Len(t)
<1>1. V!LengthOf(t) = LengthOfFirst(t, n)
  BY DEF V!LengthOf, V!MapThenSumSet, V!MapThenFoldSet,
         LengthOfFirst, MapThenSumSet, MapThenFoldSet
<1>2. LengthOfFirst(t, n) = P[n]
  <2>1. /\ n \in Nat /\ P \in [0..n -> Nat] /\ P[0] = 0
        /\ \A k \in 1..n : t[k].length \in Nat
        /\ \A k \in 1..n : P[k] = P[k - 1] + t[k].length
    BY DEF AddsUp
  <2> HIDE DEF n
  <2> QED BY <2>1, SumOfLengths
<1> QED BY <1>1, <1>2 DEF AddsUp

(* The spans' lengths add up to unreadableBytes, and no span leaves the    *)
(* addresses.                                                              *)
Summed ==
  /\ \E P : AddsUp(P, unreadable, unreadableBytes)
  /\ \A k \in 1..Len(unreadable) :
       unreadable[k].start + unreadable[k].length <= AddressLimit

LEMMA MarkSummed ==
  ASSUME Counted, Summed, Here \in Address, NEW n \in Nat \ {0},
         Here + n <= AddressLimit, NEW status \in Status,
         MarkUnreadable(Here, n, status)
  PROVE  Summed'
<1> DEFINE L == Len(unreadable)
           pa == Here
           u == unreadable
           v == unreadable'
<1>1. /\ L \in Nat /\ pa \in Nat /\ pa + n <= AddressLimit
      /\ AddressLimit \in Nat
      /\ \A k \in 1..L : u[k].start \in Nat /\ u[k].length \in Nat \ {0}
      /\ \A k \in 1..L : u[k].start + u[k].length <= AddressLimit
      /\ Extends(pa, n, status) \/ Appends(pa, n, status)
  <2>1. L \in Nat /\ \A k \in 1..L : u[k] \in Span
    BY MarkFacts
  <2>2. Extends(pa, n, status) \/ Appends(pa, n, status)
    BY MarkFacts
  <2>3. \A k \in 1..L : u[k].start + u[k].length <= AddressLimit
    BY DEF Summed
  <2>4. pa \in Nat /\ pa + n <= AddressLimit /\ AddressLimit \in Nat
    BY SizesAssumption DEF Address
  <2> HIDE DEF L, pa, u, v
  <2>5. ASSUME NEW k \in 1..L
        PROVE  u[k].start \in Nat /\ u[k].length \in Nat \ {0}
    <3>1. u[k] \in Span
      BY <2>1
    <3> QED BY <3>1, SizesAssumption DEF Span, Address
  <2> QED BY <2>1, <2>2, <2>3, <2>4, <2>5
<1>2. PICK P : /\ P \in [0..L -> Nat] /\ P[0] = 0
               /\ \A k \in 1..L : P[k] = P[k - 1] + u[k].length
               /\ P[L] = unreadableBytes
  BY DEF Summed, AddsUp
<1>3. unreadableBytes' = unreadableBytes + n
  BY DEF MarkUnreadable
<1>4. CASE Extends(pa, n, status)
  <2> DEFINE Q == [P EXCEPT ![L] = @ + n]
  <2>1. /\ L \in 1..L /\ Len(v) = L
        /\ u[L].start + u[L].length = pa
        /\ \A k \in 1..L : k # L => v[k] = u[k]
        /\ v[L].start = u[L].start /\ v[L].length = u[L].length + n
    BY <1>1, <1>4 DEF Extends
  <2> HIDE DEF L, u, v, pa
  <2>2. /\ Q \in [0..L -> Nat] /\ Q[L] = P[L] + n
        /\ \A k \in 0..L : k # L => Q[k] = P[k]
    BY <1>1, <1>2, <2>1, SMTT(30)
  <2> HIDE DEF Q
  <2>3. Q[0] = 0
    BY <1>1, <1>2, <2>1, <2>2
  <2>4. ASSUME NEW k \in 1..L PROVE Q[k] = Q[k - 1] + v[k].length
    <3>1. k - 1 \in 0..L /\ k \in 0..L /\ k - 1 # L
      BY <1>1
    <3>2. CASE k = L
      <4>1. P[L] = P[L - 1] + u[L].length /\ P[L - 1] \in Nat
            /\ Q[L - 1] = P[L - 1] /\ u[L].length \in Nat
        BY <1>1, <1>2, <2>1, <2>2, <3>1, <3>2
      <4> QED BY <2>1, <2>2, <3>2, <4>1
    <3>3. CASE k # L
      BY <1>2, <2>1, <2>2, <3>1, <3>3
    <3> QED BY <3>2, <3>3
  <2>5. AddsUp(Q, v, unreadableBytes')
    BY <1>2, <1>3, <2>1, <2>2, <2>3, <2>4 DEF AddsUp
  <2>6. ASSUME NEW k \in 1..L PROVE v[k].start + v[k].length <= AddressLimit
    <3>1. CASE k = L
      <4>1. u[L].start \in Nat /\ u[L].length \in Nat
        BY <1>1, <2>1
      <4> QED BY <1>1, <2>1, <3>1, <4>1
    <3>2. CASE k # L
      BY <1>1, <2>1, <3>2
    <3> QED BY <3>1, <3>2
  <2> QED BY <2>1, <2>5, <2>6 DEF Summed, v
<1>5. CASE Appends(pa, n, status)
  <2> DEFINE Q == [k \in 0 .. L + 1 |-> IF k = L + 1 THEN P[L] + n ELSE P[k]]
  <2>1. /\ L + 1 \in 1 .. L + 1 /\ Len(v) = L + 1
        /\ \A k \in 1..L : v[k] = u[k]
        /\ \A k \in 1 .. L + 1 : k \in 1..L \/ k = L + 1
        /\ v[L + 1].start = pa /\ v[L + 1].length = n
    BY <1>1, <1>5 DEF Appends
  <2> HIDE DEF L, u, v, pa
  <2>2. /\ Q \in [0 .. L + 1 -> Nat] /\ Q[L + 1] = P[L] + n
        /\ \A k \in 0..L : Q[k] = P[k]
    <3>1. P[L] + n \in Nat
      BY <1>1, <1>2
    <3>2. \A k \in 0 .. L + 1 : k \in 0..L \/ k = L + 1
      BY <1>1
    <3>3. \A k \in 0..L : k \in 0 .. L + 1 /\ k # L + 1
      BY <1>1
    <3> QED BY <1>1, <1>2, <3>1, <3>2, <3>3
  <2> HIDE DEF Q
  <2>3. Q[0] = 0
    BY <1>1, <1>2, <2>2
  <2>4. ASSUME NEW k \in 1 .. L + 1 PROVE Q[k] = Q[k - 1] + v[k].length
    <3>1. CASE k = L + 1
      <4>1. k - 1 = L /\ L \in 0..L
        BY <1>1, <3>1
      <4> QED BY <2>1, <2>2, <3>1, <4>1
    <3>2. CASE k \in 1..L
      <4>1. k - 1 \in 0..L /\ k \in 0..L
        BY <1>1, <3>2
      <4> QED BY <1>2, <2>1, <2>2, <3>2, <4>1
    <3> QED BY <2>1, <3>1, <3>2
  <2>5. AddsUp(Q, v, unreadableBytes')
    BY <1>2, <1>3, <2>1, <2>2, <2>3, <2>4 DEF AddsUp
  <2>6. \A k \in 1 .. L + 1 : v[k].start + v[k].length <= AddressLimit
    BY <1>1, <2>1
  <2> QED BY <2>1, <2>5, <2>6 DEF Summed, v
<1> QED BY <1>1, <1>4, <1>5

LEMMA InitSummed == Init => Summed
<1> SUFFICES ASSUME Init PROVE Summed
  OBVIOUS
<1> DEFINE P == [k \in {0} |-> 0]
<1>1. Len(unreadable) = 0 /\ unreadableBytes = 0
  BY DEF Init
<1>2. P \in [0..0 -> Nat] /\ P[0] = 0 /\ 1..0 = {}
  OBVIOUS
<1> HIDE DEF P
<1>3. AddsUp(P, unreadable, unreadableBytes)
  BY <1>1, <1>2 DEF AddsUp
<1> QED BY <1>1, <1>2, <1>3 DEF Summed

LEMMA NextSummed ==
  ASSUME Counted, Summed, [Next]_vars PROVE Summed'
<1>1. ASSUME UNCHANGED <<unreadable, unreadableBytes>> PROVE Summed'
  BY <1>1 DEF Summed, AddsUp
<1>2. CASE ReadChunk \/ ReadPage
  <2>1. Reading
    BY <1>2 DEF ReadChunk, ReadPage, Reading
  <2>2. CASE \/ UNCHANGED marked
             \/ \E result : StoreFails(result) \/ Store(result)
    BY <1>1, <2>2 DEF marked, StoreFails, Store
  <2>3. ASSUME NEW n \in Nat \ {0}, NEW result \in ReadResults(Here, n),
               Here \in Address, Here + n <= End(Run),
               MarkUnreadable(Here, n, result.copyStatus)
        PROVE  Summed'
    <3>1. result.copyStatus \in Status
      BY <2>1, HereFacts, ResultFacts
    <3>2. Here + n <= AddressLimit
      <4>1. Here \in Nat
        BY <2>1, HereFacts
      <4> QED BY <2>1, <2>3, <4>1, RunFits
    <3> QED BY <2>3, <3>1, <3>2, MarkSummed
  <2> QED BY <1>2, <2>2, <2>3, ReadAnswers
<1>3. CASE Query \/ NextRun \/ WindowDone \/ ReadFails \/ CancelSeen \/ Pace
           \/ HashTail \/ EndSession \/ Cancel \/ UNCHANGED vars
  BY <1>1, <1>3
     DEF Query, NextRun, WindowDone, ReadFails, CancelSeen, Pace, HashTail,
         EndSession, Cancel, Fail, marked, vars
<1> QED BY <1>2, <1>3 DEF Next, Engine, Returned

LEMMA SummedAlways == Spec => []Summed
BY InitSummed, NextSummed, CountedAlways, PTL DEF Spec

---------------------------------------------------------------------------
(* The verdict.                                                            *)

Numbered(rs) ==
  /\ \A i, j \in 1..Len(rs) : i < j => rs[i].driverIndex # rs[j].driverIndex
  /\ {rs[i].driverIndex : i \in 1..Len(rs)} = 0 .. Len(rs) - 1

(* The layout of a capture that has been read through. *)
LEMMA WholeLayout ==
  ASSUME Counted, pc = "completed"
  PROVE  /\ runs \in Layouts /\ runs # <<>> /\ Len(runs) \in Nat \ {0}
         /\ LogicalSize = End(runs[Len(runs)])
         /\ LogicalSize \in Nat /\ LogicalSize <= AddressLimit
         /\ acquiredBytes + unreadableBytes = PhysicalBytes
         /\ Numbered(runs)
         /\ \A i \in 1..Len(runs) :
              /\ runs[i].base \in Nat /\ runs[i].length \in Nat \ {0}
              /\ End(runs[i]) \in Nat /\ End(runs[i]) <= LogicalSize
<1>1. runs \in Layouts /\ acquiredBytes + unreadableBytes = PhysicalBytes
  BY DEF Counted, PositionedType, Positioned, ReadThrough, Accounted
<1>2. /\ Len(runs) \in Nat \ {0}
      /\ \A i \in 1..Len(runs) :
           /\ runs[i].base \in Nat /\ runs[i].length \in Nat \ {0}
           /\ End(runs[i]) \in Nat /\ End(runs[i]) <= AddressLimit
  <2>1. 1 \in 1..Len(runs) => Len(runs) \in Nat \ {0}
    BY <1>1, LayoutFacts
  <2>2. Len(runs) \in Nat /\ Len(runs) > 0
    BY <1>1, LayoutsAssumption, LenProperties DEF IsLayout
  <2> QED BY <1>1, <2>2, LayoutFacts, SMTT(30) DEF End
<1>3. runs # <<>>
  BY <1>2
<1>4. LogicalSize = End(runs[Len(runs)]) /\ Len(runs) \in 1..Len(runs)
  BY <1>2, <1>3 DEF LogicalSize
<1>5. ASSUME NEW i \in 1..Len(runs) PROVE End(runs[i]) <= LogicalSize
  <2> DEFINE n == Len(runs)
  <2>1. CASE i = n
    BY <1>2, <1>4, <2>1
  <2>2. CASE i # n
    <3>1. i < n /\ n \in 1..n
      BY <1>2, <2>2
    <3> HIDE DEF n
    <3>2. runs[i].base + runs[i].length <= runs[n].base
      BY <1>1, <3>1, RunsAscend DEF n
    <3>3. runs[n].base \in Nat /\ runs[n].length \in Nat
      BY <1>2, <3>1 DEF n
    <3>4. runs[i].base \in Nat /\ runs[i].length \in Nat
      BY <1>2
    <3> QED BY <1>4, <3>2, <3>3, <3>4, SMTT(30) DEF End, n
  <2> QED BY <2>1, <2>2
<1>6. Numbered(runs)
  BY <1>1, LayoutsAssumption DEF IsLayout, Numbered
<1> QED BY <1>1, <1>2, <1>3, <1>4, <1>5, <1>6

(* validate_ranges accepts what the query and the counters say. *)
LEMMA RangesAccepted ==
  ASSUME Counted, pc = "completed"
  PROVE  V!ValidRanges(MapJson)
<1> DEFINE n == Len(runs)
<1>1. /\ runs \in Layouts /\ runs # <<>> /\ n \in Nat \ {0}
      /\ LogicalSize = End(runs[n]) /\ LogicalSize \in Nat
      /\ Numbered(runs)
      /\ \A i \in 1..n :
           /\ runs[i].base \in Nat /\ runs[i].length \in Nat \ {0}
           /\ End(runs[i]) \in Nat /\ End(runs[i]) <= LogicalSize
  BY WholeLayout
<1>2. /\ MapJson.ranges = runs /\ MapJson.logicalSize = LogicalSize
      /\ MapJson.physicalBytes = PhysicalBytes
  BY DEF MapJson
<1>3. \A r : V!Upto(r) = End(r)
  BY DEF V!Upto, End
<1>4. V!LengthOf(runs) = PhysicalBytes
  <2> DEFINE B == Before[runs]
             P == [k \in 0..n |-> B[k + 1]]
  <2>1. /\ B \in [1 .. n + 1 -> Nat] /\ B[1] = 0
        /\ \A i \in 1..n : B[i + 1] = B[i] + runs[i].length
    BY <1>1, LayoutsAssumption DEF IsPrefixSum
  <2>2. PhysicalBytes = B[n + 1]
    BY DEF PhysicalBytes
  <2> HIDE DEF B, n
  <2>3. \A k \in 0..n : k + 1 \in 1 .. n + 1
    BY <1>1
  <2>4. P \in [0..n -> Nat] /\ P[0] = 0 /\ P[n] = B[n + 1]
    BY <1>1, <2>1, <2>3
  <2>5. ASSUME NEW k \in 1..n PROVE P[k] = P[k - 1] + runs[k].length
    <3>1. k \in 0..n /\ k - 1 \in 0..n /\ (k - 1) + 1 = k
      BY <1>1
    <3> QED BY <2>1, <3>1
  <2> HIDE DEF P
  <2>6. AddsUp(P, runs, PhysicalBytes)
    BY <2>2, <2>4, <2>5 DEF AddsUp, n
  <2> QED BY <1>1, <2>6, LengthOfList DEF n
<1>5. V!HighestEnd(runs) = LogicalSize
  <2> DEFINE S == {End(runs[k]) : k \in 1..n}
  <2>1. V!HighestEnd(runs) = V!Max(S)
    BY <1>3 DEF V!HighestEnd
  <2>2. LogicalSize \in S /\ \A y \in S : y \in Nat /\ LogicalSize >= y
    BY <1>1
  <2> HIDE DEF S
  <2>3. V!Max(S) \in S /\ \A y \in S : V!Max(S) >= y
    <3>1. \E x \in S : \A y \in S : x >= y
      BY <2>2
    <3> QED BY <3>1 DEF V!Max
  <2>4. \A p, q \in Nat : p >= q /\ q >= p => p = q
    OBVIOUS
  <2>5. /\ V!Max(S) \in Nat /\ V!Max(S) >= LogicalSize
        /\ LogicalSize >= V!Max(S)
    BY <2>2, <2>3
  <2> QED BY <1>1, <2>1, <2>4, <2>5
<1>6. ASSUME NEW k \in 1..n
      PROVE  /\ runs[k].length # 0
             /\ \A j \in 1 .. k - 1 :
                  runs[j].driverIndex # runs[k].driverIndex
             /\ End(runs[k]) <= LogicalSize
             /\ k > 1 => runs[k].base >= End(runs[k - 1])
  <2>1. \A j \in 1 .. k - 1 : j \in 1..n /\ j < k
    BY <1>1
  <2>2. \A j \in 1 .. k - 1 : runs[j].driverIndex # runs[k].driverIndex
    BY <1>1, <2>1 DEF Numbered
  <2>3. ASSUME k > 1 PROVE runs[k].base >= End(runs[k - 1])
    <3>1. k - 1 \in 1..n /\ k - 1 < k
      BY <1>1, <2>3
    <3>2. End(runs[k - 1]) <= runs[k].base
      BY <1>1, <3>1, RunsAscend DEF End
    <3>3. End(runs[k - 1]) \in Nat /\ runs[k].base \in Nat
      BY <1>1, <3>1
    <3> QED BY <3>2, <3>3
  <2> QED BY <1>1, <2>2, <2>3
<1> QED BY <1>1, <1>2, <1>3, <1>4, <1>5, <1>6 DEF V!ValidRanges, Numbered

(* A byte in a span was never written and lies in a run. *)
LEMMA SpanByte ==
  ASSUME Evidenced, pc # "failed", NEW k \in 1..Len(unreadable),
         NEW a \in Nat, unreadable[k].start <= a,
         a < unreadable[k].start + unreadable[k].length,
         Summed
  PROVE  /\ a \in Address /\ RawByte(a) = Zero /\ InPhys(a)
<1>1. unreadable[k] \in Span
  BY ElementOfSeq
     DEF Evidenced, Spanned, Counted, PositionedType, TypeOK
<1>2. unreadable[k].start \in Nat /\ unreadable[k].length \in Nat
  BY <1>1, SizesAssumption DEF Span, Address
<1>3. a \in Address
  <2>1. unreadable[k].start + unreadable[k].length <= AddressLimit
    BY DEF Summed
  <2> QED BY <1>2, <2>1, SizesAssumption DEF Address
<1>4. Covered(a)
  BY DEF Covered, InSpan
<1>5. ~Acquired(a)
  BY <1>3, <1>4 DEF Evidenced, ExactlyOnce
<1> QED BY <1>3, <1>4, <1>5, KnownInPhys DEF RawByte

LEMMA SpanFacts ==
  ASSUME Counted, NEW k \in 1..Len(unreadable)
  PROVE  /\ Len(unreadable) \in Nat
         /\ unreadable[k].start \in Nat /\ unreadable[k].length \in Nat \ {0}
<1>1. unreadable \in Seq(Span)
  BY DEF Counted, PositionedType, TypeOK
<1>2. Len(unreadable) \in Nat /\ unreadable[k] \in Span
  BY <1>1, LenProperties, ElementOfSeq
<1> QED BY <1>2, SizesAssumption DEF Span, Address

(* validate_unreadable_spans objects to containment only. *)
LEMMA SpansAccepted ==
  ASSUME Evidenced, Summed, pc = "completed"
  PROVE  V!ValidUnreadableSpans(MapJson) <=> SpansWithinOneRun
<1> DEFINE m == Len(unreadable)
           u == unreadable
           Fits(k) == V!ContainedInRange(u[k], runs)
<1>0. Counted /\ SpansCanonical
  BY DEF Evidenced, Spanned
<1>1. /\ MapJson.unreadable = unreadable /\ MapJson.ranges = runs
      /\ MapJson.unreadableBytes = unreadableBytes
  BY DEF MapJson
<1>2. unreadable \in Seq(Span) /\ m \in Nat
  BY <1>0, LenProperties DEF Counted, PositionedType, TypeOK
<1>3. \A k \in 1..m : u[k].start \in Nat /\ u[k].length \in Nat \ {0}
  BY <1>0, SpanFacts
<1>4. V!LengthOf(unreadable) = unreadableBytes
  <2>1. PICK P : AddsUp(P, unreadable, unreadableBytes)
    BY DEF Summed
  <2>2. \A k \in 1..Len(unreadable) : unreadable[k].length \in Nat
    BY <1>3
  <2> QED BY <1>2, <2>1, <2>2, LengthOfList
<1>5. ASSUME NEW k \in 1..m, k > 1
      PROVE  u[k].start >= u[k - 1].start + u[k - 1].length
  <2>1. k - 1 \in 1 .. m - 1 /\ k - 1 \in 1..m /\ (k - 1) + 1 = k
    BY <1>2, <1>5
  <2>2. u[k - 1].start + u[k - 1].length <= u[(k - 1) + 1].start
    BY <1>0, <2>1 DEF SpansCanonical
  <2>3. /\ u[k].start \in Nat /\ u[k - 1].start \in Nat
        /\ u[k - 1].length \in Nat
    BY <1>3, <2>1
  <2> QED BY <2>1, <2>2, <2>3
<1>6. V!ValidUnreadableSpans(MapJson) <=> \A k \in 1..m : Fits(k)
  <2> HIDE DEF Fits, u
  <2>1. V!ValidUnreadableSpans(MapJson)
          <=> /\ \A k \in 1..m :
                   /\ u[k].length # 0
                   /\ k > 1 => u[k].start >= u[k - 1].start + u[k - 1].length
                   /\ Fits(k)
              /\ V!LengthOf(u) = unreadableBytes
    BY <1>1 DEF V!ValidUnreadableSpans, u, Fits
  <2> QED BY <1>3, <1>4, <1>5, <2>1 DEF u
<1>7. ASSUME NEW k \in 1..m
      PROVE  Fits(k) <=> \E i \in 1..Len(runs) :
                           /\ runs[i].base <= u[k].start
                           /\ u[k].start + u[k].length <= End(runs[i])
  <2>1. ASSUME NEW i \in 1..Len(runs)
        PROVE  /\ u[k].start >= runs[i].base <=> runs[i].base <= u[k].start
               /\ V!Upto(runs[i]) = End(runs[i])
    <3>1. runs[i].base \in Nat /\ u[k].start \in Nat
      BY <1>0, <1>3, WholeLayout
    <3> QED BY <3>1 DEF V!Upto, End
  <2> HIDE DEF u
  <2> QED BY <2>1 DEF V!ContainedInRange, u
<1> QED BY <1>6, <1>7 DEF SpansWithinOneRun


(* The file's zeros and its digest are those the map tells of. *)
LEMMA FileAccepted ==
  ASSUME Evidenced, Summed, pc = "completed"
  PROVE  /\ V!ZeroBacked(MapJson, RawFile)
         /\ V!LogicalDigest(RawFile, LogicalSize) = hashed
<1> DEFINE u == unreadable
<1>0. /\ Counted /\ TypeOK /\ LogicalSize \in Nat
      /\ LogicalSize <= AddressLimit
      /\ \A i \in 1..Len(runs) :
           End(runs[i]) \in Nat /\ End(runs[i]) <= LogicalSize
  BY WholeLayout DEF Evidenced, Spanned, Counted, PositionedType
<1>1. \A a \in 0 .. LogicalSize - 1 : RawFile.at[a] = RawByte(a)
  BY DEF RawFile
<1>2. ASSUME NEW k \in 1..Len(u), NEW i \in 0 .. u[k].length - 1
      PROVE  RawFile.at[u[k].start + i] = Zero
  <2> DEFINE a == u[k].start + i
  <2>1. /\ u[k].start \in Nat /\ u[k].length \in Nat
    BY <1>0, SpanFacts
  <2>2. a \in Nat /\ u[k].start <= a /\ a < u[k].start + u[k].length
    BY <2>1
  <2> HIDE DEF a
  <2>3. RawByte(a) = Zero /\ InPhys(a)
    BY <2>2, SpanByte
  <2>4. a \in 0 .. LogicalSize - 1
    <3>1. PICK j \in 1..Len(runs) : a < End(runs[j])
      BY <2>3 DEF InPhys
    <3> QED BY <1>0, <2>2, <3>1
  <2> QED BY <1>1, <2>3, <2>4 DEF a
<1>3. V!ZeroBacked(MapJson, RawFile)
  <2>1. MapJson.unreadable = unreadable
    BY DEF MapJson
  <2> QED BY <1>2, <2>1 DEF V!ZeroBacked
<1>4. /\ hashed \in Seq(Byte) /\ Len(hashed) = LogicalSize
      /\ \A a \in Address : a < LogicalSize => hashed[a + 1] = RawByte(a)
  BY <1>0 DEF Evidenced, HashMatchesImage, TypeOK
<1>5. V!LogicalDigest(RawFile, LogicalSize) = hashed
  <2>1. V!LogicalDigest(RawFile, LogicalSize)
          = [i \in 1..LogicalSize |-> RawFile.at[i - 1]]
    BY DEF V!LogicalDigest
  <2>2. ASSUME NEW i \in 1..LogicalSize PROVE RawFile.at[i - 1] = hashed[i]
    <3>1. /\ i - 1 \in 0 .. LogicalSize - 1 /\ i - 1 < LogicalSize
          /\ (i - 1) + 1 = i /\ i - 1 \in Address
      BY <1>0, SizesAssumption DEF Address
    <3>2. hashed[(i - 1) + 1] = RawByte(i - 1)
      BY <1>4, <3>1
    <3> QED BY <1>1, <3>1, <3>2
  <2>3. hashed = [i \in 1..LogicalSize |-> hashed[i]]
    BY <1>4
  <2> QED BY <2>1, <2>2, <2>3
<1> QED BY <1>3, <1>5

(* Where no two runs touch, no span crosses from one into the next: the    *)
(* byte at the end of a run would have to lie in another one.              *)
LEMMA SpansStayInside ==
  ASSUME Evidenced, Summed, pc = "completed", ~Touching(runs)
  PROVE  SpansWithinOneRun
<1> DEFINE n == Len(runs)
           u == unreadable
           r == runs
<1>0. /\ Counted /\ r \in Layouts /\ n \in Nat \ {0}
      /\ \A i \in 1..n : /\ r[i].base \in Nat /\ r[i].length \in Nat \ {0}
                         /\ End(r[i]) = r[i].base + r[i].length
                         /\ End(r[i]) \in Nat
  BY WholeLayout DEF Evidenced, Spanned, End
<1> SUFFICES ASSUME NEW k \in 1..Len(u)
             PROVE  \E i \in 1..n : /\ r[i].base <= u[k].start
                                    /\ u[k].start + u[k].length <= End(r[i])
  BY DEF SpansWithinOneRun
<1> DEFINE s == u[k].start
           e == u[k].start + u[k].length
<1>1. s \in Nat /\ e \in Nat /\ s < e
  BY <1>0, SpanFacts
<1>2. \A a \in Nat : s <= a /\ a < e =>
        \E i \in 1..n : r[i].base <= a /\ a < End(r[i])
  BY SpanByte DEF InPhys
<1>3. \A i, j \in 1..n : i < j => End(r[i]) <= r[j].base
  BY <1>0, RunsAscend DEF End
<1>4. \A i \in 1 .. n - 1 : End(r[i]) # r[i + 1].base
  BY DEF Touching
<1> HIDE DEF n, u, r, s, e
<1>5. PICK i \in 1..n : r[i].base <= s /\ s < End(r[i])
  BY <1>1, <1>2
<1>6. ASSUME End(r[i]) < e PROVE FALSE
  <2>1. PICK j \in 1..n : r[j].base <= End(r[i]) /\ End(r[i]) < End(r[j])
    <3>1. End(r[i]) \in Nat /\ s <= End(r[i]) /\ End(r[i]) < e
      BY <1>0, <1>1, <1>5, <1>6
    <3> QED BY <1>2, <3>1
  <2>2. CASE j < i
    <3>1. End(r[j]) <= r[i].base
      BY <1>3, <2>2
    <3>2. /\ r[i].base \in Nat /\ End(r[i]) \in Nat /\ End(r[j]) \in Nat
          /\ r[i].base <= End(r[i])
      BY <1>0, SMTT(30)
    <3> QED BY <2>1, <3>1, <3>2
  <2>3. CASE j = i
    BY <1>0, <2>1, <2>3
  <2>4. CASE i < j
    <3>1. i + 1 \in 1..n /\ i \in 1 .. n - 1 /\ i < i + 1
      BY <1>0, <2>4
    <3>2. End(r[i]) <= r[i + 1].base /\ End(r[i]) # r[i + 1].base
      BY <1>3, <1>4, <3>1
    <3>3. /\ r[i + 1].base \in Nat /\ End(r[i + 1]) \in Nat
          /\ r[i + 1].base <= End(r[i + 1])
          /\ End(r[i]) \in Nat /\ r[j].base \in Nat
      <4> DEFINE q == i + 1
      <4>1. q \in 1..n
        BY <3>1
      <4> HIDE DEF q
      <4>2. r[q].base \in Nat /\ r[q].length \in Nat
        BY <1>0, <4>1
      <4>3. End(r[q]) = r[q].base + r[q].length /\ End(r[q]) \in Nat
        BY <1>0, <4>1
      <4>4. End(r[i]) \in Nat /\ r[j].base \in Nat
        BY <1>0
      <4> QED BY <4>2, <4>3, <4>4, SMTT(30) DEF q
    <3>4. r[i + 1].base <= r[j].base
      <4>1. CASE j = i + 1
        BY <3>3, <4>1
      <4>2. CASE j # i + 1
        <5>1. i + 1 < j
          BY <1>0, <2>4, <4>2
        <5>2. End(r[i + 1]) <= r[j].base
          BY <1>3, <3>1, <5>1
        <5> QED BY <3>3, <5>2
      <4> QED BY <4>1, <4>2
    <3> QED BY <2>1, <3>2, <3>3, <3>4
  <2> QED BY <1>0, <2>2, <2>3, <2>4
<1>7. e <= End(r[i])
  BY <1>0, <1>1, <1>6
<1> QED BY <1>5, <1>7 DEF s, e

LEMMA VerdictFollows ==
  ASSUME Evidenced, Summed PROVE OnlyContainmentIsRefused
<1> SUFFICES ASSUME pc = "completed"
             PROVE  LET accepted == V!VerifyBundle(MapJson, RawFile, hashed)
                    IN  /\ SpansWithinOneRun <=> accepted
                        /\ ~Touching(runs) => accepted
  BY DEF OnlyContainmentIsRefused
<1>0. Counted
  BY DEF Evidenced, Spanned
<1>1. /\ RawFile.size = MapJson.logicalSize
      /\ MapJson.acquiredBytes + MapJson.unreadableBytes
           = MapJson.physicalBytes
      /\ MapJson.logicalSize = LogicalSize /\ MapJson.sha256 = hashed
  BY <1>0, WholeLayout DEF RawFile, MapJson
<1>2. V!ValidStatus(MapJson)
  BY DEF V!ValidStatus, MapJson, MapStatus
<1>3. V!ValidRanges(MapJson)
  BY <1>0, RangesAccepted
<1>4. V!ValidUnreadableSpans(MapJson) <=> SpansWithinOneRun
  BY SpansAccepted
<1>5. /\ V!ZeroBacked(MapJson, RawFile)
      /\ V!LogicalDigest(RawFile, LogicalSize) = hashed
  BY FileAccepted
<1>6. V!VerifyBundle(MapJson, RawFile, hashed) <=> SpansWithinOneRun
  BY <1>1, <1>2, <1>3, <1>4, <1>5 DEF V!VerifyBundle
<1> QED BY <1>6, SpansStayInside

(* What the engine completes is what the independent verifier accepts, for *)
(* any layout, page size and answers of the device: geometry, sums, status,*)
(* zeros and digest agree, and a span joined across two touching runs is   *)
(* the only thing it can object to.                                        *)
THEOREM BundleAccepted == Spec => []OnlyContainmentIsRefused
<1>1. Evidenced /\ Summed => OnlyContainmentIsRefused
  BY VerdictFollows
<1>2. Spanned /\ ExactlyOnce /\ HashMatchesImage => Evidenced
  BY DEF Evidenced
<1> QED BY <1>1, <1>2, SpannedAlways, EachByteOnce, DigestOfImage,
           SummedAlways, PTL
---------------------------------------------------------------------------
(* The walk.                                                               *)

(* The window that is read page by page is what is left of one transfer. *)
Windowed == pc = "page" => chunkEnd <= offset + MaxTransfer

(* What a read asks for, and what becomes of its answer. *)
ReadAt(n, result) ==
  /\ n \in Nat \ {0} /\ n <= MaxTransfer /\ offset + n <= Run.length
  /\ result \in ReadResults(Here, n) /\ ValidateReadResult(result, Here, n)

ReadEnds(n, result) ==
  \/ StoreFails(result) /\ pc' = "failed"
  \/ Store(result) /\ result.copied # 0 /\ pc' \in {"chunk", "page"}
  \/ UNCHANGED <<runs, position, stored>> /\ pc' = "page"
  \/ /\ n <= PageSize - (Here % PageSize)
     /\ MarkUnreadable(Here, n, result.copyStatus) /\ pc' = "page"

LEMMA ChunkWalks ==
  ASSUME Counted, ReadChunk
  PROVE  /\ \E n, result : ReadAt(n, result) /\ ReadEnds(n, result)
         /\ Windowed'
<1> DEFINE n == Smaller(MaxTransfer, Run.length - offset)
<1>1. pc = "chunk" /\ offset < Run.length
  BY DEF ReadChunk
<1>2. n \in Nat \ {0} /\ offset + n <= Run.length
  BY <1>1, ChunkRequest DEF Counted
<1>3. /\ offset \in Nat /\ Run.length \in Nat /\ Here \in Nat
      /\ MaxTransfer \in Nat
  BY <1>1, HereFacts, SizesAssumption DEF Reading
<1>4. n <= MaxTransfer
  BY <1>3 DEF Smaller
<1>5. PICK result \in ReadResults(Here, n) :
        /\ ValidateReadResult(result, Here, n)
        /\ \/ /\ Store(result) /\ result.copied # 0
              /\ pc' = AfterTransfer(result.copied, n)
              /\ chunkEnd' = offset + n
           \/ StoreFails(result)
           \/ /\ pc' = AfterTransfer(0, n) /\ chunkEnd' = offset + n
              /\ UNCHANGED <<runs, position, stored>>
  BY <1>1 DEF ReadChunk
<1> HIDE DEF n
<1>6. result.copied \in Nat
  BY <1>2, <1>3, ResultFacts
<1>7. ReadAt(n, result)
  BY <1>2, <1>4, <1>5 DEF ReadAt
<1>8. ReadEnds(n, result)
  <2>1. StoreFails(result) => pc' = "failed"
    BY DEF StoreFails
  <2>2. /\ AfterTransfer(0, n) = "page"
        /\ AfterTransfer(result.copied, n) \in {"chunk", "page"}
    BY <1>2 DEF AfterTransfer
  <2> QED BY <1>5, <2>1, <2>2 DEF ReadEnds
<1>9. Windowed'
  <2>1. CASE Store(result) /\ chunkEnd' = offset + n
    <3>1. offset' = offset + result.copied
      BY <2>1 DEF Store
    <3> QED BY <1>2, <1>3, <1>4, <1>6, <2>1, <3>1 DEF Windowed
  <2>2. CASE chunkEnd' = offset + n /\ UNCHANGED position
    BY <1>2, <1>3, <1>4, <2>2 DEF Windowed, position
  <2>3. CASE StoreFails(result)
    BY <2>3 DEF StoreFails, Windowed
  <2> QED BY <1>5, <2>1, <2>2, <2>3
<1> QED BY <1>7, <1>8, <1>9

LEMMA PageWalks ==
  ASSUME Counted, Windowed, ReadPage
  PROVE  /\ \E n, result : ReadAt(n, result) /\ ReadEnds(n, result)
         /\ Windowed'
<1> DEFINE left == chunkEnd - offset
           border == PageSize - (Here % PageSize)
           n == PageRequest(Here, chunkEnd - offset)
<1>1. pc = "page" /\ offset < chunkEnd
  BY DEF ReadPage
<1>2. /\ offset \in Nat /\ chunkEnd \in Nat /\ Run.length \in Nat
      /\ Here \in Nat /\ MaxTransfer \in Nat /\ PageSize \in Nat \ {0}
      /\ chunkEnd <= Run.length
  BY <1>1, HereFacts, SizesAssumption
     DEF Reading, Counted, PositionedType, Positioned, TypeOK
<1>3. n \in Nat \ {0} /\ offset + n <= chunkEnd
  BY <1>1, PageRequestFacts DEF Counted
<1>4. n <= border
  <2>1. Here % PageSize \in 0 .. PageSize - 1
    BY <1>2
  <2>2. border \in Nat /\ left \in Nat
    BY <1>1, <1>2, <2>1
  <2>3. n = Smaller(border, left)
    BY DEF PageRequest
  <2> HIDE DEF n, border, left
  <2> QED BY <2>2, <2>3 DEF Smaller
<1>5. PICK result \in ReadResults(Here, n) :
        /\ ValidateReadResult(result, Here, n)
        /\ \/ /\ Store(result) /\ result.copied # 0
              /\ pc' = AfterTransfer(result.copied, n)
              /\ chunkEnd' = chunkEnd
           \/ StoreFails(result)
           \/ /\ MarkUnreadable(Here, n, result.copyStatus)
              /\ pc' = pc /\ chunkEnd' = chunkEnd
  BY <1>1 DEF ReadPage
<1> HIDE DEF n
<1>6. result.copied \in Nat
  BY <1>2, <1>3, ResultFacts
<1>7. ReadAt(n, result)
  <2>1. n <= MaxTransfer /\ offset + n <= Run.length
    BY <1>1, <1>2, <1>3 DEF Windowed
  <2> QED BY <1>3, <1>5, <2>1 DEF ReadAt
<1>8. ReadEnds(n, result)
  <2>1. StoreFails(result) => pc' = "failed"
    BY DEF StoreFails
  <2>2. AfterTransfer(result.copied, n) \in {"chunk", "page"}
    BY DEF AfterTransfer
  <2> QED BY <1>1, <1>4, <1>5, <2>1, <2>2 DEF ReadEnds
<1>9. Windowed'
  <2>1. \/ pc' = "failed"
        \/ chunkEnd' = chunkEnd /\ \E k \in Nat : offset' = offset + k
    BY <1>3, <1>5, <1>6 DEF Store, StoreFails, MarkUnreadable
  <2> QED BY <1>1, <1>2, <2>1 DEF Windowed
<1> QED BY <1>7, <1>8, <1>9

LEMMA NextWindowed ==
  ASSUME Counted, Windowed, [Next]_vars PROVE Windowed'
<1>1. CASE ReadChunk \/ ReadPage
  BY <1>1, ChunkWalks, PageWalks
<1>2. CASE ~(ReadChunk \/ ReadPage)
  <2>1. \/ pc' # "page"
        \/ UNCHANGED <<pc, offset, chunkEnd>>
    BY <1>2 DEF Next, Engine, Query, NextRun, WindowDone, ReadFails, CancelSeen,
       Pace, HashTail, EndSession, Cancel, Returned, Fail, vars, position
  <2> QED BY <2>1 DEF Windowed
<1> QED BY <1>1, <1>2

LEMMA WalkPlace ==
  ASSUME Counted, Reading, offset < Run.length
  PROVE  /\ ~RunDone /\ ~Walk!AtEnd
         /\ Walk!Rest = Run.length - offset /\ Walk!Address = Here
<1>1. /\ runs \in Layouts /\ index \in 1..Len(runs) /\ Len(runs) \in Nat
      /\ offset \in Nat /\ Run.length \in Nat
  BY HereFacts
<1>2. ~RunDone
  BY <1>1 DEF RunDone
<1> QED BY <1>1, <1>2
        DEF Walk!AtEnd, Walk!Rest, Walk!Address, Here, Run

(* The place after n more bytes of the run, which may be its end. *)
LEMMA WalkAdvance ==
  ASSUME Counted, Reading, NEW n \in Nat \ {0}, offset + n <= Run.length,
         UNCHANGED <<runs, index>>, offset' = offset + n
  PROVE  Walk!Advance(n)
<1>1. /\ offset \in Nat /\ Run.length \in Nat /\ index \in Nat
      /\ index \in 1..Len(runs) /\ Len(runs) \in Nat
  BY HereFacts
<1>2. offset < Run.length
  BY <1>1
<1>3. ~RunDone /\ Walk!Rest = Run.length - offset
  BY <1>2, WalkPlace
<1>4. runs # <<>> /\ Run' = Run
  BY <1>1 DEF Run
<1>5. RunDone' <=> n = Run.length - offset
  BY <1>1, <1>4 DEF RunDone
<1> QED BY <1>3, <1>5 DEF Walk!Advance

(* The bytes acquired are a piece of the run. *)
LEMMA WalkGiven ==
  ASSUME Counted, Reading, offset < Run.length,
         NEW k \in Nat, offset + k <= Run.length,
         \A a \in Address :
           Acquired(a)' <=> Acquired(a) \/ (Here <= a /\ a < Here + k)
  PROVE  AcquiredSet' = AcquiredSet \cup Walk!Piece(k)
<1>1. /\ Here \in Nat /\ Here + k <= AddressLimit /\ AddressLimit \in Nat
  <2>1. /\ offset \in Nat /\ Run.base \in Nat /\ Run.length \in Nat
        /\ Here = Run.base + offset
    BY HereFacts
  <2>2. Run.base + Run.length <= AddressLimit /\ AddressLimit \in Nat
    BY RunFits DEF End
  <2> QED BY <2>1, <2>2
<1>2. Walk!Piece(k) = {Here + i : i \in 0 .. k - 1}
  BY WalkPlace DEF Walk!Piece
<1> HIDE DEF Here
<1>3. \A a : a \in Walk!Piece(k) <=> a \in Address /\ Here <= a /\ a < Here + k
  <2>1. ASSUME NEW a, a \in Address, Here <= a, a < Here + k
        PROVE  a \in {Here + i : i \in 0 .. k - 1}
    <3>1. a \in Nat /\ a - Here \in 0 .. k - 1 /\ a = Here + (a - Here)
      BY <1>1, <2>1 DEF Address
    <3> QED BY <3>1
  <2>2. ASSUME NEW i \in 0 .. k - 1
        PROVE  /\ Here + i \in Address /\ Here <= Here + i
               /\ Here + i < Here + k
    BY <1>1 DEF Address
  <2> QED BY <1>2, <2>1, <2>2
<1> QED BY <1>3 DEF AcquiredSet

(* The part of an answer that a failed write may leave in the image. *)
LEMMA WrittenPart ==
  ASSUME Counted, Reading, NEW n \in Nat, Here \in Address,
         NEW result \in ReadResults(Here, n), NEW k \in 0..result.copied,
         image' = Written(Here, k, result.data)
  PROVE  \A a \in Address :
           Acquired(a)' <=> Acquired(a) \/ (Here <= a /\ a < Here + k)
<1> DEFINE c == result.copied
           data == result.data
<1>1. /\ Here \in Nat /\ c \in Nat /\ k \in 0..c /\ data \in [1..c -> Byte]
  BY HereFacts, ResultFacts
<1> HIDE DEF Here, c, data
<1> SUFFICES ASSUME NEW a \in Address
             PROVE  Acquired(a)' <=> Acquired(a) \/ (Here <= a /\ a < Here + k)
  OBVIOUS
<1>2. a \in Nat /\ k \in Nat
  BY <1>1, SizesAssumption DEF Address
<1>3. image'[a] = IF a \in Here .. Here + k - 1 THEN data[a - Here + 1]
                                                ELSE image[a]
  BY DEF Written, data
<1>4. a \in Here .. Here + k - 1 <=> Here <= a /\ a < Here + k
  BY <1>1, <1>2
<1>5. a \in Here .. Here + k - 1 => data[a - Here + 1] \in Byte
  BY <1>1, <1>2
<1> QED BY <1>3, <1>4, <1>5, BytesAssumption DEF Acquired

LEMMA ReadWalks ==
  ASSUME Counted, Windowed, ReadChunk \/ ReadPage
  PROVE  [Walk!Next]_Walk!walkVars
<1>1. PICK n, result : ReadAt(n, result) /\ ReadEnds(n, result)
  BY ChunkWalks, PageWalks
<1>2. /\ Reading /\ pc \in {"chunk", "page"}
      /\ offset \in Nat /\ Run.length \in Nat /\ n \in Nat \ {0}
      /\ n <= MaxTransfer /\ offset + n <= Run.length
      /\ MaxTransfer \in Nat /\ PageSize \in Nat \ {0}
  BY <1>1, HereFacts, SizesAssumption
     DEF ReadChunk, ReadPage, Reading, ReadAt
<1>3. offset < Run.length
  BY <1>2
<1>4. /\ ~Walk!AtEnd /\ Walk!Address = Here
      /\ Walk!Rest = Run.length - offset
  BY <1>2, <1>3, WalkPlace
<1>5. /\ result \in ReadResults(Here, n) /\ Here \in Address
      /\ ValidateReadResult(result, Here, n) /\ result.copied \in 0..n
      /\ result.physicalAddress = Here
  <2>1. Here \in Address
    <3>1. /\ Run.base \in Nat /\ Here = Run.base + offset
          /\ Run.base + Run.length <= AddressLimit /\ AddressLimit \in Nat
      BY <1>2, HereFacts, RunFits DEF End
    <3> QED BY <1>2, <1>3, <3>1 DEF Address
  <2>2. Here \in Nat /\ result \in ReadResults(Here, n)
    BY <1>1, <1>2, HereFacts DEF ReadAt
  <2> QED BY <1>1, <1>2, <2>1, <2>2, ResultFacts
          DEF ReadAt, ValidateReadResult
<1>6. \A k \in 1..n : k \in Walk!Pieces
  BY <1>2, <1>4 DEF Walk!Pieces, Walk!Least
<1>7. ASSUME Store(result), result.copied # 0, pc' \in {"chunk", "page"}
      PROVE  Walk!HandOver
  <2> DEFINE c == result.copied
  <2>1. c \in 1..n /\ c \in Nat \ {0} /\ offset + c <= Run.length
    BY <1>2, <1>5, <1>7
  <2>2. UNCHANGED <<runs, index>> /\ offset' = offset + c
    BY <1>7 DEF Store
  <2>3. \A a \in Address :
          Acquired(a)' <=> Acquired(a) \/ (Here <= a /\ a < Here + c)
    BY <1>2, <1>5, <1>7, StoreAcquires
  <2> HIDE DEF c
  <2>4. AcquiredSet' = AcquiredSet \cup Walk!Piece(c)
    BY <1>2, <1>3, <2>1, <2>3, WalkGiven
  <2>5. Walk!Advance(c)
    BY <1>2, <2>1, <2>2, WalkAdvance
  <2> QED BY <1>2, <1>4, <1>6, <1>7, <2>1, <2>2, <2>4, <2>5
          DEF Walk!HandOver, AcquiredSet
<1>8. ASSUME MarkUnreadable(Here, n, result.copyStatus),
             n <= PageSize - (Here % PageSize), pc' = "page"
      PROVE  Walk!SkipPage
  <2>1. UNCHANGED <<runs, index, image>> /\ offset' = offset + n
    BY <1>8 DEF MarkUnreadable, stored
  <2>2. n \in 1 .. Walk!Least(PageSize - (Walk!Address % PageSize), Walk!Rest)
    <3>1. Here \in Nat
      BY <1>2, HereFacts
    <3>2. Here % PageSize \in 0 .. PageSize - 1
      BY <1>2, <3>1
    <3>3. n <= Run.length - offset
      BY <1>2
    <3> QED BY <1>2, <1>4, <1>8, <3>2, <3>3 DEF Walk!Least
  <2>3. Walk!Advance(n)
    BY <1>2, <2>1, WalkAdvance
  <2>4. AcquiredSet' = AcquiredSet
    BY <2>1 DEF AcquiredSet, Acquired
  <2> QED BY <1>2, <1>4, <1>8, <2>1, <2>2, <2>3, <2>4
          DEF Walk!SkipPage, AcquiredSet
<1>9. ASSUME StoreFails(result), pc' = "failed" PROVE Walk!Abort
  <2>1. UNCHANGED <<runs, index, offset>>
    BY <1>9 DEF StoreFails, position
  <2>2. UNCHANGED RunDone
    BY <2>1 DEF RunDone, Run
  <2>3. \/ AcquiredSet' = AcquiredSet
        \/ \E k \in Walk!Pieces : AcquiredSet' = AcquiredSet \cup Walk!Piece(k)
    <3>1. CASE image' = image
      BY <3>1 DEF AcquiredSet, Acquired
    <3>2. CASE \E k \in 0..result.copied : image' = Written(Here, k, result.data)
      <4>1. PICK k \in 0..result.copied : image' = Written(Here, k, result.data)
        BY <3>2
      <4>2. k \in 0..n /\ k \in Nat /\ offset + k <= Run.length
        BY <1>2, <1>5
      <4>3. \A a \in Address :
              Acquired(a)' <=> Acquired(a) \/ (Here <= a /\ a < Here + k)
        BY <1>2, <1>5, <4>1, WrittenPart
      <4>4. AcquiredSet' = AcquiredSet \cup Walk!Piece(k)
        BY <1>2, <1>3, <4>2, <4>3, WalkGiven
      <4>5. CASE k = 0
        <5>1. Walk!Piece(k) = {}
          BY <4>5 DEF Walk!Piece
        <5> QED BY <4>4, <5>1
      <4>6. CASE k # 0
        BY <1>6, <4>2, <4>4, <4>6
      <4> QED BY <4>5, <4>6
    <3> QED BY <1>5, <1>9, <3>1, <3>2 DEF StoreFails
  <2> QED BY <1>2, <1>4, <1>9, <2>1, <2>2, <2>3 DEF Walk!Abort, AcquiredSet
<1>10. ASSUME UNCHANGED <<runs, position, stored>>, pc' = "page"
       PROVE  UNCHANGED Walk!walkVars
  <2>1. UNCHANGED <<runs, index, offset, image>>
    BY <1>10 DEF position, stored
  <2>2. UNCHANGED RunDone /\ UNCHANGED AcquiredSet
    BY <2>1 DEF RunDone, Run, AcquiredSet, Acquired
  <2> QED BY <1>2, <1>10, <2>1, <2>2 DEF Walk!walkVars, AcquiredSet
<1> QED BY <1>1, <1>7, <1>8, <1>9, <1>10 DEF ReadEnds, Walk!Next

LEMMA StepWalks ==
  ASSUME Counted, Windowed, [Next]_vars
  PROVE  [Walk!Next]_Walk!walkVars
<1>1. ASSUME UNCHANGED <<runs, index, offset, image>>
      PROVE  UNCHANGED RunDone /\ UNCHANGED AcquiredSet
  BY <1>1 DEF RunDone, Run, AcquiredSet, Acquired
<1>2. ASSUME UNCHANGED <<runs, index, offset, image>>,
             \/ pc' = pc
             \/ /\ pc \notin {"query", "failed", "completed"}
                /\ pc' \notin {"query", "failed", "completed"}
      PROVE  UNCHANGED Walk!walkVars
  BY <1>1, <1>2 DEF Walk!walkVars, AcquiredSet
<1>3. ASSUME Fail, ~Ended PROVE Walk!Abort
  <2>1. UNCHANGED <<runs, index, offset, image>> /\ pc' = "failed"
    BY <1>3 DEF Fail, position, stored
  <2> QED BY <1>1, <1>3, <2>1 DEF Walk!Abort, AcquiredSet, Ended
<1>4. CASE Query
  <2>1. /\ pc = "query" /\ runs = <<>> /\ index = 1 /\ offset = 0
        /\ UNCHANGED <<index, offset, image>>
    BY <1>4 DEF Query, position, stored, Counted, PositionedType, Positioned
  <2>2. ~RunDone /\ UNCHANGED AcquiredSet
    BY <2>1 DEF RunDone, AcquiredSet, Acquired
  <2>3. CASE pc' = "failed" /\ UNCHANGED runs
    BY <1>1, <2>1, <2>3 DEF Walk!Abort, AcquiredSet, Walk!Next
  <2>4. CASE pc' = "chunk" /\ runs' \in Layouts
    <3>1. 1 \in 1..Len(runs') /\ runs' # <<>>
      BY <2>4, LayoutsAssumption, LenProperties, EmptySeq DEF IsLayout
    <3>2. Run' = runs'[1] /\ runs'[1].length \in Nat \ {0}
      BY <2>1, <2>4, <3>1, LayoutFacts DEF Run
    <3>3. ~RunDone'
      BY <2>1, <3>2 DEF RunDone
    <3> QED BY <2>1, <2>2, <2>4, <3>1, <3>3
            DEF Walk!Begin, AcquiredSet, Walk!Next
  <2> QED BY <1>4, <2>3, <2>4 DEF Query
<1>5. CASE NextRun
  <2>1. /\ pc = "chunk" /\ offset = Run.length /\ Reading
        /\ UNCHANGED <<runs, image>>
    BY <1>5 DEF NextRun, Reading, stored
  <2>2. /\ runs \in Layouts /\ index \in 1..Len(runs) /\ Len(runs) \in Nat
    BY <2>1, HereFacts
  <2>3. CASE index < Len(runs)
    <3>1. index' = index + 1 /\ offset' = 0 /\ pc' = pc
      BY <1>5, <2>3 DEF NextRun
    <3>2. RunDone
      BY <2>1, <2>2 DEF RunDone
    <3>3. index + 1 \in 1..Len(runs)
      BY <2>2, <2>3
    <3>4. Run' = runs[index + 1] /\ runs[index + 1].length \in Nat \ {0}
      BY <2>1, <2>2, <3>1, <3>3, LayoutFacts DEF Run
    <3>5. ~RunDone'
      BY <3>1, <3>4 DEF RunDone
    <3>6. UNCHANGED AcquiredSet
      BY <2>1 DEF AcquiredSet, Acquired
    <3> QED BY <2>1, <3>1, <3>2, <3>5, <3>6 DEF Walk!walkVars, AcquiredSet
  <2>4. CASE ~(index < Len(runs))
    <3>1. pc' = "tail" /\ UNCHANGED <<index, offset>>
      BY <1>5, <2>4 DEF NextRun, position
    <3> QED BY <1>2, <2>1, <3>1
  <2> QED BY <2>3, <2>4
<1>6. CASE ReadChunk \/ ReadPage
  BY <1>6, ReadWalks
<1>7. CASE WindowDone \/ Cancel
  BY <1>2, <1>7 DEF WindowDone, Cancel, position, stored
<1>8. CASE ReadFails \/ CancelSeen
  BY <1>3, <1>8 DEF ReadFails, CancelSeen, AboutToRead, Ended, Walk!Next
<1>9. CASE Pace
  BY <1>2, <1>3, <1>9 DEF Pace, position, stored, Walk!Next
<1>10. CASE HashTail
  <2>1. CASE Fail
    BY <1>3, <1>10, <2>1 DEF HashTail, Ended, Walk!Next
  <2>2. CASE pc' = "end" /\ UNCHANGED <<runs, position, image>>
    BY <1>2, <1>10, <2>2 DEF HashTail, position
  <2> QED BY <1>10, <2>1, <2>2 DEF HashTail
<1>11. CASE EndSession
  <2>1. CASE Fail
    BY <1>3, <1>11, <2>1 DEF EndSession, Ended, Walk!Next
  <2>2. CASE pc' = "completed" /\ UNCHANGED <<runs, position, stored>>
    <3>1. /\ runs \in Layouts /\ index = Len(runs) /\ offset = Run.length
      BY <1>11 DEF EndSession, Counted, PositionedType, Positioned, ReadThrough
    <3>2. Len(runs) \in Nat \ {0} /\ runs # <<>>
      BY <3>1, LayoutsAssumption, LenProperties, EmptySeq DEF IsLayout
    <3>3. RunDone /\ Walk!AtEnd
      BY <3>1, <3>2 DEF RunDone, Walk!AtEnd
    <3>4. UNCHANGED <<runs, index, offset, image>>
      BY <2>2 DEF position, stored
    <3>5. UNCHANGED RunDone /\ UNCHANGED AcquiredSet
      BY <1>1, <3>4
    <3> QED BY <1>11, <2>2, <3>3, <3>4, <3>5
            DEF EndSession, Walk!Seal, AcquiredSet, Walk!Next
  <2> QED BY <1>11, <2>1, <2>2 DEF EndSession
<1>12. CASE UNCHANGED vars
  BY <1>2, <1>12 DEF vars, position, stored
<1> QED BY <1>4, <1>5, <1>6, <1>7, <1>8, <1>9, <1>10, <1>11, <1>12
        DEF Next, Engine, Returned

(* Acquire implements MemoryWalk: it hands over consecutive pieces of the  *)
(* runs, none larger than a transfer, skips bytes of one page at a time,   *)
(* and succeeds only when every run is behind it.                          *)
THEOREM WalkRefinement == Spec => HandsOverInOrder
<1>1. Init => Walk!Init /\ Windowed
  <2> SUFFICES ASSUME Init PROVE Walk!Init /\ Windowed
    OBVIOUS
  <2>1. ~RunDone /\ pc = "query" /\ index = 1 /\ offset = 0
    BY DEF Init, RunDone
  <2>2. {a \in Address : Acquired(a)} = {}
    BY DEF Init, Acquired
  <2> QED BY <2>1, <2>2 DEF Walk!Init, Windowed
<1>2. Counted /\ Windowed /\ [Next]_vars => Windowed'
  BY NextWindowed
<1>3. Counted /\ Windowed /\ [Next]_vars => [Walk!Next]_Walk!walkVars
  BY StepWalks
<1> QED BY <1>1, <1>2, <1>3, CountedAlways, PTL
        DEF Spec, HandsOverInOrder, Walk!Spec
=============================================================================
