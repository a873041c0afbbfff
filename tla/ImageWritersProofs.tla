------------------------- MODULE ImageWritersProofs -------------------------
(***************************************************************************)
(* Theorems about ImageWriters, for every layout, volume, page size, chunk *)
(* size and word size: what the files hold while they are written and what *)
(* a reader finds in them once they are sealed.                            *)
(***************************************************************************)
EXTENDS ImageWriters, FoldTheorems, SequenceTheorems

---------------------------------------------------------------------------
(* Numbers.                                                                *)

LEMMA TimesMonotone ==
  ASSUME NEW a \in Nat, NEW b \in Nat, a <= b, NEW k \in Nat
  PROVE  a * k <= b * k /\ a * k \in Nat /\ b * k \in Nat
<1>1. PICK d \in Nat : b = a + d
  <2>1. b - a \in Nat /\ b = a + (b - a)
    OBVIOUS
  <2> QED BY <2>1
<1>2. b * k = a * k + d * k /\ d * k \in Nat /\ a * k \in Nat
  BY <1>1
<1> QED BY <1>2

LEMMA OneMore ==
  ASSUME NEW a \in Nat, NEW k \in Nat
  PROVE  (a + 1) * k = a * k + k /\ a * k \in Nat
OBVIOUS

LEMMA Division ==
  ASSUME NEW n \in Nat, NEW k \in Nat \ {0}
  PROVE  /\ n \div k \in Nat /\ n % k \in 0 .. k - 1
         /\ n = (n \div k) * k + (n % k) /\ (n \div k) * k \in Nat
<1>1. n \div k \in Nat /\ n % k \in 0 .. k - 1 /\ n = k * (n \div k) + (n % k)
  OBVIOUS
<1> QED BY <1>1

LEMMA QuotientBelow ==
  ASSUME NEW n \in Nat, NEW k \in Nat \ {0}, NEW c \in Nat, n < c * k
  PROVE  n \div k < c
<1> DEFINE d == n \div k
<1>1. d \in Nat /\ d * k \in Nat /\ d * k <= n
  BY Division
<1> HIDE DEF d
<1>2. c <= d => c * k <= d * k
  BY <1>1, TimesMonotone
<1>3. c * k \in Nat
  OBVIOUS
<1>4. d < c
  BY <1>1, <1>2, <1>3
<1> QED BY <1>4 DEF d

---------------------------------------------------------------------------
(* Files.                                                                  *)

Kinds == {"byte", "zero", "dump", "sectors", "table", "file", "header",
          "volume", "checksum", "hash", "done"}

Cell ==
  UNION {[kind : {"byte"}, at : Nat],
         [kind : {"dump"}, runs : Seq([basePage : Nat, pageCount : Nat])],
         [kind : {"sectors"}, next : Nat],
         [kind : {"table"}, chunks : Seq(Nat)],
         [kind : Kinds]}

LEMMA CellKinds == \A c \in Cell : c.kind \in Kinds
BY DEF Cell, Kinds

LEMMA CellFacts ==
  /\ \A a \in Nat : Byte(a) \in Cell
  /\ Zero \in Cell
  /\ \A k \in Kinds : Mark(k) \in Cell
  /\ \A list \in Seq([basePage : Nat, pageCount : Nat]) :
       DumpHeader(list) \in Cell
  /\ \A n \in Nat : Sectors(n) \in Cell
  /\ \A list \in Seq(Nat) : Table(list) \in Cell
<1>1. \A a \in Nat : Byte(a) \in Cell
  BY DEF Byte, Cell
<1>2. Zero \in Cell
  BY DEF Zero, Cell, Kinds
<1>3. \A k \in Kinds : Mark(k) \in Cell
  BY DEF Mark, Cell
<1>4. \A list \in Seq([basePage : Nat, pageCount : Nat]) :
        DumpHeader(list) \in Cell
  BY DEF DumpHeader, Cell
<1>5. \A n \in Nat : Sectors(n) \in Cell
  BY DEF Sectors, Cell
<1>6. \A list \in Seq(Nat) : Table(list) \in Cell
  BY DEF Table, Cell
<1> QED BY <1>1, <1>2, <1>3, <1>4, <1>5, <1>6

LEMMA ListOf ==
  ASSUME NEW S, NEW n \in Nat, NEW s \in [1..n -> S]
  PROVE  s \in Seq(S) /\ Len(s) = n /\ DOMAIN s = 1..n
OBVIOUS

LEMMA BytesFacts ==
  ASSUME NEW a \in Nat, NEW n \in Nat
  PROVE  /\ Bytes(a, n) \in Seq(Cell) /\ Len(Bytes(a, n)) = n
         /\ \A i \in 1..n : Bytes(a, n)[i] = Byte(a + i - 1)
<1>1. \A i \in 1..n : a + i - 1 \in Nat
  OBVIOUS
<1>2. \A i \in 1..n : Byte(a + i - 1) \in Cell
  BY <1>1, CellFacts
<1>3. Bytes(a, n) \in [1..n -> Cell]
  BY <1>2 DEF Bytes
<1>4. Bytes(a, n) \in Seq(Cell) /\ Len(Bytes(a, n)) = n
  BY <1>3, ListOf
<1> QED BY <1>4 DEF Bytes

LEMMA ZerosFacts ==
  ASSUME NEW n \in Nat
  PROVE  Zeros(n) \in Seq(Cell) /\ Len(Zeros(n)) = n
<1>1. Zeros(n) \in [1..n -> Cell]
  BY CellFacts DEF Zeros
<1> QED BY <1>1, ListOf

(* What a write at a position leaves of the file. *)
LEMMA OverlayFacts ==
  ASSUME NEW f \in Seq(Cell), NEW at \in Nat, NEW cells \in Seq(Cell)
  PROVE  /\ Overlay(f, at, cells) \in Seq(Cell)
         /\ Len(Overlay(f, at, cells)) =
              IF Len(f) < at + Len(cells) THEN at + Len(cells) ELSE Len(f)
<1> DEFINE n == IF Len(f) < at + Len(cells) THEN at + Len(cells) ELSE Len(f)
<1>1. n \in Nat /\ Len(f) \in Nat /\ Len(cells) \in Nat
  BY LenProperties
<1>2. ASSUME NEW i \in 1..n
      PROVE  (IF i \in at + 1..at + Len(cells) THEN cells[i - at]
              ELSE IF i <= Len(f) THEN f[i] ELSE Zero) \in Cell
  <2>1. CASE i \in at + 1..at + Len(cells)
    <3>1. i - at \in 1..Len(cells)
      BY <1>1, <2>1
    <3>2. cells[i - at] \in Cell
      BY <3>1, ElementOfSeq
    <3> QED BY <2>1, <3>2
  <2>2. CASE i \notin at + 1..at + Len(cells) /\ i <= Len(f)
    <3>1. i \in 1..Len(f)
      BY <1>1, <2>2
    <3>2. f[i] \in Cell
      BY <3>1, ElementOfSeq
    <3> QED BY <2>2, <3>2
  <2>3. CASE i \notin at + 1..at + Len(cells) /\ ~(i <= Len(f))
    BY <2>3, CellFacts
  <2> QED BY <2>1, <2>2, <2>3
<1>3. Overlay(f, at, cells) \in [1..n -> Cell]
  BY <1>2 DEF Overlay
<1> QED BY <1>1, <1>3, ListOf

(* What FlushActiveChunk makes of a stream. *)
LEMMA ChunkedFacts ==
  ASSUME NEW stream \in Seq(Cell), NEW c \in Nat,
         c * ChunkSize <= Len(stream)
  PROVE  /\ Chunked(stream, c) \in Seq(Cell)
         /\ Len(Chunked(stream, c)) = c * (ChunkSize + 1)
<1> DEFINE K == ChunkSize
           n == c * (K + 1)
           d(i) == (i - 1) \div (K + 1)
           k(i) == (i - 1) % (K + 1)
           cell(i) == IF k(i) = K THEN Checksum ELSE stream[d(i) * K + k(i) + 1]
<1>1. K \in Nat \ {0} /\ n \in Nat /\ Len(stream) \in Nat
  BY WritersAssumption, LenProperties, SMTT(30)
<1>2. Chunked(stream, c) = [i \in 1..n |-> cell(i)]
  BY DEF Chunked
<1>3. ASSUME NEW i \in 1..n PROVE d(i) \in Nat /\ k(i) \in 0..K /\ d(i) < c
  <2>1. i - 1 \in Nat /\ i - 1 < n /\ K + 1 \in Nat \ {0} /\ (K + 1) - 1 = K
    BY <1>1
  <2> QED BY <2>1, Division, QuotientBelow
<1> HIDE DEF d, k
<1>4. ASSUME NEW i \in 1..n PROVE cell(i) \in Cell
  <2>1. CASE k(i) = K
    BY <2>1, CellFacts DEF Checksum, Kinds
  <2>2. CASE k(i) # K
    <3>1. /\ d(i) + 1 \in Nat /\ d(i) + 1 <= c
          /\ (d(i) + 1) * K = d(i) * K + K /\ d(i) * K \in Nat
      <4>1. K \in Nat /\ d(i) \in Nat /\ d(i) + 1 \in Nat /\ d(i) + 1 <= c
        BY <1>1, <1>3
      <4> HIDE DEF K
      <4>2. (d(i) + 1) * K = d(i) * K + K /\ d(i) * K \in Nat
        BY <4>1, OneMore, Zenon
      <4> QED BY <4>1, <4>2, Zenon
    <3>2. (d(i) + 1) * K <= c * K /\ c * K \in Nat
      BY <1>1, <3>1, TimesMonotone
    <3>3. d(i) * K + k(i) + 1 \in 1..Len(stream)
      <4> DEFINE p == d(i) * K
                 q == c * K
      <4>1. /\ p \in Nat /\ q \in Nat /\ p + K <= q /\ q <= Len(stream)
            /\ k(i) \in 0..K /\ k(i) # K
        BY <1>3, <2>2, <3>1, <3>2
      <4> HIDE DEF p, q
      <4>2. p + k(i) + 1 \in 1..Len(stream)
        BY <1>1, <4>1
      <4> QED BY <4>2 DEF p
    <3>4. stream[d(i) * K + k(i) + 1] \in Cell
      BY <3>3, ElementOfSeq
    <3> QED BY <2>2, <3>4
  <2> QED BY <2>1, <2>2
<1> HIDE DEF n, cell
<1>5. Chunked(stream, c) \in [1..n -> Cell]
  BY <1>2, <1>4
<1>6. Chunked(stream, c) \in Seq(Cell) /\ Len(Chunked(stream, c)) = n
  BY <1>1, <1>5, ListOf
<1> QED BY <1>6 DEF n

---------------------------------------------------------------------------
(* Types.                                                                  *)

(* The walk is inside a run, or behind the last.                           *)
Walking ==
  /\ run \in 1..Len(runs) + 1 /\ offset \in Nat
  /\ ~AtEnd => offset < runs[run].length
  /\ \A a \in given : \E i \in DOMAIN runs : InRun(a, i)

(* What the writers hold.                                                  *)
Holding ==
  /\ file \in Seq(Cell)
  /\ buffer \in Seq(Cell) /\ Len(buffer) < ChunkSize
  /\ chunks \in Seq(Nat)

Settled == /\ format \in {"raw", "zdmp", "e01"}
           /\ runs \in Layouts /\ volume \in Volumes

Flags ==
  /\ phase \in {"closed", "open", "sealed", "failed"}
  /\ others \in 0..MaxOthers /\ ranOut \in BOOLEAN /\ linked \in BOOLEAN

Shape == Settled /\ Flags /\ Walking /\ Holding

LEMMA LayoutFacts ==
  ASSUME NEW rs \in Layouts
  PROVE  /\ Len(rs) \in Nat \ {0} /\ DOMAIN rs = 1..Len(rs)
         /\ \A i \in 1..Len(rs) : rs[i].base \in Nat /\ rs[i].length \in Nat \ {0}
         /\ \A i, j \in 1..Len(rs) :
              i < j => rs[i].base + rs[i].length <= rs[j].base
<1>1. rs \in Seq([base : Nat, length : Nat \ {0}]) /\ Len(rs) > 0
  BY LayoutsAssumption
<1>2. Len(rs) \in Nat \ {0} /\ DOMAIN rs = 1..Len(rs)
  BY <1>1, LenProperties
<1>3. \A i \in 1..Len(rs) : rs[i] \in [base : Nat, length : Nat \ {0}]
  BY <1>1, ElementOfSeq
<1>4. \A i, j \in DOMAIN rs : i < j => rs[i].base + rs[i].length <= rs[j].base
  BY LayoutsAssumption
<1> QED BY <1>2, <1>3, <1>4

LEMMA WalkFacts ==
  ASSUME Settled, Walking, ~AtEnd
  PROVE  /\ run \in 1..Len(runs) /\ run \in DOMAIN runs
         /\ Address \in Nat /\ RestOfRun \in Nat \ {0}
         /\ \A n \in 1..RestOfRun : \A i \in 0 .. n - 1 : InRun(Address + i, run)
<1>1. /\ Len(runs) \in Nat \ {0} /\ DOMAIN runs = 1..Len(runs)
      /\ \A i \in 1..Len(runs) : runs[i].base \in Nat /\ runs[i].length \in Nat \ {0}
  BY LayoutFacts DEF Settled
<1>2. run \in 1..Len(runs) /\ offset \in Nat /\ offset < runs[run].length
  BY <1>1 DEF Walking, AtEnd
<1>3. runs[run].base \in Nat /\ runs[run].length \in Nat
  BY <1>1, <1>2
<1>4. Address \in Nat /\ RestOfRun \in Nat \ {0}
  BY <1>2, <1>3, SMTT(30) DEF Address, RestOfRun
<1>5. ASSUME NEW n \in 1..RestOfRun, NEW i \in 0 .. n - 1
      PROVE  InRun(Address + i, run)
  <2> DEFINE b == runs[run].base
             l == runs[run].length
  <2>1. /\ b \in Nat /\ l \in Nat /\ offset \in Nat /\ offset < l
        /\ Address = b + offset /\ n \in 1 .. l - offset
    BY <1>2, <1>3 DEF Address, RestOfRun
  <2> HIDE DEF b, l
  <2>2. Address + i \in b .. b + l - 1
    BY <2>1
  <2> QED BY <2>2 DEF InRun, b, l
<1> QED BY <1>1, <1>2, <1>4, <1>5

LEMMA AdvanceWalks ==
  ASSUME Settled, Walking, ~AtEnd, runs' = runs, NEW n \in 1..RestOfRun,
         Advance(n), given' = given \/ given' = Handed(n)
  PROVE  Walking'
<1>1. /\ Len(runs) \in Nat \ {0} /\ DOMAIN runs = 1..Len(runs)
      /\ \A i \in 1..Len(runs) : runs[i].base \in Nat /\ runs[i].length \in Nat \ {0}
  BY LayoutFacts DEF Settled
<1>2. /\ run \in 1..Len(runs) /\ run \in DOMAIN runs /\ RestOfRun \in Nat \ {0}
      /\ \A i \in 0 .. n - 1 : InRun(Address + i, run)
  BY WalkFacts
<1>3. /\ run' \in 1..Len(runs) + 1 /\ offset' \in Nat
      /\ ~(run' > Len(runs)) => offset' < runs[run'].length
  <2>1. CASE n = RestOfRun
    <3>1. run' = run + 1 /\ offset' = 0
      BY <2>1 DEF Advance
    <3>2. ~(run' > Len(runs)) => run' \in 1..Len(runs)
      BY <1>1, <1>2, <3>1
    <3> QED BY <1>1, <1>2, <3>1, <3>2
  <2>2. CASE n # RestOfRun
    <3>1. run' = run /\ offset' = offset + n
      BY <2>2 DEF Advance
    <3>2. offset \in Nat /\ runs[run].length \in Nat
      BY <1>1, <1>2 DEF Walking
    <3>3. n < runs[run].length - offset /\ n \in Nat
      BY <1>2, <2>2 DEF RestOfRun
    <3> QED BY <1>1, <1>2, <3>1, <3>2, <3>3
  <2> QED BY <2>1, <2>2
<1>4. ASSUME NEW a \in given' PROVE \E i \in DOMAIN runs : InRun(a, i)
  <2>1. CASE a \in given
    BY <2>1 DEF Walking
  <2>2. CASE a \notin given
    <3>1. PICK i \in 0 .. n - 1 : a = Address + i
      BY <1>4, <2>2 DEF Handed
    <3> QED BY <1>2, <3>1
  <2> QED BY <2>1, <2>2
<1>5. \A a \in given' : \E i \in DOMAIN runs' : InRun(a, i)'
  BY <1>4 DEF InRun
<1> QED BY <1>3, <1>5 DEF Walking, AtEnd

LEMMA ChunkOffsetsFacts ==
  ASSUME NEW c \in Nat, file \in Seq(Cell)
  PROVE  ChunkOffsets(c) \in Seq(Nat) /\ Len(ChunkOffsets(c)) = c
<1>1. ASSUME NEW i \in 1..c
      PROVE  (Len(file) + (i - 1) * (ChunkSize + 1) - SectorsSectionOffset)
               % Word \in Nat
  <2>1. Len(file) \in Nat /\ ChunkSize \in Nat /\ Word \in Nat \ {0}
    BY LenProperties, WritersAssumption
  <2>2. SectorsSectionOffset = 3
    BY DEF SectorsSectionOffset, HeaderSections
  <2>3. (i - 1) * (ChunkSize + 1) \in Int
    BY <2>1
  <2> DEFINE p == Len(file) + (i - 1) * (ChunkSize + 1) - SectorsSectionOffset
  <2>4. p \in Int
    BY <2>1, <2>2, <2>3
  <2> HIDE DEF p
  <2>5. p % Word \in Nat
    BY <2>1, <2>4
  <2> QED BY <2>5 DEF p
<1>2. ChunkOffsets(c) \in [1..c -> Nat]
  BY <1>1 DEF ChunkOffsets
<1> QED BY <1>2, ListOf

LEMMA HeaderRunsFacts ==
  ASSUME Settled
  PROVE  HeaderRuns \in Seq([basePage : Nat, pageCount : Nat])
<1> DEFINE n == Min2(Len(runs), MaxHeaderRuns)
<1>1. n \in Nat /\ n <= Len(runs) /\ Len(runs) \in Nat
  BY LayoutFacts, WritersAssumption DEF Settled, Min2
<1>2. ASSUME NEW i \in 1..n
      PROVE  [basePage |-> runs[i].base \div PageSize,
              pageCount |-> runs[i].length \div PageSize]
               \in [basePage : Nat, pageCount : Nat]
  <2>1. i \in 1..Len(runs)
    BY <1>1
  <2>2. runs[i].base \in Nat /\ runs[i].length \in Nat
    BY <2>1, LayoutFacts DEF Settled
  <2>3. PageSize \in Nat \ {0}
    BY WritersAssumption
  <2>4. runs[i].base \div PageSize \in Nat /\ runs[i].length \div PageSize \in Nat
    BY <2>2, <2>3, Division
  <2> QED BY <2>4
<1> HIDE DEF n
<1>3. HeaderRuns \in [1..n -> [basePage : Nat, pageCount : Nat]]
  BY <1>2 DEF HeaderRuns, n
<1> QED BY <1>1, <1>3, ListOf

LEMMA LastSectionsFacts ==
  ASSUME NEW list \in Seq(Nat)
  PROVE  LastSections(list) \in Seq(Cell) /\ Len(LastSections(list)) = 3
<1>1. Table(list) \in Cell /\ Mark("hash") \in Cell /\ Mark("done") \in Cell
  BY CellFacts DEF Kinds
<1> QED BY <1>1 DEF LastSections

LEMMA HeaderSectionsFacts ==
  /\ HeaderSections \in Seq(Cell) /\ Len(HeaderSections) = 3
  /\ SectorsSectionOffset = 3
<1>1. Mark("file") \in Cell /\ Mark("header") \in Cell /\ Mark("volume") \in Cell
  BY CellFacts DEF Kinds
<1> QED BY <1>1 DEF HeaderSections, SectorsSectionOffset

LEMMA LogicalSizeFacts ==
  ASSUME Settled
  PROVE  /\ LogicalSize \in Nat \ {0}
         /\ \A i \in DOMAIN runs : runs[i].base + runs[i].length <= LogicalSize
<1>1. /\ Len(runs) \in Nat \ {0} /\ DOMAIN runs = 1..Len(runs)
      /\ \A i \in 1..Len(runs) : runs[i].base \in Nat /\ runs[i].length \in Nat \ {0}
      /\ \A i, j \in 1..Len(runs) :
           i < j => runs[i].base + runs[i].length <= runs[j].base
  BY LayoutFacts DEF Settled
<1>2. Len(runs) \in 1..Len(runs)
  BY <1>1
<1>3. LogicalSize \in Nat \ {0}
  BY <1>1, <1>2 DEF LogicalSize
<1>4. ASSUME NEW i \in DOMAIN runs
      PROVE  runs[i].base + runs[i].length <= LogicalSize
  <2>1. CASE i = Len(runs)
    BY <1>1, <1>2, <2>1 DEF LogicalSize
  <2>2. CASE i # Len(runs)
    <3>1. i \in 1..Len(runs) /\ i < Len(runs)
      BY <1>1, <2>2
    <3>2. runs[i].base + runs[i].length <= runs[Len(runs)].base
      BY <1>1, <1>2, <3>1
    <3> QED BY <1>1, <1>2, <3>1, <3>2 DEF LogicalSize
  <2> QED BY <2>1, <2>2
<1> QED BY <1>3, <1>4

LEMMA PhysicalBelowFacts ==
  ASSUME Settled
  PROVE  /\ PhysicalBelow(1) = 0
         /\ \A i \in 1..Len(runs) + 1 : PhysicalBelow(i) \in Nat
         /\ \A i \in 1..Len(runs) :
              PhysicalBelow(i + 1) = PhysicalBelow(i) + runs[i].length
<1> DEFINE n == Len(runs)
<1>1. n \in Nat \ {0} /\ \A k \in 1..n : runs[k].length \in Nat
  BY LayoutFacts DEF Settled
<1>2. ASSUME NEW i PROVE PhysicalBelow(i) = LengthOfFirst(runs, i - 1)
  BY DEF PhysicalBelow, Below, LengthOfFirst, MapThenSumSet, MapThenFoldSet
<1> HIDE DEF n
<1>3. /\ LengthOfFirst(runs, 0) = 0
      /\ \A m \in 0..n : LengthOfFirst(runs, m) \in Nat
      /\ \A k \in 1..n :
           LengthOfFirst(runs, k) = LengthOfFirst(runs, k - 1) + runs[k].length
  BY <1>1, LengthsGrow
<1>4. 1 - 1 = 0 /\ \A i \in 1..n + 1 : i - 1 \in 0..n
  BY <1>1
<1>5. \A i \in 1..n : (i + 1) - 1 = i
  BY <1>1
<1>6. PhysicalBelow(1) = 0
  BY <1>2, <1>3, <1>4
<1>7. \A i \in 1..n + 1 : PhysicalBelow(i) \in Nat
  BY <1>2, <1>3, <1>4
<1>8. \A i \in 1..n :
        PhysicalBelow(i + 1) = PhysicalBelow(i) + runs[i].length
  BY <1>2, <1>3, <1>5
<1> QED BY <1>6, <1>7, <1>8 DEF n

(* The chunks of a stream, and what is left for the buffer. *)
LEMMA StreamFacts ==
  ASSUME Holding, NEW a \in Nat, NEW n \in Nat
  PROVE  LET stream == buffer \o Bytes(a, n)
             c == FullChunks(Len(stream))
             rest == SubSeq(stream, c * ChunkSize + 1, Len(stream))
         IN  /\ c \in Nat /\ stream \in Seq(Cell)
             /\ Len(stream) = Len(buffer) + n
             /\ c * ChunkSize <= Len(stream)
             /\ Chunked(stream, c) \in Seq(Cell)
             /\ rest \in Seq(Cell) /\ Len(rest) < ChunkSize
<1> DEFINE stream == buffer \o Bytes(a, n)
           L == Len(stream)
           K == ChunkSize
           c == FullChunks(L)
           rest == SubSeq(stream, c * K + 1, L)
<1>1. /\ stream \in Seq(Cell) /\ L = Len(buffer) + n
      /\ L \in Nat /\ K \in Nat \ {0}
  <2>1. /\ Bytes(a, n) \in Seq(Cell) /\ Len(Bytes(a, n)) = n
        /\ buffer \in Seq(Cell)
    BY BytesFacts DEF Holding
  <2>2. stream \in Seq(Cell) /\ L = Len(buffer) + n
    BY <2>1, ConcatProperties
  <2> QED BY <2>1, <2>2, LenProperties, WritersAssumption
<1> HIDE DEF stream, K, L
<1>2. c \in Nat /\ c * K \in Nat /\ L - c * K \in 0 .. K - 1
  <2>1. c = L \div K
    BY DEF FullChunks, K
  <2>2. c \in Nat /\ c * K \in Nat /\ L = c * K + (L % K) /\ L % K \in 0 .. K - 1
    BY <1>1, <2>1, Division, ZenonT(30)
  <2> HIDE DEF c
  <2> DEFINE p == c * K
             q == L % K
  <2>3. p \in Nat /\ L = p + q /\ q \in 0 .. K - 1 /\ c \in Nat
    BY <2>2
  <2> HIDE DEF p, q
  <2>4. L - p \in 0 .. K - 1
    BY <1>1, <2>3
  <2> QED BY <2>3, <2>4 DEF p
<1> HIDE DEF c
<1> DEFINE p == c * K
<1>3. p \in Nat /\ L - p \in 0 .. K - 1
  BY <1>2
<1> HIDE DEF p
<1>4. p <= L /\ p + 1 \in Int /\ L \in Int /\ \A i \in p + 1 .. L : i \in 1..L
  BY <1>1, <1>3
<1>5. \A i \in p + 1 .. L : stream[i] \in Cell
  BY <1>1, <1>4, ElementOfSeq DEF L
<1>6. /\ SubSeq(stream, p + 1, L) \in Seq(Cell)
      /\ Len(SubSeq(stream, p + 1, L)) = IF p + 1 <= L THEN L - (p + 1) + 1 ELSE 0
  BY <1>4, <1>5, SubSeqProperties
<1>7. Len(SubSeq(stream, p + 1, L)) < K
  BY <1>1, <1>3, <1>6
<1>8. c * ChunkSize <= Len(stream)
  BY <1>4 DEF p, K, L
<1>9. Chunked(stream, c) \in Seq(Cell)
  BY <1>1, <1>2, <1>8, ChunkedFacts
<1> QED BY <1>1, <1>2, <1>6, <1>7, <1>8, <1>9 DEF p, K, L, c, stream

LEMMA InitShape == Init => Shape
<1> SUFFICES ASSUME Init PROVE Shape
  OBVIOUS
<1>1. Settled
  BY DEF Init, Settled, EffectiveFormat
<1>2. /\ Len(runs) \in Nat \ {0}
      /\ runs[1].length \in Nat \ {0}
  <2>1. Len(runs) \in Nat \ {0} /\ 1 \in 1..Len(runs)
    BY <1>1, LayoutFacts DEF Settled
  <2> QED BY <1>1, <2>1, LayoutFacts DEF Settled
<1>3. Flags
  <2>1. MaxOthers \in Nat
    BY WritersAssumption
  <2>2. phase = "closed" /\ others = 0 /\ ranOut = FALSE /\ linked = FALSE
    BY DEF Init
  <2>3. others \in 0..MaxOthers
    BY <2>1, <2>2
  <2>4. ranOut \in BOOLEAN /\ linked \in BOOLEAN
    BY <2>2, Zenon
  <2> QED BY <2>2, <2>3, <2>4, Zenon DEF Flags
<1>4. Walking
  <2>1. run = 1 /\ offset = 0 /\ given = {}
    BY DEF Init
  <2> QED BY <1>2, <2>1 DEF Walking
<1>5. Holding
  <2>1. ChunkSize \in Nat \ {0}
    BY WritersAssumption
  <2>2. <<>> \in Seq(Cell) /\ Len(<<>>) = 0 /\ <<>> \in Seq(Nat)
    OBVIOUS
  <2> QED BY <2>1, <2>2 DEF Init, Holding
<1> QED BY <1>1, <1>3, <1>4, <1>5 DEF Shape

LEMMA FailShape ==
  ASSUME Shape, NEW full \in BOOLEAN, Fail(full)
  PROVE  Shape'
<1>1. Settled'
  BY DEF Shape, Settled, Fail, setting
<1>2. Flags'
  BY DEF Shape, Flags, Fail
<1>3. Walking'
  BY DEF Shape, Walking, AtEnd, InRun, Fail, setting, walk
<1>4. Holding'
  BY DEF Shape, Holding, Fail
<1> QED BY <1>1, <1>2, <1>3, <1>4 DEF Shape

LEMMA OpensShape ==
  ASSUME Shape, NEW f \in Seq(Cell), Opens(f)
  PROVE  Shape'
<1>1. CASE StoreFails(f, {})
  BY <1>1, FailShape DEF StoreFails
<1>2. CASE /\ Stores(f, {}) /\ phase' = "open"
           /\ UNCHANGED <<setting, buffer, chunks, walk, others, given, linked>>
  <2>1. Settled'
    BY <1>2 DEF Shape, Settled, setting
  <2>2. Flags'
    BY <1>2 DEF Shape, Flags, Stores
  <2>3. Walking'
    BY <1>2 DEF Shape, Walking, AtEnd, InRun, setting, walk
  <2>4. Holding'
    BY <1>2 DEF Shape, Holding, Stores
  <2> QED BY <2>1, <2>2, <2>3, <2>4 DEF Shape
<1> QED BY <1>1, <1>2 DEF Opens

LEMMA AcceptedShape ==
  ASSUME Shape, ~AtEnd, NEW n \in 1..RestOfRun, Accepted(n),
         NEW f, NEW written, Stores(f, written), f \in Seq(Cell),
         buffer' \in Seq(Cell), Len(buffer') < ChunkSize, chunks' \in Seq(Nat)
  PROVE  Shape'
<1>1. Settled'
  BY DEF Shape, Settled, Accepted, setting
<1>2. Flags'
  BY DEF Shape, Flags, Accepted, Stores
<1>3. Walking'
  BY AdvanceWalks DEF Shape, Accepted, setting
<1>4. Holding'
  BY DEF Holding, Stores
<1> QED BY <1>1, <1>2, <1>3, <1>4 DEF Shape

LEMMA PlaceInRuns ==
  ASSUME Settled, NEW a \in Nat
  PROVE  CalculateFileOffset(a) \in Nat
<1>1. /\ Len(runs) \in Nat \ {0} /\ DOMAIN runs = 1..Len(runs)
      /\ \A i \in 1..Len(runs) : runs[i].base \in Nat /\ runs[i].length \in Nat \ {0}
  BY LayoutFacts DEF Settled
<1>2. CASE \E i \in DOMAIN runs : InRun(a, i)
  <2> DEFINE i == CHOOSE j \in DOMAIN runs : InRun(a, j)
  <2>1. i \in DOMAIN runs /\ InRun(a, i)
    BY <1>2
  <2> HIDE DEF i
  <2>2. a - runs[i].base \in Nat /\ RunFileOffset(i) \in Nat
    <3>1. i \in 1..Len(runs) /\ runs[i].base \in Nat
      BY <1>1, <2>1
    <3>2. PhysicalBelow(i) \in Nat
      BY <1>1, <3>1, PhysicalBelowFacts
    <3> QED BY <1>1, <2>1, <3>1, <3>2 DEF InRun, RunFileOffset, HeaderSize
  <2>3. CalculateFileOffset(a) = RunFileOffset(i) + (a - runs[i].base)
    BY <1>2 DEF CalculateFileOffset, i
  <2> QED BY <2>2, <2>3
<1>3. CASE ~ \E i \in DOMAIN runs : InRun(a, i)
  BY <1>3 DEF CalculateFileOffset, HeaderSize
<1> QED BY <1>2, <1>3

LEMMA WriteAtShape == Shape /\ WriteAt => Shape'
<1> SUFFICES ASSUME Shape, WriteAt PROVE Shape'
  OBVIOUS
<1>1. PICK n \in 1..Min2(MaxTransfer, RestOfRun) :
        RawWriteAt(n) \/ ZdmpWriteAt(n) \/ E01WriteAt(n)
  BY DEF WriteAt
<1>2. ~AtEnd /\ Settled /\ Walking /\ Holding
  BY DEF WriteAt, Shape
<1>3. /\ n \in 1..RestOfRun /\ n \in Nat /\ Address \in Nat
  <2>1. RestOfRun \in Nat \ {0} /\ Address \in Nat
    BY <1>2, WalkFacts
  <2>2. MaxTransfer \in Nat
    BY WritersAssumption
  <2> QED BY <2>1, <2>2 DEF Min2
<1> DEFINE cells == Bytes(Address, n)
<1>4. cells \in Seq(Cell) /\ Len(cells) = n /\ file \in Seq(Cell)
  BY <1>2, <1>3, BytesFacts DEF Holding
<1> HIDE DEF cells
<1>5. ASSUME NEW f, StoreFails(f, Handed(n)) PROVE Shape'
  BY <1>5, FailShape DEF StoreFails
<1>6. CASE RawWriteAt(n)
  <2> DEFINE f == Overlay(file, Address, cells)
  <2>1. CASE Stores(f, Handed(n)) /\ Accepted(n) /\ UNCHANGED <<buffer, chunks>>
    <3>1. f \in Seq(Cell)
      BY <1>3, <1>4, OverlayFacts
    <3> HIDE DEF f
    <3>2. buffer' \in Seq(Cell) /\ Len(buffer') < ChunkSize /\ chunks' \in Seq(Nat)
      BY <1>2, <2>1 DEF Holding
    <3> QED BY <1>2, <1>3, <2>1, <3>1, <3>2, AcceptedShape
  <2> QED BY <1>5, <1>6, <2>1 DEF RawWriteAt, cells
<1>7. CASE ZdmpWriteAt(n)
  <2> DEFINE f == Overlay(file, CalculateFileOffset(Address), cells)
  <2>1. CASE Stores(f, Handed(n)) /\ Accepted(n) /\ UNCHANGED <<buffer, chunks>>
    <3>1. f \in Seq(Cell)
      BY <1>2, <1>3, <1>4, PlaceInRuns, OverlayFacts
    <3> HIDE DEF f
    <3>2. buffer' \in Seq(Cell) /\ Len(buffer') < ChunkSize /\ chunks' \in Seq(Nat)
      BY <1>2, <2>1 DEF Holding
    <3> QED BY <1>2, <1>3, <2>1, <3>1, <3>2, AcceptedShape
  <2> QED BY <1>5, <1>7, <2>1 DEF ZdmpWriteAt, cells
<1>8. CASE E01WriteAt(n)
  <2> DEFINE stream == buffer \o Bytes(Address, n)
             c == FullChunks(Len(stream))
             rest == SubSeq(stream, c * ChunkSize + 1, Len(stream))
             f == file \o Chunked(stream, c)
  <2>1. CASE /\ Stores(f, Handed(n)) /\ Accepted(n)
             /\ buffer' = rest /\ chunks' = chunks \o ChunkOffsets(c)
    <3>1. /\ c \in Nat /\ Chunked(stream, c) \in Seq(Cell)
          /\ rest \in Seq(Cell) /\ Len(rest) < ChunkSize
      BY <1>2, <1>3, StreamFacts
    <3> HIDE DEF stream, c, rest
    <3>2. f \in Seq(Cell)
      BY <1>4, <3>1, ConcatProperties
    <3>3. ChunkOffsets(c) \in Seq(Nat) /\ chunks \in Seq(Nat)
      BY <1>2, <3>1, ChunkOffsetsFacts DEF Holding
    <3>4. chunks' \in Seq(Nat)
      BY <2>1, <3>3, ConcatProperties
    <3> HIDE DEF f
    <3> QED BY <1>2, <1>3, <2>1, <3>1, <3>2, <3>4, AcceptedShape
  <2> QED BY <1>5, <1>8, <2>1 DEF E01WriteAt
<1> QED BY <1>1, <1>6, <1>7, <1>8

(* What is skipped is at most the rest of the run. *)
LEMMA SkipFits ==
  ASSUME Settled, Walking, Skip
  PROVE  \E n \in 1..RestOfRun : Advance(n)
<1> DEFINE left == PageSize - (Address % PageSize)
<1>1. Address \in Nat /\ RestOfRun \in Nat \ {0}
  BY WalkFacts DEF Skip
<1>2. Address % PageSize \in 0 .. PageSize - 1 /\ PageSize \in Nat \ {0}
  BY <1>1, WritersAssumption, Division
<1>3. left \in Nat \ {0}
  BY <1>2
<1>4. PICK n \in 1..Min2(left, RestOfRun) : Advance(n)
  BY DEF Skip
<1> HIDE DEF left
<1>5. n \in 1..RestOfRun
  BY <1>1, <1>3, <1>4 DEF Min2
<1> QED BY <1>4, <1>5

LEMMA OtherShape ==
  ASSUME Shape, [FlushAndClose \/ OthersTake \/ Skip]_vars
  PROVE  Shape'
<1>1. Settled' /\ Holding'
  BY DEF Shape, Settled, Holding, FlushAndClose, OthersTake, Skip, Fail, vars,
         setting
<1>2. Flags'
  BY WritersAssumption
     DEF Shape, Flags, FlushAndClose, OthersTake, Skip, Fail, vars, setting
<1>3. CASE Skip
  <2>1. ~AtEnd /\ Settled /\ Walking /\ runs' = runs /\ given' = given
    BY <1>3 DEF Shape, Skip, setting
  <2>2. PICK n \in 1..RestOfRun : Advance(n)
    BY <1>3, <2>1, SkipFits
  <2>3. Walking'
    BY <2>1, <2>2, AdvanceWalks
  <2> QED BY <1>1, <1>2, <2>3 DEF Shape
<1>4. CASE ~Skip
  <2>1. Walking'
    BY <1>4 DEF Shape, Walking, AtEnd, InRun, FlushAndClose, OthersTake, Fail, vars,
                setting, walk
  <2> QED BY <1>1, <1>2, <2>1 DEF Shape
<1> QED BY <1>3, <1>4

(* What E01FlushAndClose leaves: the last chunk is filled up. *)
LEMMA SealShape == Shape /\ E01FlushAndClose => Shape'
<1> SUFFICES ASSUME Shape, E01FlushAndClose PROVE Shape'
  OBVIOUS
<1> DEFINE rest == IF buffer = <<>> THEN 0 ELSE 1
           padded == buffer \o Zeros(rest * ChunkSize - Len(buffer))
           full == file \o Chunked(padded, rest)
           all == chunks \o ChunkOffsets(rest)
           end == Len(full)
<1>1. PICK back \in BOOLEAN, rewrite \in BOOLEAN, forth \in BOOLEAN :
        LET at == IF back THEN SectorsSectionOffset ELSE end
            f == IF rewrite THEN Overlay(full, at, <<Sectors(end)>>) ELSE full
            on == IF forth THEN end ELSE IF rewrite THEN at + 1 ELSE at
            sealed == Overlay(f, on, LastSections(all))
        IN \/ /\ Stores(sealed, given) /\ phase' = "sealed"
              /\ chunks' = all /\ buffer' = <<>>
              /\ linked' = (back /\ rewrite /\ forth)
              /\ UNCHANGED <<setting, walk, others, given>>
           \/ StoreFails(sealed, given)
  BY DEF E01FlushAndClose
<1>2. /\ file \in Seq(Cell) /\ buffer \in Seq(Cell) /\ chunks \in Seq(Nat)
      /\ Len(buffer) \in Nat /\ Len(buffer) < ChunkSize
      /\ ChunkSize \in Nat \ {0}
  BY LenProperties, WritersAssumption DEF Shape, Holding
<1>3. /\ rest \in Nat
      /\ padded \in Seq(Cell) /\ Len(padded) = rest * ChunkSize
  <2> DEFINE n == rest * ChunkSize - Len(buffer)
  <2>1. n \in Nat /\ rest \in Nat /\ rest * ChunkSize \in Nat
        /\ Len(buffer) + n = rest * ChunkSize
    <3>1. CASE buffer = <<>>
      BY <1>2, <3>1
    <3>2. CASE buffer # <<>>
      BY <1>2, <3>2
    <3> QED BY <3>1, <3>2
  <2> HIDE DEF n, rest
  <2>2. Zeros(n) \in Seq(Cell) /\ Len(Zeros(n)) = n
    BY <2>1, ZerosFacts
  <2>3. buffer \o Zeros(n) \in Seq(Cell)
        /\ Len(buffer \o Zeros(n)) = Len(buffer) + n
    BY <1>2, <2>2, ConcatProperties
  <2> QED BY <2>1, <2>3 DEF n
<1> HIDE DEF rest, padded
<1>4. /\ Chunked(padded, rest) \in Seq(Cell)
  <2>1. rest * ChunkSize <= Len(padded) /\ Len(padded) \in Nat
    BY <1>3, LenProperties
  <2> QED BY <1>3, <2>1, ChunkedFacts
<1>5. full \in Seq(Cell) /\ end \in Nat
  BY <1>2, <1>4, ConcatProperties, LenProperties
<1>6. all \in Seq(Nat)
  <2>1. ChunkOffsets(rest) \in Seq(Nat)
    BY <1>2, <1>3, ChunkOffsetsFacts
  <2> QED BY <1>2, <2>1, ConcatProperties
<1> HIDE DEF full, all, end
<1> DEFINE at == IF back THEN SectorsSectionOffset ELSE end
           f == IF rewrite THEN Overlay(full, at, <<Sectors(end)>>) ELSE full
           on == IF forth THEN end ELSE IF rewrite THEN at + 1 ELSE at
           sealed == Overlay(f, on, LastSections(all))
<1>7. at \in Nat /\ on \in Nat
  BY <1>5, HeaderSectionsFacts
<1> HIDE DEF at
<1>8. f \in Seq(Cell)
  <2>1. Sectors(end) \in Cell
    BY <1>5, CellFacts
  <2>2. <<Sectors(end)>> \in Seq(Cell)
    BY <2>1
  <2> QED BY <1>5, <1>7, <2>2, OverlayFacts
<1> HIDE DEF f, on
<1>9. sealed \in Seq(Cell)
  BY <1>6, <1>7, <1>8, LastSectionsFacts, OverlayFacts
<1> HIDE DEF sealed
<1>10. \/ /\ Stores(sealed, given) /\ phase' = "sealed"
          /\ chunks' = all /\ buffer' = <<>>
          /\ linked' = (back /\ rewrite /\ forth)
          /\ UNCHANGED <<setting, walk, others, given>>
       \/ StoreFails(sealed, given)
  BY <1>1 DEF sealed, f, on, at
<1>11. CASE StoreFails(sealed, given)
  BY <1>11, FailShape DEF StoreFails
<1>12. CASE /\ Stores(sealed, given) /\ phase' = "sealed"
            /\ chunks' = all /\ buffer' = <<>>
            /\ linked' = (back /\ rewrite /\ forth)
            /\ UNCHANGED <<setting, walk, others, given>>
  <2>1. Settled'
    BY <1>12 DEF Shape, Settled, setting
  <2>2. Flags'
    BY <1>12 DEF Shape, Flags, Stores
  <2>3. Walking'
    BY <1>12 DEF Shape, Walking, AtEnd, InRun, setting, walk
  <2>4. Holding'
    <3>1. <<>> \in Seq(Cell) /\ Len(<<>>) = 0
      OBVIOUS
    <3> QED BY <1>2, <1>6, <1>9, <1>12, <3>1 DEF Holding, Stores
  <2> QED BY <2>1, <2>2, <2>3, <2>4 DEF Shape
<1> QED BY <1>10, <1>11, <1>12

LEMMA OpenShape ==
  Shape /\ (RawPreflightAndOpen \/ ZdmpPreflightAndOpen \/ E01PreflightAndOpen)
    => Shape'
<1> SUFFICES ASSUME Shape, RawPreflightAndOpen \/ ZdmpPreflightAndOpen
                             \/ E01PreflightAndOpen
             PROVE  Shape'
  OBVIOUS
<1>1. CASE RawPreflightAndOpen
  <2>1. Zeros(LogicalSize) \in Seq(Cell)
    BY LogicalSizeFacts, ZerosFacts DEF Shape
  <2> QED BY <1>1, <2>1, OpensShape, FailShape DEF RawPreflightAndOpen
<1>2. CASE ZdmpPreflightAndOpen
  <2>1. DumpHeader(HeaderRuns) \in Cell
    BY HeaderRunsFacts, CellFacts DEF Shape
  <2>2. <<DumpHeader(HeaderRuns)>> \in Seq(Cell)
    BY <2>1
  <2> QED BY <1>2, <2>2, OpensShape DEF ZdmpPreflightAndOpen
<1>3. CASE E01PreflightAndOpen
  <2>1. Sectors(0) \in Cell
    BY CellFacts
  <2>2. Append(HeaderSections, Sectors(0)) \in Seq(Cell)
    BY <2>1, HeaderSectionsFacts, AppendProperties
  <2> QED BY <1>3, <2>2, OpensShape DEF E01PreflightAndOpen
<1> QED BY <1>1, <1>2, <1>3

LEMMA NextShape == Shape /\ [Next]_vars => Shape'
BY WriteAtShape, OtherShape, SealShape, OpenShape DEF Next

LEMMA ShapeAlways == Spec => []Shape
BY InitShape, NextShape, PTL DEF Spec

(* Every variable has its type: the walk of the engine is always inside a  *)
(* run, the files hold cells, and no full chunk stays in the buffer.       *)
THEOREM TypeCorrect == Spec => []TypeOK
<1>1. Shape => TypeOK
  <2> SUFFICES ASSUME Shape PROVE TypeOK
    OBVIOUS
  <2>1. \A i \in DOMAIN file : file[i].kind \in Kinds
    <3>1. DOMAIN file = 1..Len(file) /\ file \in Seq(Cell)
      BY LenProperties DEF Shape, Holding
    <3>2. \A i \in 1..Len(file) : file[i] \in Cell
      BY <3>1, ElementOfSeq
    <3> QED BY <3>1, <3>2, CellKinds
  <2>2. DOMAIN chunks = 1..Len(chunks)
    BY LenProperties DEF Shape, Holding
  <2>3. {ranOut, linked} \subseteq BOOLEAN /\ others \in 0..MaxOthers
    BY DEF Shape, Flags
  <2> QED
    BY <2>1, <2>2, <2>3
       DEF Shape, Settled, Flags, Walking, Holding, TypeOK, Kinds
<1> QED BY <1>1, ShapeAlways, PTL

---------------------------------------------------------------------------
(* The space a raw image takes.                                            *)

(* The granules of one run: at most two more than fill it.                 *)
LEMMA GranulesOfRun ==
  ASSUME NEW b \in Nat, NEW l \in Nat \ {0}, NEW g \in Nat \ {0}
  PROVE  LET cover == (b \div g) .. ((b + l - 1) \div g) IN
         /\ \A a \in b .. b + l - 1 : a \div g \in cover
         /\ IsFiniteSet(cover) /\ Cardinality(cover) \in Nat
         /\ Cardinality(cover) * g <= l + 2 * g
<1> DEFINE e == b + l - 1
           lo == b \div g
           hi == e \div g
<1>1. e \in Nat /\ e = b + l - 1
  OBVIOUS
<1> HIDE DEF e
<1>2. /\ lo \in Nat /\ b % g \in 0 .. g - 1 /\ b = lo * g + (b % g) /\ lo * g \in Nat
  BY Division
<1>3. /\ hi \in Nat /\ e % g \in 0 .. g - 1 /\ e = hi * g + (e % g) /\ hi * g \in Nat
  BY <1>1, Division
<1>4. ASSUME NEW a \in b .. e PROVE a \div g \in lo .. hi
  <2> DEFINE d == a \div g
  <2>1. a \in Nat
    BY <1>1
  <2>2. d \in Nat /\ a % g \in 0 .. g - 1 /\ a = d * g + (a % g) /\ d * g \in Nat
    BY <2>1, Division
  <2> HIDE DEF d, lo, hi
  <2>3. (d + 1) * g = d * g + g /\ (hi + 1) * g = hi * g + g
    BY <1>3, <2>2, OneMore
  <2>4. d + 1 <= lo => (d + 1) * g <= lo * g
    BY <1>2, <2>2, TimesMonotone
  <2>5. hi + 1 <= d => (hi + 1) * g <= d * g
    BY <1>3, <2>2, TimesMonotone
  <2> DEFINE p == d * g
             q == lo * g
             r == hi * g
             s == a % g
             t == b % g
             u == e % g
  <2>6. /\ p \in Nat /\ q \in Nat /\ r \in Nat
        /\ s \in 0 .. g - 1 /\ t \in 0 .. g - 1 /\ u \in 0 .. g - 1
        /\ a = p + s /\ b = q + t /\ e = r + u
        /\ d + 1 <= lo => p + g <= q
        /\ hi + 1 <= d => r + g <= p
    BY <1>2, <1>3, <2>2, <2>3, <2>4, <2>5
  <2> HIDE DEF p, q, r, s, t, u
  <2>7. lo <= d /\ d <= hi
    BY <1>1, <1>2, <1>3, <1>4, <2>2, <2>6
  <2> QED BY <1>2, <1>3, <2>2, <2>7 DEF d
<1>5. IsFiniteSet(lo .. hi) /\ Cardinality(lo .. hi) = IF lo <= hi THEN hi - lo + 1 ELSE 0
  <2>1. lo \in Int /\ hi \in Int
    BY <1>2, <1>3
  <2> HIDE DEF lo, hi
  <2>2. Cardinality(lo .. hi) = IF lo > hi THEN 0 ELSE hi - lo + 1
    BY <2>1, FS_Interval
  <2> QED BY <2>1, <2>2, FS_Interval
<1>6. Cardinality(lo .. hi) \in Nat /\ Cardinality(lo .. hi) * g <= l + 2 * g
  <2> HIDE DEF lo, hi
  <2>1. CASE lo <= hi
    <3>1. Cardinality(lo .. hi) = hi - lo + 1 /\ hi - lo + 1 \in Nat
      BY <1>2, <1>3, <1>5, <2>1
    <3>2. (hi - lo + 1) * g = hi * g - lo * g + g
      BY <1>2, <1>3
    <3> DEFINE q == lo * g
               r == hi * g
               t == b % g
               u == e % g
    <3>3. /\ q \in Nat /\ r \in Nat /\ t \in 0 .. g - 1 /\ u \in 0 .. g - 1
          /\ b = q + t /\ e = r + u
      BY <1>2, <1>3
    <3> HIDE DEF q, r, t, u
    <3>4. r - q + g <= l + 2 * g
      BY <1>1, <3>3
    <3> QED BY <3>1, <3>2, <3>4 DEF q, r
  <2>2. CASE ~(lo <= hi)
    <3>1. Cardinality(lo .. hi) = 0
      BY <1>5, <2>2
    <3> QED BY <3>1
  <2> QED BY <2>1, <2>2
<1> QED BY <1>4, <1>5, <1>6 DEF e

(* The granules of what was written, run by run. *)
LEMMA GranulesOfRuns ==
  ASSUME Settled, NEW written,
         \A a \in written : \E i \in DOMAIN runs : InRun(a, i)
  PROVE  LET all == {a \div Granule : a \in written} IN
         /\ IsFiniteSet(all) /\ Cardinality(all) \in Nat
         /\ Granule * Cardinality(all)
              <= PhysicalSize + Len(runs) * 2 * Granule
         /\ PhysicalSize \in Nat
<1> DEFINE G == Granule
           n == Len(runs)
           Low(m) == {a \in written : \E i \in 1..m : InRun(a, i)}
           Parts(m) == {a \div G : a \in Low(m)}
           Few(m) == /\ IsFiniteSet(Parts(m)) /\ Cardinality(Parts(m)) \in Nat
                     /\ Cardinality(Parts(m)) * G
                          <= PhysicalBelow(m + 1) + (m * 2) * G
           S == {m \in Nat : m <= n => Few(m)}
<1>1. /\ n \in Nat \ {0} /\ DOMAIN runs = 1..n /\ G \in Nat \ {0}
      /\ \A i \in 1..n : runs[i].base \in Nat /\ runs[i].length \in Nat \ {0}
  BY LayoutFacts, WritersAssumption DEF Settled
<1>2. /\ PhysicalBelow(1) = 0
      /\ \A i \in 1..n + 1 : PhysicalBelow(i) \in Nat
      /\ \A i \in 1..n :
           PhysicalBelow(i + 1) = PhysicalBelow(i) + runs[i].length
  BY PhysicalBelowFacts
<1>3. ASSUME NEW m \in Nat, m + 1 <= n, Few(m) PROVE Few(m + 1)
  <2> DEFINE b == runs[m + 1].base
             l == runs[m + 1].length
             cover == (b \div G) .. ((b + l - 1) \div G)
  <2>1. m + 1 \in 1..n /\ b \in Nat /\ l \in Nat \ {0}
    BY <1>1, <1>3
  <2>2. \A i \in 1 .. m + 1 : i \in 1..m \/ i = m + 1
    BY <1>3
  <2> HIDE DEF b, l, G
  <2>3. /\ \A a \in b .. b + l - 1 : a \div G \in cover
        /\ IsFiniteSet(cover) /\ Cardinality(cover) \in Nat
        /\ Cardinality(cover) * G <= l + 2 * G
    BY <1>1, <2>1, GranulesOfRun
  <2> HIDE DEF cover
  <2>4. Parts(m + 1) \subseteq Parts(m) \cup cover
    <3> SUFFICES ASSUME NEW a \in Low(m + 1)
                 PROVE  a \div G \in Parts(m) \cup cover
      OBVIOUS
    <3>1. PICK i \in 1 .. m + 1 : InRun(a, i)
      OBVIOUS
    <3>2. CASE i \in 1..m
      <4>1. a \in Low(m)
        BY <3>1, <3>2
      <4> HIDE DEF Low
      <4> QED BY <4>1
    <3>3. CASE i = m + 1
      <4>1. a \in b .. b + l - 1
        BY <3>1, <3>3 DEF InRun, b, l
      <4> QED BY <2>3, <4>1
    <3> QED BY <2>2, <3>2, <3>3
  <2> DEFINE P == Parts(m)
             Q == Parts(m + 1)
  <2>5. IsFiniteSet(P) /\ Cardinality(P) \in Nat
        /\ Cardinality(P) * G <= PhysicalBelow(m + 1) + (m * 2) * G
    BY <1>3
  <2>6. Q \in SUBSET (P \cup cover)
    BY <2>4
  <2> HIDE DEF P, Q
  <2>7. /\ IsFiniteSet(P \cup cover)
        /\ Cardinality(P \cup cover) =
             Cardinality(P) + Cardinality(cover) - Cardinality(P \cap cover)
    BY <2>3, <2>5, FS_Union
  <2>8. Cardinality(P \cap cover) \in Nat
    <3>1. P \cap cover \in SUBSET P
      OBVIOUS
    <3>2. IsFiniteSet(P \cap cover)
      BY <2>5, <3>1, FS_Subset
    <3> QED BY <3>2, FS_CardinalityType
  <2>9. IsFiniteSet(Q) /\ Cardinality(Q) <= Cardinality(P \cup cover)
    BY <2>6, <2>7, FS_Subset
  <2>10. Cardinality(Q) \in Nat
    BY <2>9, FS_CardinalityType
  <2>11. Cardinality(Q) <= Cardinality(P) + Cardinality(cover)
    BY <2>3, <2>5, <2>7, <2>8, <2>9, <2>10
  <2>12. Cardinality(Q) * G <= Cardinality(P) * G + Cardinality(cover) * G
    <3> DEFINE q == Cardinality(Q)
               p == Cardinality(P)
               k == Cardinality(cover)
    <3>1. q \in Nat /\ p \in Nat /\ k \in Nat /\ q <= p + k /\ G \in Nat
      BY <1>1, <2>3, <2>5, <2>10, <2>11
    <3> HIDE DEF p, q, k
    <3>2. p + k \in Nat /\ (p + k) * G = p * G + k * G
      BY <3>1
    <3>3. q * G <= (p + k) * G
      BY <3>1, <3>2, TimesMonotone
    <3>4. q * G <= p * G + k * G
      BY <3>2, <3>3
    <3> QED BY <3>4 DEF p, q, k
  <2>13. PhysicalBelow((m + 1) + 1) = PhysicalBelow(m + 1) + l
         /\ PhysicalBelow(m + 1) \in Nat
    BY <1>1, <1>2, <2>1 DEF l
  <2>14. ((m + 1) * 2) * G = (m * 2) * G + 2 * G /\ (m * 2) * G \in Nat
         /\ 2 * G \in Nat /\ Cardinality(P) * G \in Nat
         /\ Cardinality(cover) * G \in Nat /\ Cardinality(Q) * G \in Nat
    <3>1. \A x \in Nat : x * G \in Nat
      BY <1>1
    <3>2. m * 2 \in Nat /\ (m + 1) * 2 = m * 2 + 2 /\ 2 \in Nat
      OBVIOUS
    <3>3. (m * 2 + 2) * G = (m * 2) * G + 2 * G
      BY <1>1
    <3> QED BY <2>3, <2>5, <2>10, <3>1, <3>2, <3>3
  <2>15. Cardinality(Q) * G <= PhysicalBelow((m + 1) + 1) + ((m + 1) * 2) * G
    <3> DEFINE q == Cardinality(Q) * G
               p == Cardinality(P) * G
               k == Cardinality(cover) * G
               x == PhysicalBelow(m + 1)
               x1 == PhysicalBelow((m + 1) + 1)
               y == (m * 2) * G
               y1 == ((m + 1) * 2) * G
               z == 2 * G
    <3>1. /\ q \in Nat /\ p \in Nat /\ k \in Nat /\ x \in Nat /\ y \in Nat
          /\ z \in Nat /\ l \in Nat /\ x1 = x + l /\ y1 = y + z
          /\ q <= p + k /\ p <= x + y /\ k <= l + z
      BY <2>1, <2>3, <2>5, <2>12, <2>13, <2>14
    <3> HIDE DEF q, p, k, x, x1, y, y1, z
    <3>2. q <= x1 + y1
      BY <3>1
    <3> QED BY <3>2 DEF q, x1, y1
  <2> QED BY <2>9, <2>10, <2>15 DEF Q
<1>4. 0 \in S
  <2>1. Parts(0) = {}
    <3>1. \A i \in 1..0 : FALSE
      OBVIOUS
    <3> QED BY <3>1
  <2>2. IsFiniteSet({}) /\ Cardinality({}) = 0
    BY FS_EmptySet
  <2>3. PhysicalBelow(0 + 1) = 0
    <3>1. 0 + 1 = 1
      OBVIOUS
    <3> QED BY <1>2, <3>1, Zenon
  <2>4. (0 * 2) * G = 0 /\ 0 * G = 0
    BY <1>1
  <2> HIDE DEF Parts
  <2>5. Cardinality(Parts(0)) = 0 /\ IsFiniteSet(Parts(0))
    BY <2>1, <2>2
  <2>6. Cardinality(Parts(0)) * G <= PhysicalBelow(0 + 1) + (0 * 2) * G
    BY <2>3, <2>4, <2>5
  <2>7. Few(0)
    BY <2>5, <2>6
  <2> HIDE DEF Few
  <2> QED BY <2>7
<1>5. Few(n)
  <2> HIDE DEF Few
  <2>1. \A m \in Nat : m \in S => m + 1 \in S
    <3> TAKE m \in Nat
    <3> SUFFICES ASSUME m \in S, m + 1 <= n PROVE Few(m + 1)
      BY <1>1
    <3>1. Few(m)
      BY <1>1
    <3> QED BY <1>3, <3>1
  <2>2. S \in SUBSET Nat
    OBVIOUS
  <2> HIDE DEF S
  <2>3. n \in S
    BY <1>1, <1>4, <2>1, <2>2, SetInduction
  <2> QED BY <1>1, <2>3 DEF S
<1>6. Parts(n) = {a \div Granule : a \in written}
  <2>1. Low(n) = written
    BY <1>1
  <2> QED BY <2>1
<1>7. PhysicalSize = PhysicalBelow(n + 1) /\ PhysicalSize \in Nat
  BY <1>1, <1>2 DEF PhysicalSize
<1> HIDE DEF Parts
<1>8. Granule * Cardinality(Parts(n)) = Cardinality(Parts(n)) * G
  BY <1>1, <1>5
<1> QED BY <1>5, <1>6, <1>7, <1>8

(* Other programs leave room enough.                                       *)
Roomy == others + Len(runs) * 2 * Granule <= Headroom

LEMMA PreflightFits ==
  ASSUME Settled, format = "raw", Preflight, others \in Nat, Roomy,
         NEW f, Len(f) = LogicalSize,
         NEW written, \A a \in written : \E i \in DOMAIN runs : InRun(a, i)
  PROVE  Fits(f, written)
<1> DEFINE size == PhysicalSize
           granules == Len(runs) * 2 * Granule
           used == Granule * Cardinality({a \div Granule : a \in written})
<1>1. /\ size \in Nat /\ used <= size + granules
      /\ used \in Nat
  <2> DEFINE count == Cardinality({a \div Granule : a \in written})
  <2>1. Granule \in Nat
    BY WritersAssumption
  <2>2. /\ count \in Nat /\ Granule * count <= size + granules
        /\ size \in Nat
    BY GranulesOfRuns
  <2> HIDE DEF count, size, granules
  <2>3. Granule * count \in Nat
    BY <2>1, <2>2
  <2> QED BY <2>2, <2>3 DEF count
<1>2. granules \in Nat /\ Headroom \in Nat
  <2>1. Len(runs) \in Nat /\ Granule \in Nat /\ Headroom \in Nat
    BY LayoutFacts, WritersAssumption DEF Settled
  <2> QED BY <2>1
<1>3. LogicalSize \in Nat /\ volume.free \in Nat
  BY LogicalSizeFacts, VolumesAssumption DEF Settled
<1>4. others + granules <= Headroom
  BY DEF Roomy
<1>5. volume.fat => Len(f) <= FatLimit
  BY DEF Preflight
<1>6. (IF volume.sparse THEN size ELSE LogicalSize) + Headroom <= volume.free
  BY DEF Preflight
<1>7. Allocated(f, written) = IF volume.sparse THEN used ELSE LogicalSize
  BY DEF Allocated
<1> HIDE DEF size, granules, used
<1>8. Allocated(f, written) + others <= volume.free
  <2>1. CASE volume.sparse
    BY <1>1, <1>2, <1>3, <1>4, <1>6, <1>7, <2>1
  <2>2. CASE ~volume.sparse
    BY <1>1, <1>2, <1>3, <1>4, <1>6, <1>7, <2>2
  <2> QED BY <2>1, <2>2
<1> QED BY <1>5, <1>8 DEF Fits

(* A raw image is opened with its whole logical size, and only after the   *)
(* preflight has passed.                                                   *)
Sized ==
  /\ phase \in {"closed", "open", "sealed"} => ~ranOut
  /\ format = "raw" /\ phase \in {"open", "sealed"} =>
       Preflight /\ Len(file) = LogicalSize

RawRoom == format = "raw" => Sized /\ RawNeverRunsOut

LEMMA RoomyBefore ==
  ASSUME Shape, runs' = runs, others' \in Nat, others' >= others, Roomy'
  PROVE  Roomy
<1> DEFINE granules == Len(runs) * 2 * Granule
<1>1. granules \in Nat
  <2>1. Len(runs) \in Nat /\ Granule \in Nat
    BY LayoutFacts, WritersAssumption DEF Shape, Settled
  <2> QED BY <2>1
<1>2. others' + granules <= Headroom
  BY DEF Roomy
<1>3. others \in Nat /\ Headroom \in Nat
  BY WritersAssumption DEF Shape, Flags
<1> HIDE DEF granules
<1>4. \A x, y \in Nat : y >= x /\ y + granules <= Headroom
                         => x + granules <= Headroom
  BY <1>1, <1>3
<1>5. others + granules <= Headroom
  BY <1>2, <1>3, <1>4
<1> QED BY <1>5 DEF Roomy, granules

(* A step of a raw writer that fails for no lack of room. *)
LEMMA RawRoomKept ==
  ASSUME Shape, Shape', RawRoom, UNCHANGED setting, UNCHANGED ranOut,
         Len(file') = Len(file), others' >= others,
         \/ phase' = phase
         \/ phase = "open" /\ phase' = "sealed"
         \/ phase' = "failed"
  PROVE  RawRoom'
<1> SUFFICES ASSUME format = "raw" PROVE (Sized /\ RawNeverRunsOut)'
  BY DEF RawRoom, setting
<1>1. runs' = runs /\ format' = format /\ volume' = volume
  BY DEF setting
<1>2. LogicalSize' = LogicalSize /\ Preflight' = Preflight
  BY <1>1 DEF LogicalSize, Preflight, PhysicalSize, PhysicalBelow, Below,
              MapThenSumSet, MapThenFoldSet
<1>3. Sized'
  BY <1>1, <1>2 DEF RawRoom, Sized, Shape, Flags
<1>4. RawNeverRunsOut'
  <2>1. Roomy' => Roomy
    BY <1>1, RoomyBefore DEF Shape, Flags
  <2> QED BY <1>1, <2>1 DEF RawRoom, RawNeverRunsOut, Roomy
<1> QED BY <1>3, <1>4

LEMMA FailRoom ==
  ASSUME Shape, Shape', RawRoom, NEW f, NEW written, StoreFails(f, written),
         format = "raw" /\ Roomy => Fits(f, written)
  PROVE  RawRoom'
<1>1. CASE Fail(FALSE)
  <2>1. UNCHANGED ranOut
    BY <1>1 DEF Fail, Shape, Flags
  <2>2. others' >= others
    BY <1>1 DEF Fail, Shape, Flags
  <2> QED BY <1>1, <2>1, <2>2, RawRoomKept DEF Fail
<1>2. CASE ~Fits(f, written) /\ Fail(TRUE)
  <2>1. format' = format /\ runs' = runs /\ others' = others /\ phase' = "failed"
    BY <1>2 DEF Fail, setting
  <2>2. ~(format' = "raw" /\ Roomy')
    BY <1>2, <2>1 DEF Roomy
  <2> QED BY <2>1, <2>2 DEF RawRoom, Sized, RawNeverRunsOut, Roomy
<1> QED BY <1>1, <1>2 DEF StoreFails

LEMMA InitRoom == Init => RawRoom
BY DEF Init, RawRoom, Sized, RawNeverRunsOut

LEMMA OpenRoom ==
  Shape /\ Shape' /\ RawRoom /\ RawPreflightAndOpen => RawRoom'
<1> SUFFICES ASSUME Shape, Shape', RawRoom, RawPreflightAndOpen PROVE RawRoom'
  OBVIOUS
<1> DEFINE f == Zeros(LogicalSize)
<1>1. format = "raw" /\ phase = "closed" /\ Settled /\ others \in Nat
  BY DEF RawPreflightAndOpen, Shape, Flags
<1>2. Len(f) = LogicalSize
  BY <1>1, LogicalSizeFacts, ZerosFacts
<1> HIDE DEF f
<1>3. CASE ~Preflight /\ Fail(FALSE)
  <2>1. UNCHANGED ranOut
    BY <1>3 DEF Fail, Shape, Flags
  <2>2. others' >= others
    BY <1>1, <1>3 DEF Fail
  <2> QED BY <1>3, <2>1, <2>2, RawRoomKept DEF Fail
<1>4. CASE Preflight /\ Opens(f)
  <2>1. CASE StoreFails(f, {})
    <3>1. Roomy => Fits(f, {})
      BY <1>1, <1>2, <1>4, PreflightFits
    <3> QED BY <2>1, <3>1, FailRoom
  <2>2. CASE /\ Stores(f, {}) /\ phase' = "open" /\ UNCHANGED setting
    <3>1. runs' = runs /\ format' = format /\ volume' = volume
      BY <2>2 DEF setting
    <3>2. LogicalSize' = LogicalSize /\ Preflight' = Preflight
      BY <3>1 DEF LogicalSize, Preflight, PhysicalSize, PhysicalBelow, Below,
                  MapThenSumSet, MapThenFoldSet
    <3>3. ranOut' = ranOut /\ ~ranOut /\ file' = f
      BY <1>1, <2>2 DEF Stores, RawRoom, Sized
    <3> QED BY <1>2, <1>4, <2>2, <3>2, <3>3 DEF RawRoom, Sized, RawNeverRunsOut
  <2> QED BY <1>4, <2>1, <2>2 DEF Opens
<1> QED BY <1>3, <1>4 DEF RawPreflightAndOpen, f

LEMMA WriteRoom ==
  Shape /\ Shape' /\ RawRoom /\ WriteAt => RawRoom'
<1> SUFFICES ASSUME Shape, Shape', RawRoom, WriteAt PROVE RawRoom'
  OBVIOUS
<1>1. CASE format # "raw"
  <2>1. format' = format
    BY DEF WriteAt, RawWriteAt, ZdmpWriteAt, E01WriteAt, Accepted, StoreFails,
           Fail, setting
  <2> QED BY <1>1, <2>1 DEF RawRoom
<1>2. CASE format = "raw"
  <2>1. PICK n \in 1..Min2(MaxTransfer, RestOfRun) : RawWriteAt(n)
    BY <1>2 DEF WriteAt, ZdmpWriteAt, E01WriteAt
  <2>2. ~AtEnd /\ Settled /\ Walking /\ Holding /\ phase = "open"
        /\ others \in Nat
    BY DEF WriteAt, Shape, Flags
  <2>3. /\ n \in 1..RestOfRun /\ n \in Nat /\ Address \in Nat
    <3>1. RestOfRun \in Nat \ {0} /\ Address \in Nat
      BY <2>2, WalkFacts
    <3>2. MaxTransfer \in Nat
      BY WritersAssumption
    <3> QED BY <3>1, <3>2 DEF Min2
  <2> DEFINE cells == Bytes(Address, n)
             f == Overlay(file, Address, cells)
  <2>4. /\ cells \in Seq(Cell) /\ Len(cells) = n
        /\ file \in Seq(Cell) /\ Len(file) = LogicalSize /\ Preflight
    BY <1>2, <2>2, <2>3, BytesFacts DEF Holding, RawRoom, Sized
  <2> HIDE DEF cells
  <2>5. Address + n <= LogicalSize /\ LogicalSize \in Nat
    <3>1. run \in DOMAIN runs /\ run \in 1..Len(runs)
      BY <2>2, WalkFacts
    <3>2. /\ runs[run].base + runs[run].length <= LogicalSize
          /\ LogicalSize \in Nat
      BY <2>2, <3>1, LogicalSizeFacts
    <3>3. /\ runs[run].base \in Nat /\ runs[run].length \in Nat
          /\ offset \in Nat
      BY <2>2, <3>1, LayoutFacts DEF Settled, Walking
    <3> QED BY <2>3, <3>2, <3>3 DEF Address, RestOfRun
  <2>6. Len(f) = LogicalSize
    BY <2>3, <2>4, <2>5, OverlayFacts
  <2> HIDE DEF f
  <2>7. \A a \in Handed(n) : \E i \in DOMAIN runs : InRun(a, i)
    <3> SUFFICES ASSUME NEW a \in Handed(n)
                 PROVE  \E i \in DOMAIN runs : InRun(a, i)
      OBVIOUS
    <3>1. CASE a \in given
      BY <2>2, <3>1 DEF Walking
    <3>2. CASE a \notin given
      <4>1. PICK i \in 0 .. n - 1 : a = Address + i
        BY <3>2 DEF Handed
      <4>2. InRun(Address + i, run) /\ run \in DOMAIN runs
        BY <2>2, <2>3, WalkFacts
      <4> QED BY <4>1, <4>2
    <3> QED BY <3>1, <3>2
  <2>8. CASE Stores(f, Handed(n)) /\ Accepted(n)
    <3>1. UNCHANGED setting /\ UNCHANGED ranOut /\ phase' = phase
          /\ others' = others /\ file' = f
      BY <2>8 DEF Stores, Accepted
    <3>2. others' >= others
      BY <2>2, <3>1
    <3>3. Len(file') = Len(file)
      BY <2>4, <2>6, <3>1
    <3> QED BY <3>1, <3>2, <3>3, RawRoomKept
  <2>9. CASE StoreFails(f, Handed(n))
    <3>1. Roomy => Fits(f, Handed(n))
      BY <1>2, <2>2, <2>4, <2>6, <2>7, PreflightFits
    <3> QED BY <2>9, <3>1, FailRoom
  <2> QED BY <2>1, <2>8, <2>9 DEF RawWriteAt, f, cells
<1> QED BY <1>1, <1>2

LEMMA NextRoom == Shape /\ RawRoom /\ [Next]_vars => RawRoom'
<1> SUFFICES ASSUME Shape, RawRoom, [Next]_vars PROVE RawRoom'
  OBVIOUS
<1>1. Shape'
  BY NextShape
<1>2. others \in Nat /\ format' = format
  BY <1>1 DEF Shape, Flags, Next, vars, setting, RawPreflightAndOpen,
     ZdmpPreflightAndOpen, E01PreflightAndOpen, Opens, WriteAt, RawWriteAt,
     ZdmpWriteAt, E01WriteAt, Accepted, StoreFails, Fail, Skip, FlushAndClose,
     E01FlushAndClose, OthersTake
<1>3. CASE format # "raw"
  BY <1>2, <1>3 DEF RawRoom
<1>4. CASE format = "raw"
  <2>1. CASE RawPreflightAndOpen
    BY <1>1, <2>1, OpenRoom
  <2>2. CASE WriteAt
    BY <1>1, <2>2, WriteRoom
  <2>3. CASE FlushAndClose \/ Skip \/ OthersTake \/ UNCHANGED vars
    <3>1. UNCHANGED setting /\ UNCHANGED ranOut /\ file' = file
      BY <2>3 DEF FlushAndClose, Skip, OthersTake, vars, Fail, Shape, Flags
    <3>2. others' >= others
      BY <1>2, <2>3 DEF FlushAndClose, Skip, OthersTake, vars, Fail
    <3>3. \/ phase' = phase
          \/ phase = "open" /\ phase' = "sealed"
          \/ phase' = "failed"
      BY <2>3 DEF FlushAndClose, Skip, OthersTake, vars, Fail
    <3> QED BY <1>1, <3>1, <3>2, <3>3, RawRoomKept
  <2> QED
    BY <1>4, <2>1, <2>2, <2>3
       DEF Next, ZdmpPreflightAndOpen, E01PreflightAndOpen, E01FlushAndClose
<1> QED BY <1>3, <1>4

(* The preflight of a raw image is enough: while other programs take no    *)
(* more than the headroom less two granules for every run, neither opening *)
(* nor a write is refused for lack of space or for the size of the file.   *)
THEOREM RawFitsAlways == Spec => []RawNeverRunsOut
<1>1. RawRoom => RawNeverRunsOut
  BY DEF RawRoom, RawNeverRunsOut
<1> QED BY <1>1, InitRoom, NextRoom, ShapeAlways, PTL DEF Spec

---------------------------------------------------------------------------
(* Addresses and their places.                                             *)

InSomeRun(a) == \E i \in DOMAIN runs : InRun(a, i)

LEMMA RunUnique ==
  ASSUME Settled, NEW a, NEW i \in DOMAIN runs, NEW j \in DOMAIN runs,
         InRun(a, i), InRun(a, j)
  PROVE  i = j
<1>1. /\ DOMAIN runs = 1..Len(runs) /\ Len(runs) \in Nat
      /\ runs[i].base \in Nat /\ runs[i].length \in Nat
      /\ runs[j].base \in Nat /\ runs[j].length \in Nat
      /\ i < j => runs[i].base + runs[i].length <= runs[j].base
      /\ j < i => runs[j].base + runs[j].length <= runs[i].base
  BY LayoutFacts DEF Settled
<1>2. a \in Int /\ i \in Int /\ j \in Int
  BY <1>1 DEF InRun
<1>3. ~(i < j)
  BY <1>1, <1>2, SMTT(30) DEF InRun
<1>4. ~(j < i)
  BY <1>1, <1>2, SMTT(30) DEF InRun
<1> QED BY <1>2, <1>3, <1>4

LEMMA PlaceInRun ==
  ASSUME Settled, NEW a, NEW i \in DOMAIN runs, InRun(a, i)
  PROVE  /\ a \in Nat /\ i \in 1..Len(runs)
         /\ Place(a) = PhysicalBelow(i) + (a - runs[i].base)
         /\ CalculateFileOffset(a) = HeaderSize + Place(a)
         /\ Place(a) \in Nat
         /\ PhysicalBelow(i) <= Place(a) /\ Place(a) < PhysicalBelow(i + 1)
         /\ PhysicalBelow(i) \in Nat /\ PhysicalBelow(i + 1) \in Nat
         /\ runs[i].base \in Nat /\ runs[i].length \in Nat
<1>1. /\ DOMAIN runs = 1..Len(runs) /\ Len(runs) \in Nat
      /\ i \in 1..Len(runs) /\ runs[i].base \in Nat /\ runs[i].length \in Nat
  BY LayoutFacts DEF Settled
<1>2. /\ PhysicalBelow(i) \in Nat
      /\ PhysicalBelow(i + 1) = PhysicalBelow(i) + runs[i].length
  BY <1>1, PhysicalBelowFacts
<1> DEFINE j == CHOOSE k \in DOMAIN runs : InRun(a, k)
<1>3. j \in DOMAIN runs /\ InRun(a, j)
  OBVIOUS
<1> HIDE DEF j
<1>4. j = i
  BY <1>3, RunUnique
<1>5. Place(a) = PhysicalBelow(i) + (a - runs[i].base)
  BY <1>4 DEF Place, j
<1>6. CalculateFileOffset(a) = RunFileOffset(i) + (a - runs[i].base)
  BY <1>4 DEF CalculateFileOffset, j
<1>7. /\ a - runs[i].base \in Nat /\ a - runs[i].base < runs[i].length
      /\ a \in Nat
  BY <1>1, SMTT(30) DEF InRun
<1> DEFINE d == a - runs[i].base
<1>8. Place(a) = PhysicalBelow(i) + d /\ d \in Nat /\ d < runs[i].length
      /\ CalculateFileOffset(a) = (HeaderSize + PhysicalBelow(i)) + d
      /\ HeaderSize \in Nat
  BY <1>5, <1>6, <1>7 DEF RunFileOffset, HeaderSize
<1> HIDE DEF d
<1>9. /\ CalculateFileOffset(a) = HeaderSize + Place(a)
      /\ Place(a) \in Nat
      /\ PhysicalBelow(i) <= Place(a) /\ Place(a) < PhysicalBelow(i + 1)
      /\ PhysicalBelow(i + 1) \in Nat
  <2> DEFINE q == PhysicalBelow(i)
             l == runs[i].length
  <2>1. /\ q \in Nat /\ l \in Nat /\ PhysicalBelow(i + 1) = q + l
        /\ Place(a) = q + d /\ d \in Nat /\ d < l
    BY <1>1, <1>2, <1>8
  <2>2. CalculateFileOffset(a) = (HeaderSize + q) + d /\ HeaderSize \in Nat
    BY <1>8
  <2> HIDE DEF q, l
  <2>3. CalculateFileOffset(a) = HeaderSize + Place(a)
    BY <2>1, <2>2
  <2>4. /\ Place(a) \in Nat /\ q <= Place(a) /\ Place(a) < PhysicalBelow(i + 1)
        /\ PhysicalBelow(i + 1) \in Nat
    BY <2>1
  <2> QED BY <2>3, <2>4 DEF q
<1> QED BY <1>1, <1>2, <1>5, <1>7, <1>9

LEMMA BelowMonotone ==
  ASSUME Settled, NEW i \in 1..Len(runs) + 1, NEW j \in 1..Len(runs) + 1, i <= j
  PROVE  PhysicalBelow(i) <= PhysicalBelow(j)
<1> DEFINE n == Len(runs)
           S == {k \in Nat : i + k <= n + 1 => PhysicalBelow(i) <= PhysicalBelow(i + k)}
<1>1. /\ n \in Nat /\ \A k \in 1..n : runs[k].length \in Nat
      /\ \A k \in 1..n + 1 : PhysicalBelow(k) \in Nat
      /\ \A k \in 1..n : PhysicalBelow(k + 1) = PhysicalBelow(k) + runs[k].length
  BY LayoutFacts, PhysicalBelowFacts DEF Settled
<1> HIDE DEF n
<1>2. i \in 1..n + 1 /\ j \in 1..n + 1 /\ j - i \in Nat /\ i + (j - i) = j
  BY <1>1 DEF n
<1>3. 0 \in S
  <2>1. i + 0 = i
    BY <1>2
  <2> QED BY <1>1, <1>2, <2>1
<1>4. ASSUME NEW k \in Nat, k \in S PROVE k + 1 \in S
  <2> SUFFICES ASSUME i + (k + 1) <= n + 1
               PROVE  PhysicalBelow(i) <= PhysicalBelow(i + (k + 1))
    OBVIOUS
  <2>1. i + k \in 1..n /\ i + k \in 1..n + 1 /\ i + (k + 1) = (i + k) + 1
        /\ i + k <= n + 1
    BY <1>1, <1>2
  <2>2. PhysicalBelow(i) <= PhysicalBelow(i + k)
    BY <1>4, <2>1
  <2>3. PhysicalBelow((i + k) + 1) = PhysicalBelow(i + k) + runs[i + k].length
    BY <1>1, <2>1
  <2>4. /\ PhysicalBelow(i) \in Nat /\ PhysicalBelow(i + k) \in Nat
        /\ runs[i + k].length \in Nat
    BY <1>1, <1>2, <2>1
  <2>5. PhysicalBelow(i) <= PhysicalBelow((i + k) + 1)
    BY <2>2, <2>3, <2>4
  <2> QED BY <2>1, <2>5
<1>5. j - i \in S
  <2>1. S \in SUBSET Nat
    OBVIOUS
  <2> HIDE DEF S
  <2> QED BY <1>2, <1>3, <1>4, <2>1, SetInduction
<1>6. PhysicalBelow(i) <= PhysicalBelow(i + (j - i))
  BY <1>1, <1>2, <1>5
<1> QED BY <1>2, <1>6

(* The place grows with the address. *)
LEMMA PlaceOrder ==
  ASSUME Settled, NEW a, NEW b, InSomeRun(a), InSomeRun(b), a < b
  PROVE  Place(a) < Place(b) /\ Place(a) \in Nat /\ Place(b) \in Nat
<1>1. PICK i \in DOMAIN runs : InRun(a, i)
  BY DEF InSomeRun
<1>2. PICK j \in DOMAIN runs : InRun(b, j)
  BY DEF InSomeRun
<1>3. /\ a \in Nat /\ i \in 1..Len(runs)
      /\ Place(a) = PhysicalBelow(i) + (a - runs[i].base) /\ Place(a) \in Nat
      /\ Place(a) < PhysicalBelow(i + 1) /\ PhysicalBelow(i + 1) \in Nat
      /\ PhysicalBelow(i) \in Nat
      /\ runs[i].base \in Nat /\ runs[i].length \in Nat
  BY <1>1, PlaceInRun
<1>4. /\ b \in Nat /\ j \in 1..Len(runs)
      /\ Place(b) = PhysicalBelow(j) + (b - runs[j].base) /\ Place(b) \in Nat
      /\ PhysicalBelow(j) <= Place(b) /\ PhysicalBelow(j) \in Nat
      /\ runs[j].base \in Nat /\ runs[j].length \in Nat
  BY <1>2, PlaceInRun
<1>5. /\ Len(runs) \in Nat
      /\ j < i => runs[j].base + runs[j].length <= runs[i].base
  BY <1>3, <1>4, LayoutFacts DEF Settled
<1>6. ~(j < i)
  <2>1. runs[i].base <= a /\ b < runs[j].base + runs[j].length
    BY <1>1, <1>2, <1>3, <1>4, SMTT(30) DEF InRun
  <2>2. runs[j].base + runs[j].length <= runs[i].base => b < a
    <3>1. /\ a \in Nat /\ b \in Nat /\ runs[i].base \in Nat
          /\ runs[j].base \in Nat /\ runs[j].length \in Nat
      BY <1>3, <1>4
    <3> DEFINE e == runs[j].base + runs[j].length
    <3>2. e \in Nat /\ b < e /\ runs[i].base <= a
      BY <2>1, <3>1
    <3> HIDE DEF e
    <3>3. e <= runs[i].base => b < a
      BY <3>1, <3>2
    <3> QED BY <3>3 DEF e
  <2>3. ~(b < a)
    BY <1>3, <1>4
  <2> QED BY <1>5, <2>2, <2>3
<1>7. CASE i = j
  BY <1>3, <1>4, <1>7, SMTT(30)
<1>8. CASE i # j
  <2>1. i + 1 \in 1..Len(runs) + 1 /\ j \in 1..Len(runs) + 1 /\ i + 1 <= j
    <3>1. i \in 1..Len(runs) /\ j \in 1..Len(runs) /\ Len(runs) \in Nat
      BY <1>3, <1>4, <1>5
    <3> QED BY <1>6, <1>8, <3>1
  <2>2. PhysicalBelow(i + 1) <= PhysicalBelow(j)
    BY <2>1, BelowMonotone
  <2>3. /\ Place(a) < PhysicalBelow(i + 1) /\ PhysicalBelow(j) <= Place(b)
        /\ Place(a) \in Nat /\ Place(b) \in Nat
        /\ PhysicalBelow(i + 1) \in Nat /\ PhysicalBelow(j) \in Nat
    BY <1>3, <1>4
  <2> QED BY <2>2, <2>3
<1> QED BY <1>7, <1>8

LEMMA PlaceInjective ==
  ASSUME Settled, NEW a, NEW b, InSomeRun(a), InSomeRun(b), Place(a) = Place(b)
  PROVE  a = b
<1>1. a \in Nat /\ b \in Nat
  BY PlaceInRun DEF InSomeRun
<1>2. ~(a < b) /\ ~(b < a)
  BY PlaceOrder
<1> QED BY <1>1, <1>2

(* Every place is that of an address. *)
LEMMA PlaceReached ==
  ASSUME Settled, NEW q \in Nat, q < PhysicalSize
  PROVE  \E a : InSomeRun(a) /\ Place(a) = q
<1> DEFINE n == Len(runs)
           Some(m) == \E i \in 1..m : PhysicalBelow(i) <= q /\ q < PhysicalBelow(i + 1)
           S == {m \in Nat : m <= n /\ q < PhysicalBelow(m + 1) => Some(m)}
<1>1. /\ n \in Nat /\ DOMAIN runs = 1..n
      /\ \A k \in 1..n : runs[k].base \in Nat /\ runs[k].length \in Nat
      /\ PhysicalBelow(1) = 0
      /\ \A k \in 1..n + 1 : PhysicalBelow(k) \in Nat
      /\ \A k \in 1..n : PhysicalBelow(k + 1) = PhysicalBelow(k) + runs[k].length
  BY LayoutFacts, PhysicalBelowFacts DEF Settled
<1>2. q < PhysicalBelow(n + 1)
  BY DEF PhysicalSize
<1> HIDE DEF n
<1>3. 0 \in S
  <2>1. ~(q < PhysicalBelow(0 + 1))
    <3>1. 0 + 1 = 1
      OBVIOUS
    <3>2. ~(q < PhysicalBelow(1))
      BY <1>1
    <3> QED BY <3>1, <3>2, Zenon
  <2> HIDE DEF Some
  <2> QED BY <2>1
<1>4. ASSUME NEW m \in Nat, m \in S PROVE m + 1 \in S
  <2> SUFFICES ASSUME m + 1 <= n, q < PhysicalBelow((m + 1) + 1)
               PROVE  Some(m + 1)
    OBVIOUS
  <2>1. m + 1 \in 1..n + 1 /\ m + 1 \in 1 .. m + 1 /\ m <= n
    BY <1>1
  <2>2. CASE PhysicalBelow(m + 1) <= q
    BY <2>1, <2>2
  <2>3. CASE ~(PhysicalBelow(m + 1) <= q)
    <3>1. q < PhysicalBelow(m + 1)
      BY <1>1, <2>1, <2>3
    <3>2. Some(m)
      BY <1>4, <2>1, <3>1
    <3> QED BY <3>2
  <2> QED BY <2>2, <2>3
<1>5. n \in S
  <2>1. S \in SUBSET Nat
    OBVIOUS
  <2> HIDE DEF S
  <2> QED BY <1>1, <1>3, <1>4, <2>1, SetInduction
<1>6. PICK i \in 1..n : PhysicalBelow(i) <= q /\ q < PhysicalBelow(i + 1)
  BY <1>1, <1>2, <1>5
<1> DEFINE a == runs[i].base + (q - PhysicalBelow(i))
<1>7. /\ i \in DOMAIN runs /\ PhysicalBelow(i) \in Nat
      /\ runs[i].base \in Nat /\ runs[i].length \in Nat
      /\ PhysicalBelow(i + 1) = PhysicalBelow(i) + runs[i].length
  <2>1. i \in 1..n + 1
    BY <1>1
  <2> QED BY <1>1, <2>1
<1>8. /\ a \in runs[i].base .. runs[i].base + runs[i].length - 1
      /\ a - runs[i].base = q - PhysicalBelow(i)
  BY <1>6, <1>7
<1> HIDE DEF a
<1>9. InRun(a, i)
  BY <1>8 DEF InRun
<1>10. Place(a) = PhysicalBelow(i) + (a - runs[i].base)
  BY <1>7, <1>9, PlaceInRun
<1>11. Place(a) = q
  BY <1>7, <1>8, <1>10
<1> QED BY <1>7, <1>9, <1>11 DEF InSomeRun

---------------------------------------------------------------------------
(* What a raw image and a crash dump hold.                                 *)

(* Where in the file a byte goes. *)
Position(a) == IF format = "raw" THEN a ELSE HeaderSize + Place(a)

(* f holds the bytes of some addresses, each at its position. *)
Holds(f, addresses) ==
  \A a \in addresses : Position(a) < Len(f) /\ f[Position(a) + 1] = Byte(a)

Kept ==
  /\ phase = "closed" => given = {}
  /\ phase \in {"open", "sealed"} =>
       /\ format # "e01" => Holds(file, given)
       /\ format = "zdmp" => /\ Len(file) > 0
                             /\ file[1] = DumpHeader(HeaderRuns)

LEMMA OverlayCells ==
  ASSUME NEW f \in Seq(Cell), NEW at \in Nat, NEW cells \in Seq(Cell),
         NEW i \in 1..Len(Overlay(f, at, cells))
  PROVE  Overlay(f, at, cells)[i] =
           IF i \in at + 1..at + Len(cells) THEN cells[i - at]
           ELSE IF i <= Len(f) THEN f[i] ELSE Zero
<1> DEFINE n == IF Len(f) < at + Len(cells) THEN at + Len(cells) ELSE Len(f)
<1>1. Len(Overlay(f, at, cells)) = n
  BY OverlayFacts
<1>2. i \in 1..n
  BY <1>1
<1> QED BY <1>2 DEF Overlay

LEMMA PositionFacts ==
  ASSUME Settled, NEW a, InSomeRun(a)
  PROVE  /\ Position(a) \in Nat /\ a \in Nat
         /\ format = "zdmp" => Position(a) > 0
<1>1. a \in Nat /\ Place(a) \in Nat
  BY PlaceInRun DEF InSomeRun
<1> QED BY <1>1 DEF Position, HeaderSize

LEMMA PositionInjective ==
  ASSUME Settled, NEW a, NEW b, InSomeRun(a), InSomeRun(b),
         Position(a) = Position(b)
  PROVE  a = b
<1>1. /\ a \in Nat /\ Place(a) \in Nat
      /\ b \in Nat /\ Place(b) \in Nat
  BY PlaceInRun DEF InSomeRun
<1>2. CASE format = "raw"
  BY <1>2 DEF Position
<1>3. CASE format # "raw"
  <2>1. Place(a) = Place(b)
    BY <1>1, <1>3 DEF Position, HeaderSize
  <2> QED BY <2>1, PlaceInjective
<1> QED BY <1>2, <1>3

LEMMA PositionFollows ==
  ASSUME Settled, NEW i \in DOMAIN runs, NEW a, NEW k \in Nat,
         InRun(a, i), InRun(a + k, i)
  PROVE  Position(a + k) = Position(a) + k
<1>1. /\ a \in Nat /\ Place(a) = PhysicalBelow(i) + (a - runs[i].base)
      /\ Place(a + k) = PhysicalBelow(i) + ((a + k) - runs[i].base)
      /\ PhysicalBelow(i) \in Nat /\ runs[i].base \in Nat
  BY PlaceInRun
<1>2. Place(a + k) = Place(a) + k
  BY <1>1
<1>3. Place(a) \in Nat
  BY PlaceInRun
<1> QED BY <1>1, <1>2, <1>3 DEF Position, HeaderSize

(* A write at the position of its address. *)
LEMMA WriteHolds ==
  ASSUME Settled, file \in Seq(Cell), NEW old, Holds(file, old),
         \A a \in old : InSomeRun(a),
         NEW i \in DOMAIN runs, NEW start \in Nat, NEW n \in Nat \ {0},
         \A k \in 0 .. n - 1 : InRun(start + k, i)
  PROVE  LET f == Overlay(file, Position(start), Bytes(start, n)) IN
         /\ Holds(f, old \cup {start + k : k \in 0 .. n - 1})
         /\ Len(f) >= Len(file)
         /\ format = "zdmp" /\ Len(file) > 0 => f[1] = file[1]
<1> DEFINE at == Position(start)
           cells == Bytes(start, n)
           f == Overlay(file, at, cells)
<1>1. 0 \in 0 .. n - 1 /\ start + 0 = start
  OBVIOUS
<1>2. InRun(start, i)
  BY <1>1
<1>3. at \in Nat /\ (format = "zdmp" => at > 0)
  BY <1>2, PositionFacts DEF InSomeRun
<1> HIDE DEF at
<1>4. /\ cells \in Seq(Cell) /\ Len(cells) = n
      /\ \A k \in 1..n : cells[k] = Byte(start + k - 1)
  BY BytesFacts
<1> HIDE DEF cells
<1>5. /\ f \in Seq(Cell) /\ Len(file) \in Nat
      /\ Len(f) = IF Len(file) < at + n THEN at + n ELSE Len(file)
  BY <1>3, <1>4, OverlayFacts, LenProperties
<1>6. \A j \in 1..Len(f) :
        f[j] = IF j \in at + 1 .. at + n THEN cells[j - at]
               ELSE IF j <= Len(file) THEN file[j] ELSE Zero
  BY <1>3, <1>4, OverlayCells
<1> HIDE DEF f
<1>7. ASSUME NEW k \in 0 .. n - 1
      PROVE  /\ Position(start + k) = at + k
             /\ at + k < Len(f) /\ f[at + k + 1] = Byte(start + k)
  <2>1. InRun(start + k, i) /\ k \in Nat
    <3>1. k \in Nat
      OBVIOUS
    <3>2. InRun(start + k, i)
      BY Zenon
    <3> QED BY <3>1, <3>2
  <2>2. Position(start + k) = at + k
    BY <1>2, <2>1, PositionFollows DEF at
  <2>3. /\ at + k + 1 \in 1..Len(f) /\ at + k + 1 \in at + 1 .. at + n
        /\ (at + k + 1) - at = k + 1 /\ at + k < Len(f)
    BY <1>3, <1>5
  <2>4. f[at + k + 1] = cells[k + 1]
    BY <1>6, <2>3
  <2>5. k + 1 \in 1..n /\ start + (k + 1) - 1 = start + k
    OBVIOUS
  <2>6. cells[k + 1] = Byte(start + k)
    BY <1>4, <2>5
  <2> QED BY <2>2, <2>3, <2>4, <2>6
<1>8. ASSUME NEW a \in old, \A k \in 0 .. n - 1 : a # start + k
      PROVE  Position(a) < Len(f) /\ f[Position(a) + 1] = Byte(a)
  <2> DEFINE p == Position(a)
  <2>1. /\ p \in Nat /\ p < Len(file) /\ file[p + 1] = Byte(a) /\ InSomeRun(a)
    BY PositionFacts DEF Holds
  <2>2. ASSUME p + 1 \in at + 1 .. at + n PROVE FALSE
    <3> DEFINE k == p - at
    <3>1. k \in 0 .. n - 1 /\ p = at + k
      BY <1>3, <2>1, <2>2
    <3> HIDE DEF k
    <3>2. Position(start + k) = at + k /\ InRun(start + k, i)
      BY <1>7, <3>1
    <3>3. a = start + k
      BY <2>1, <3>1, <3>2, PositionInjective DEF InSomeRun
    <3> QED BY <1>8, <3>1, <3>3
  <2> HIDE DEF p
  <2>3. p + 1 \in 1..Len(f) /\ p + 1 <= Len(file) /\ p < Len(f)
    BY <1>3, <1>5, <2>1
  <2>4. f[p + 1] = file[p + 1]
    BY <1>6, <2>2, <2>3
  <2> QED BY <2>1, <2>3, <2>4 DEF p
<1>9. Holds(f, old \cup {start + k : k \in 0 .. n - 1})
  <2> SUFFICES ASSUME NEW a \in old \cup {start + k : k \in 0 .. n - 1}
               PROVE  Position(a) < Len(f) /\ f[Position(a) + 1] = Byte(a)
    BY DEF Holds
  <2>1. CASE \E k \in 0 .. n - 1 : a = start + k
    <3>1. PICK k \in 0 .. n - 1 : a = start + k
      BY <2>1
    <3>2. /\ Position(start + k) = at + k
          /\ at + k < Len(f) /\ f[at + k + 1] = Byte(start + k)
      BY <1>7
    <3> QED BY <3>1, <3>2
  <2>2. CASE ~ \E k \in 0 .. n - 1 : a = start + k
    BY <1>8, <2>2
  <2> QED BY <2>1, <2>2
<1>10. Len(f) >= Len(file)
  BY <1>3, <1>5
<1>11. ASSUME format = "zdmp", Len(file) > 0 PROVE f[1] = file[1]
  <2>1. 1 \in 1..Len(f) /\ 1 \notin at + 1 .. at + n /\ 1 <= Len(file)
    BY <1>3, <1>5, <1>11
  <2> QED BY <1>6, <2>1
<1> QED BY <1>9, <1>10, <1>11 DEF f, at, cells

LEMMA SameLayout ==
  ASSUME UNCHANGED setting
  PROVE  /\ \A a : Place(a)' = Place(a) /\ Position(a)' = Position(a)
         /\ HeaderRuns' = HeaderRuns
<1>1. runs' = runs /\ format' = format
  BY DEF setting
<1>2. ASSUME NEW a PROVE Place(a)' = Place(a)
  BY <1>1 DEF Place, PhysicalBelow, Below, InRun, MapThenSumSet, MapThenFoldSet
<1>3. ASSUME NEW a PROVE Position(a)' = Position(a)
  BY <1>1, <1>2 DEF Position, HeaderSize
<1>4. HeaderRuns' = HeaderRuns
  BY <1>1 DEF HeaderRuns
<1> QED BY <1>2, <1>3, <1>4

LEMMA InitKept == Init => Kept
BY DEF Init, Kept

LEMMA SameKept ==
  ASSUME Kept, UNCHANGED setting, UNCHANGED <<file, given>>,
         \/ phase' = phase
         \/ phase = "open" /\ phase' = "sealed"
         \/ phase' = "failed"
  PROVE  Kept'
<1>1. HeaderRuns' = HeaderRuns /\ format' = format
  BY SameLayout DEF setting
<1>2. \A a : Position(a)' = Position(a)
  BY SameLayout
<1>3. Holds(file, given) => Holds(file, given)'
  BY <1>2 DEF Holds
<1> QED BY <1>1, <1>3 DEF Kept

LEMMA FailKept ==
  ASSUME Kept, NEW full, Fail(full)
  PROVE  Kept'
BY SameKept DEF Fail

LEMMA OpensKept ==
  ASSUME Kept, phase = "closed", NEW f, Opens(f),
         format = "zdmp" => f = <<DumpHeader(HeaderRuns)>>
  PROVE  Kept'
<1>1. CASE StoreFails(f, {})
  BY <1>1, FailKept DEF StoreFails
<1>2. CASE /\ Stores(f, {}) /\ phase' = "open" /\ UNCHANGED setting
           /\ UNCHANGED given
  <2>1. HeaderRuns' = HeaderRuns /\ format' = format
    BY <1>2, SameLayout DEF setting
  <2>2. given' = {} /\ file' = f
    BY <1>2 DEF Kept, Stores
  <2>3. Len(<<DumpHeader(HeaderRuns)>>) = 1
        /\ <<DumpHeader(HeaderRuns)>>[1] = DumpHeader(HeaderRuns)
    OBVIOUS
  <2>4. Holds(file, given)'
    BY <2>2 DEF Holds
  <2>5. DumpHeader(HeaderRuns)' = DumpHeader(HeaderRuns)
    BY <2>1 DEF DumpHeader
  <2> QED BY <1>2, <2>1, <2>2, <2>3, <2>4, <2>5 DEF Kept
<1> QED BY <1>1, <1>2 DEF Opens

LEMMA WriteKept == Shape /\ Kept /\ WriteAt => Kept'
<1> SUFFICES ASSUME Shape, Kept, WriteAt PROVE Kept'
  OBVIOUS
<1>1. PICK n \in 1..Min2(MaxTransfer, RestOfRun) :
        RawWriteAt(n) \/ ZdmpWriteAt(n) \/ E01WriteAt(n)
  BY DEF WriteAt
<1>2. ~AtEnd /\ Settled /\ Walking /\ Holding /\ phase = "open"
  BY DEF WriteAt, Shape
<1>3. /\ n \in 1..RestOfRun /\ n \in Nat \ {0} /\ Address \in Nat
      /\ run \in DOMAIN runs
      /\ \A k \in 0 .. n - 1 : InRun(Address + k, run)
  <2>1. /\ RestOfRun \in Nat \ {0} /\ Address \in Nat /\ run \in DOMAIN runs
        /\ \A m \in 1..RestOfRun : \A k \in 0 .. m - 1 : InRun(Address + k, run)
    BY <1>2, WalkFacts
  <2>2. MaxTransfer \in Nat
    BY WritersAssumption
  <2>3. n \in 1..RestOfRun
    BY <2>1, <2>2 DEF Min2
  <2> QED BY <2>1, <2>3
<1>4. ASSUME NEW f, StoreFails(f, Handed(n)) PROVE Kept'
  BY <1>4, FailKept DEF StoreFails
<1>5. CASE format # "e01"
  <2> DEFINE f == Overlay(file, Position(Address), Bytes(Address, n))
  <2>1. Position(Address) = IF format = "raw" THEN Address
                            ELSE CalculateFileOffset(Address)
    <3>1. 0 \in 0 .. n - 1 /\ Address + 0 = Address
      BY <1>3
    <3>2. InRun(Address, run)
      BY <1>3, <3>1
    <3>3. CalculateFileOffset(Address) = HeaderSize + Place(Address)
      BY <1>2, <1>3, <3>2, PlaceInRun
    <3> QED BY <3>3 DEF Position
  <2>2. \/ Stores(f, Handed(n)) /\ Accepted(n)
        \/ StoreFails(f, Handed(n))
    BY <1>1, <1>5, <2>1 DEF RawWriteAt, ZdmpWriteAt, E01WriteAt
  <2>3. /\ Holds(f, given \cup {Address + k : k \in 0 .. n - 1})
        /\ Len(f) >= Len(file) /\ Len(file) \in Nat
        /\ format = "zdmp" /\ Len(file) > 0 => f[1] = file[1]
        /\ Len(f) \in Nat
    <3>1. file \in Seq(Cell) /\ \A a \in given : InSomeRun(a)
      BY <1>2 DEF Holding, Walking, InSomeRun
    <3>2. Holds(file, given)
      BY <1>2, <1>5 DEF Kept
    <3>3. InSomeRun(Address)
      <4>1. 0 \in 0 .. n - 1 /\ Address + 0 = Address
        BY <1>3
      <4> QED BY <1>3, <4>1 DEF InSomeRun
    <3>4. Bytes(Address, n) \in Seq(Cell) /\ Position(Address) \in Nat
      BY <1>2, <1>3, <3>3, BytesFacts, PositionFacts
    <3>5. f \in Seq(Cell) /\ Len(file) \in Nat /\ Len(f) \in Nat
      BY <3>1, <3>4, OverlayFacts, LenProperties
    <3> QED BY <1>2, <1>3, <3>1, <3>2, <3>5, WriteHolds
  <2> HIDE DEF f
  <2>4. CASE Stores(f, Handed(n)) /\ Accepted(n)
    <3>1. /\ UNCHANGED setting /\ phase' = "open" /\ file' = f
          /\ given' = given \cup {Address + k : k \in 0 .. n - 1}
      BY <1>2, <2>4 DEF Stores, Accepted, Handed
    <3>2. HeaderRuns' = HeaderRuns /\ format' = format
      BY <3>1, SameLayout DEF setting
    <3>3. Holds(file, given)'
      <4>1. \A a : Position(a)' = Position(a)
        BY <3>1, SameLayout
      <4> QED BY <2>3, <3>1, <4>1 DEF Holds
    <3>4. format = "zdmp" => /\ Len(f) > 0
                             /\ f[1] = DumpHeader(HeaderRuns)
      BY <1>2, <2>3 DEF Kept
    <3>5. DumpHeader(HeaderRuns)' = DumpHeader(HeaderRuns)
      BY <3>2 DEF DumpHeader
    <3> QED BY <3>1, <3>2, <3>3, <3>4, <3>5 DEF Kept
  <2> QED BY <1>4, <2>2, <2>4
<1>6. CASE format = "e01"
  <2>1. PICK f : \/ Stores(f, Handed(n)) /\ Accepted(n)
                 \/ StoreFails(f, Handed(n))
    BY <1>1, <1>6 DEF RawWriteAt, ZdmpWriteAt, E01WriteAt
  <2>2. CASE Accepted(n)
    <3>1. format' = "e01" /\ phase' = "open"
      BY <1>2, <1>6, <2>2 DEF Accepted, setting
    <3> QED BY <3>1 DEF Kept
  <2> QED BY <1>4, <2>1, <2>2
<1> QED BY <1>5, <1>6

LEMMA NextKept == Shape /\ Kept /\ [Next]_vars => Kept'
<1> SUFFICES ASSUME Shape, Kept, [Next]_vars PROVE Kept'
  OBVIOUS
<1>1. CASE RawPreflightAndOpen
  BY <1>1, OpensKept, FailKept DEF RawPreflightAndOpen
<1>2. CASE ZdmpPreflightAndOpen
  BY <1>2, OpensKept DEF ZdmpPreflightAndOpen
<1>3. CASE E01PreflightAndOpen
  BY <1>3, OpensKept DEF E01PreflightAndOpen
<1>4. CASE WriteAt
  BY <1>4, WriteKept
<1>5. CASE Skip \/ OthersTake \/ FlushAndClose \/ UNCHANGED vars
  <2>1. UNCHANGED setting /\ UNCHANGED <<file, given>>
    BY <1>5 DEF Skip, OthersTake, FlushAndClose, Fail, vars
  <2>2. \/ phase' = phase
        \/ phase = "open" /\ phase' = "sealed"
        \/ phase' = "failed"
    BY <1>5 DEF Skip, OthersTake, FlushAndClose, Fail, vars
  <2> QED BY <2>1, <2>2, SameKept
<1>6. CASE E01FlushAndClose
  <2>1. format = "e01" /\ format' = "e01" /\ phase' # "closed"
    BY <1>6 DEF E01FlushAndClose, StoreFails, Fail, setting
  <2> QED BY <2>1 DEF Kept
<1> QED BY <1>1, <1>2, <1>3, <1>4, <1>5, <1>6 DEF Next

---------------------------------------------------------------------------
(* What a reader of a raw image and of a crash dump finds.                 *)

LEMMA RawReads ==
  ASSUME Shape, Kept, phase = "sealed", format = "raw"
  PROVE  ReadsBack
<1> SUFFICES ASSUME NEW a \in given PROVE Found(a) = Byte(a)
  BY DEF ReadsBack
<1>1. a < Len(file) /\ file[a + 1] = Byte(a)
  BY DEF Kept, Holds, Position
<1> QED BY <1>1 DEF Found, RawCell, At

(* The runs a header describes are those the writer was configured with. *)
HeaderList ==
  [i \in 1..Min2(Len(runs), MaxHeaderRuns) |->
     [base |-> runs[i].base, length |-> runs[i].length]]

LEMMA WholePages ==
  ASSUME NEW n \in Nat, NEW k \in Nat \ {0}, n % k = 0
  PROVE  (n \div k) * k = n
<1>1. n = (n \div k) * k + (n % k) /\ (n \div k) * k \in Nat
  BY Division
<1> QED BY <1>1

LEMMA HeaderLists ==
  ASSUME Settled
  PROVE  [i \in DOMAIN HeaderRuns |->
            [base |-> HeaderRuns[i].basePage * PageSize,
             length |-> HeaderRuns[i].pageCount * PageSize]] = HeaderList
<1> DEFINE m == Min2(Len(runs), MaxHeaderRuns)
<1>1. DOMAIN HeaderRuns = 1..m
  BY DEF HeaderRuns
<1>2. m \in Nat /\ m <= Len(runs) /\ Len(runs) \in Nat
  BY LayoutFacts, WritersAssumption DEF Settled, Min2
<1>3. ASSUME NEW i \in 1..m
      PROVE  /\ HeaderRuns[i].basePage * PageSize = runs[i].base
             /\ HeaderRuns[i].pageCount * PageSize = runs[i].length
  <2>1. i \in 1..Len(runs) /\ DOMAIN runs = 1..Len(runs)
    BY <1>2, LayoutFacts DEF Settled
  <2>2. runs[i].base \in Nat /\ runs[i].length \in Nat
    BY <2>1, LayoutFacts DEF Settled
  <2>3. runs[i].base % PageSize = 0 /\ runs[i].length % PageSize = 0
    BY <2>1, LayoutsAssumption DEF Settled
  <2>4. PageSize \in Nat \ {0}
    BY WritersAssumption
  <2>5. /\ (runs[i].base \div PageSize) * PageSize = runs[i].base
        /\ (runs[i].length \div PageSize) * PageSize = runs[i].length
    BY <2>2, <2>3, <2>4, WholePages
  <2>6. HeaderRuns[i] = [basePage |-> runs[i].base \div PageSize,
                         pageCount |-> runs[i].length \div PageSize]
    BY DEF HeaderRuns
  <2> QED BY <2>5, <2>6
<1> QED BY <1>1, <1>3 DEF HeaderList

LEMMA HeaderListFacts ==
  ASSUME Settled
  PROVE  /\ DOMAIN HeaderList = 1..Min2(Len(runs), MaxHeaderRuns)
         /\ DOMAIN HeaderList \subseteq DOMAIN runs
         /\ \A i \in DOMAIN runs : i \in DOMAIN HeaderList <=> i <= MaxHeaderRuns
         /\ \A i \in DOMAIN HeaderList :
              /\ HeaderList[i].base = runs[i].base
              /\ HeaderList[i].length = runs[i].length
              /\ Below(HeaderList, i) = PhysicalBelow(i)
<1> DEFINE m == Min2(Len(runs), MaxHeaderRuns)
<1>1. /\ m \in Nat /\ m <= Len(runs) /\ Len(runs) \in Nat
      /\ DOMAIN runs = 1..Len(runs) /\ DOMAIN HeaderList = 1..m
      /\ MaxHeaderRuns \in Nat
  BY LayoutFacts, WritersAssumption DEF Settled, Min2, HeaderList
<1>2. \A i \in DOMAIN runs : i \in DOMAIN HeaderList <=> i <= MaxHeaderRuns
  BY <1>1 DEF Min2
<1>3. \A i \in 1..m : /\ HeaderList[i].base = runs[i].base
                      /\ HeaderList[i].length = runs[i].length
                      /\ runs[i].length \in Nat
  BY <1>1, LayoutFacts DEF Settled, HeaderList
<1> HIDE DEF m
<1>4. ASSUME NEW i \in 1..m PROVE Below(HeaderList, i) = PhysicalBelow(i)
  <2> DEFINE P == [k \in 0 .. i - 1 |-> LengthOfFirst(runs, k)]
  <2>1. /\ Below(HeaderList, i) = LengthOfFirst(HeaderList, i - 1)
        /\ PhysicalBelow(i) = LengthOfFirst(runs, i - 1)
    BY DEF PhysicalBelow, Below, LengthOfFirst, MapThenSumSet, MapThenFoldSet
  <2>2. i - 1 \in Nat /\ \A k \in 1 .. i - 1 : k \in 1..m
    BY <1>1
  <2>3. \A k \in 1 .. i - 1 : runs[k].length \in Nat
    BY <1>3, <2>2
  <2> DEFINE j == i - 1
  <2>4. j \in Nat /\ \A k \in 1..j : runs[k].length \in Nat
    BY <2>2, <2>3
  <2> HIDE DEF j
  <2>5. /\ LengthOfFirst(runs, 0) = 0
        /\ \A k \in 0..j : LengthOfFirst(runs, k) \in Nat
        /\ \A k \in 1..j :
             LengthOfFirst(runs, k) = LengthOfFirst(runs, k - 1) + runs[k].length
    BY <2>4, LengthsGrow
  <2>6. /\ P \in [0..j -> Nat] /\ P[0] = 0 /\ P[j] = LengthOfFirst(runs, j)
    BY <2>4, <2>5 DEF j
  <2>7. ASSUME NEW k \in 1..j
        PROVE  HeaderList[k].length \in Nat /\ P[k] = P[k - 1] + HeaderList[k].length
    <3>1. k \in 0..j /\ k - 1 \in 0..j /\ k \in 1..m
      BY <2>2, <2>4 DEF j
    <3>2. P[k] = LengthOfFirst(runs, k) /\ P[k - 1] = LengthOfFirst(runs, k - 1)
      BY <3>1 DEF j
    <3> HIDE DEF P
    <3> QED BY <1>3, <2>5, <3>1, <3>2
  <2> HIDE DEF P
  <2>8. LengthOfFirst(HeaderList, j) = P[j]
    BY <2>4, <2>6, <2>7, SumOfLengths
  <2> QED BY <2>1, <2>6, <2>8 DEF j
<1> QED BY <1>1, <1>2, <1>3, <1>4 DEF m

LEMMA ZdmpReads ==
  ASSUME Shape, Kept, phase = "sealed", format = "zdmp",
         NEW a \in given, NEW i \in DOMAIN runs, InRun(a, i)
  PROVE  ZdmpCell(a) = IF i <= MaxHeaderRuns THEN Byte(a) ELSE Mark("missing")
<1> DEFINE header == file[1].runs
           list == [k \in DOMAIN header |->
                      [base |-> header[k].basePage * PageSize,
                       length |-> header[k].pageCount * PageSize]]
           holds(t, k) == a \in t[k].base .. t[k].base + t[k].length - 1
           cell(t) ==
             IF \E k \in DOMAIN t : holds(t, k)
             THEN At(HeaderSize + Below(t, CHOOSE j \in DOMAIN t : holds(t, j))
                       + (a - t[CHOOSE j \in DOMAIN t : holds(t, j)].base))
             ELSE Mark("missing")
<1>1. Settled
  BY DEF Shape
<1>2. ZdmpCell(a) = cell(list)
  BY DEF ZdmpCell
<1>3. list = HeaderList
  <2>1. header = HeaderRuns
    BY DEF Kept, DumpHeader
  <2> HIDE DEF header
  <2> QED BY <1>1, <2>1, HeaderLists
<1> HIDE DEF list, header
<1>4. \A k \in DOMAIN HeaderList :
        k \in DOMAIN runs /\ (holds(HeaderList, k) <=> InRun(a, k))
  BY <1>1, HeaderListFacts DEF InRun
<1>5. \A k \in DOMAIN HeaderList : holds(HeaderList, k) => k = i
  BY <1>1, <1>4, RunUnique
<1>6. i \in DOMAIN HeaderList <=> i <= MaxHeaderRuns
  BY <1>1, HeaderListFacts
<1> DEFINE j == CHOOSE k \in DOMAIN HeaderList : holds(HeaderList, k)
<1>7. CASE i <= MaxHeaderRuns
  <2>1. i \in DOMAIN HeaderList /\ holds(HeaderList, i)
    BY <1>4, <1>6, <1>7
  <2>2. j = i
    <3>1. j \in DOMAIN HeaderList /\ holds(HeaderList, j)
      BY <2>1
    <3> HIDE DEF j, holds
    <3> QED BY <1>5, <3>1
  <2>3. cell(HeaderList) = At(HeaderSize + Below(HeaderList, j)
                                + (a - HeaderList[j].base))
    BY <2>1
  <2> HIDE DEF j, holds, cell
  <2>4. Below(HeaderList, i) = PhysicalBelow(i) /\ HeaderList[i].base = runs[i].base
    BY <1>1, <2>1, HeaderListFacts
  <2>5. /\ Place(a) = PhysicalBelow(i) + (a - runs[i].base)
        /\ Place(a) \in Nat /\ PhysicalBelow(i) \in Nat
        /\ a \in Nat /\ runs[i].base \in Nat
    BY <1>1, PlaceInRun
  <2>6. HeaderSize + PhysicalBelow(i) + (a - runs[i].base) = Position(a)
    BY <2>5 DEF Position, HeaderSize
  <2>7. Position(a) < Len(file) /\ file[Position(a) + 1] = Byte(a)
    BY DEF Kept, Holds
  <2>8. At(Position(a)) = Byte(a)
    BY <2>7 DEF At
  <2>9. cell(HeaderList) = Byte(a)
    BY <2>2, <2>3, <2>4, <2>6, <2>8
  <2> QED BY <1>2, <1>3, <1>7, <2>9
<1>8. CASE ~(i <= MaxHeaderRuns)
  <2>1. ~ \E k \in DOMAIN HeaderList : holds(HeaderList, k)
    <3> HIDE DEF holds
    <3> QED BY <1>5, <1>6, <1>8
  <2>2. cell(HeaderList) = Mark("missing")
    BY <2>1
  <2> HIDE DEF cell
  <2> QED BY <1>2, <1>3, <1>8, <2>2
<1> QED BY <1>7, <1>8

LEMMA NotAByte == \A k, a : k # "byte" => Mark(k) # Byte(a)
<1> SUFFICES ASSUME NEW k, NEW a, Mark(k) = Byte(a) PROVE k = "byte"
  OBVIOUS
<1>1. Mark(k).kind = k /\ Byte(a).kind = "byte"
  BY DEF Mark, Byte
<1> QED BY <1>1

(* A raw image and a crash dump. *)
LEMMA StraightReads ==
  ASSUME Shape, Kept, phase = "sealed", format # "e01"
  PROVE  ReadsBack <=> Representable
<1>1. CASE format = "raw"
  BY <1>1, RawReads DEF Representable
<1>2. CASE format = "zdmp"
  <2>1. \A a \in given : \E i \in DOMAIN runs : InRun(a, i)
    BY DEF Shape, Walking
  <2>2. \A a \in given : Found(a) = ZdmpCell(a)
    BY <1>2 DEF Found
  <2>3. ASSUME Representable, NEW a \in given PROVE Found(a) = Byte(a)
    <3>1. PICK i \in DOMAIN runs : InRun(a, i)
      BY <2>1
    <3>2. i <= MaxHeaderRuns
      BY <1>2, <2>3, <3>1 DEF Representable
    <3> QED BY <1>2, <2>2, <3>1, <3>2, ZdmpReads
  <2>4. ASSUME ReadsBack, NEW a \in given, NEW i \in DOMAIN runs, InRun(a, i)
        PROVE  i <= MaxHeaderRuns
    <3>1. ZdmpCell(a) = Byte(a)
      BY <2>2, <2>4 DEF ReadsBack
    <3>2. Mark("missing") # Byte(a)
      BY NotAByte
    <3> QED BY <1>2, <2>4, <3>1, <3>2, ZdmpReads
  <2> QED BY <1>2, <2>3, <2>4 DEF ReadsBack, Representable
<1> QED BY <1>1, <1>2 DEF Shape, Settled

---------------------------------------------------------------------------
(* Streams in chunks.                                                      *)

LEMMA DivisionUnique ==
  ASSUME NEW n \in Nat, NEW k \in Nat \ {0}, NEW d \in Nat, NEW r \in 0 .. k - 1,
         n = d * k + r
  PROVE  n \div k = d /\ n % k = r
<1> DEFINE e == n \div k
           s == n % k
<1>1. /\ e \in Nat /\ s \in 0 .. k - 1 /\ n = e * k + s
      /\ e * k \in Nat /\ d * k \in Nat
  <2>1. /\ e \in Nat /\ s \in 0 .. k - 1 /\ n = e * k + s
        /\ e * k \in Nat
    BY Division
  <2>2. d * k \in Nat
    OBVIOUS
  <2> QED BY <2>1, <2>2
<1> HIDE DEF e, s
<1>2. ASSUME d < e PROVE FALSE
  <2>1. d + 1 \in Nat /\ d + 1 <= e
    BY <1>1, <1>2
  <2>2. (d + 1) * k <= e * k /\ (d + 1) * k = d * k + k
    BY <1>1, <2>1, TimesMonotone, OneMore
  <2> DEFINE p == d * k
             q == e * k
  <2>3. /\ p \in Nat /\ q \in Nat /\ p + k <= q /\ p + r = q + s
        /\ r \in 0 .. k - 1 /\ s \in 0 .. k - 1
    BY <1>1, <2>2
  <2> HIDE DEF p, q
  <2> QED BY <2>3
<1>3. ASSUME e < d PROVE FALSE
  <2>1. e + 1 \in Nat /\ e + 1 <= d
    BY <1>1, <1>3
  <2>2. (e + 1) * k <= d * k /\ (e + 1) * k = e * k + k
    BY <1>1, <2>1, TimesMonotone, OneMore
  <2> DEFINE p == d * k
             q == e * k
  <2>3. /\ p \in Nat /\ q \in Nat /\ q + k <= p /\ p + r = q + s
        /\ r \in 0 .. k - 1 /\ s \in 0 .. k - 1
    BY <1>1, <2>2
  <2> HIDE DEF p, q
  <2> QED BY <2>3
<1>4. e = d
  BY <1>1, <1>2, <1>3
<1>5. s = r
  <2> DEFINE p == d * k
  <2>1. p \in Nat /\ p + s = p + r /\ r \in Nat /\ s \in Nat
    BY <1>1, <1>4
  <2> HIDE DEF p
  <2> QED BY <2>1
<1> QED BY <1>4, <1>5 DEF e, s

(* The cells of a chunk: its part of the stream, and its checksum. *)
LEMMA ChunkedAt ==
  ASSUME NEW stream, NEW c \in Nat, NEW d \in Nat, d < c,
         NEW k \in 0 .. ChunkSize
  PROVE  /\ d * (ChunkSize + 1) + k + 1 \in 1 .. c * (ChunkSize + 1)
         /\ Chunked(stream, c)[d * (ChunkSize + 1) + k + 1] =
              IF k = ChunkSize THEN Checksum ELSE stream[d * ChunkSize + k + 1]
<1> DEFINE J == ChunkSize + 1
           p == d * J
           q == c * J
           i == p + k + 1
<1>1. ChunkSize \in Nat \ {0} /\ J \in Nat \ {0} /\ k \in 0 .. J - 1
  BY WritersAssumption
<1> HIDE DEF J
<1>2. p \in Nat /\ q \in Nat /\ p + J <= q
  <2>1. d + 1 \in Nat /\ d + 1 <= c
    OBVIOUS
  <2>2. (d + 1) * J <= c * J /\ c * J \in Nat
    BY <1>1, <2>1, TimesMonotone
  <2>3. (d + 1) * J = d * J + J /\ d * J \in Nat
    BY <1>1, OneMore
  <2> QED BY <2>2, <2>3
<1>3. i - 1 = d * J + k /\ i - 1 \in Nat /\ i \in 1..q
  <2>1. p + k \in Nat
    BY <1>1, <1>2
  <2> HIDE DEF p, q
  <2>2. i - 1 = p + k /\ i \in 1..q
    BY <1>1, <1>2, <2>1
  <2> QED BY <2>1, <2>2 DEF p
<1> HIDE DEF i
<1>4. (i - 1) \div J = d /\ (i - 1) % J = k
  BY <1>1, <1>3, DivisionUnique
<1>5. Chunked(stream, c)[i] =
        IF (i - 1) % J = ChunkSize THEN Checksum
        ELSE stream[((i - 1) \div J) * ChunkSize + ((i - 1) % J) + 1]
  BY <1>3 DEF Chunked, J
<1>6. Chunked(stream, c)[i] =
        IF k = ChunkSize THEN Checksum ELSE stream[d * ChunkSize + k + 1]
  BY <1>4, <1>5
<1> QED BY <1>3, <1>6 DEF i, p, q, J

(* Every cell of a chunked stream is one of them. *)
LEMMA ChunkedIndex ==
  ASSUME NEW c \in Nat, NEW i \in 1 .. c * (ChunkSize + 1)
  PROVE  \E d \in Nat, k \in 0 .. ChunkSize :
           d < c /\ i = d * (ChunkSize + 1) + k + 1
<1> DEFINE J == ChunkSize + 1
           d == (i - 1) \div J
           k == (i - 1) % J
<1>1. /\ J \in Nat \ {0} /\ J - 1 = ChunkSize /\ i - 1 \in Nat /\ c * J \in Nat
      /\ i - 1 < c * J
  BY WritersAssumption
<1> HIDE DEF J
<1>2. d \in Nat /\ k \in 0 .. J - 1 /\ i - 1 = d * J + k /\ d * J \in Nat
  BY <1>1, Division
<1>3. d < c
  BY <1>1, QuotientBelow
<1> HIDE DEF d, k
<1>4. i = d * J + k + 1
  <2> DEFINE p == d * J
  <2>1. i - 1 = p + k /\ p \in Nat /\ k \in Nat /\ i \in Int
    BY <1>1, <1>2
  <2> HIDE DEF p
  <2>2. i = p + k + 1
    BY <2>1
  <2> QED BY <2>2 DEF p
<1> QED BY <1>1, <1>2, <1>3, <1>4 DEF J

(* What is left of a stream behind a number of its cells. *)
LEMMA RestFacts ==
  ASSUME NEW s \in Seq(Cell), NEW p \in Nat, p <= Len(s)
  PROVE  /\ SubSeq(s, p + 1, Len(s)) \in Seq(Cell)
         /\ Len(SubSeq(s, p + 1, Len(s))) = Len(s) - p
         /\ \A x \in 1 .. Len(s) - p : SubSeq(s, p + 1, Len(s))[x] = s[p + x]
<1> DEFINE L == Len(s)
<1>1. L \in Nat
  BY LenProperties
<1> HIDE DEF L
<1>2. p + 1 \in Int /\ L \in Int /\ \A i \in p + 1 .. L : i \in 1..L
  BY <1>1
<1>3. \A i \in p + 1 .. L : s[i] \in Cell
  BY <1>1, <1>2, ElementOfSeq DEF L
<1>4. /\ SubSeq(s, p + 1, L) \in Seq(Cell)
      /\ Len(SubSeq(s, p + 1, L)) = IF p + 1 <= L THEN L - (p + 1) + 1 ELSE 0
      /\ \A i \in 1 .. L - (p + 1) + 1 : SubSeq(s, p + 1, L)[i] = s[(p + 1) + i - 1]
  BY <1>2, <1>3, SubSeqProperties
<1>5. p <= L
  BY DEF L
<1>6. Len(SubSeq(s, p + 1, L)) = L - p
  BY <1>1, <1>4, <1>5
<1>7. ASSUME NEW x \in 1 .. L - p
      PROVE  SubSeq(s, p + 1, L)[x] = s[p + x]
  <2>1. x \in 1 .. L - (p + 1) + 1 /\ (p + 1) + x - 1 = p + x
    BY <1>1
  <2> QED BY <1>4, <2>1
<1> QED BY <1>4, <1>6, <1>7 DEF L

LEMMA RestOfConcat ==
  ASSUME NEW s \in Seq(Cell), NEW t \in Seq(Cell), NEW p \in Nat, p <= Len(s)
  PROVE  LET rest == SubSeq(s, p + 1, Len(s)) IN
         /\ rest \o t \in Seq(Cell)
         /\ Len(rest \o t) = Len(s \o t) - p
         /\ Len(s \o t) = Len(s) + Len(t) /\ s \o t \in Seq(Cell)
         /\ \A x \in 1 .. Len(s \o t) - p : (rest \o t)[x] = (s \o t)[p + x]
<1> DEFINE rest == SubSeq(s, p + 1, Len(s))
           L == Len(s)
           M == Len(t)
<1>1. L \in Nat /\ M \in Nat /\ p <= L
  BY LenProperties
<1>2. /\ rest \in Seq(Cell) /\ Len(rest) = L - p
      /\ \A x \in 1 .. L - p : rest[x] = s[p + x]
  BY RestFacts
<1> HIDE DEF rest
<1>3. /\ s \o t \in Seq(Cell) /\ Len(s \o t) = L + M
      /\ \A i \in 1 .. L + M : (s \o t)[i] = IF i <= L THEN s[i] ELSE t[i - L]
  BY ConcatProperties
<1>4. /\ rest \o t \in Seq(Cell) /\ Len(rest \o t) = (L - p) + M
      /\ \A i \in 1 .. (L - p) + M :
           (rest \o t)[i] = IF i <= L - p THEN rest[i] ELSE t[i - (L - p)]
  <2>1. /\ rest \o t \in Seq(Cell) /\ Len(rest \o t) = Len(rest) + Len(t)
        /\ \A i \in 1 .. Len(rest) + Len(t) :
             (rest \o t)[i] = IF i <= Len(rest) THEN rest[i] ELSE t[i - Len(rest)]
    BY <1>2, ConcatProperties
  <2> QED BY <1>2, <2>1
<1> HIDE DEF L, M
<1>5. ASSUME NEW x \in 1 .. (L + M) - p
      PROVE  (rest \o t)[x] = (s \o t)[p + x]
  <2>1. x \in 1 .. (L - p) + M /\ p + x \in 1 .. L + M
    BY <1>1
  <2>2. CASE x <= L - p
    <3>1. x \in 1 .. L - p /\ p + x <= L
      BY <1>1, <2>2
    <3> QED BY <1>2, <1>3, <1>4, <2>1, <2>2, <3>1
  <2>3. CASE ~(x <= L - p)
    <3>1. ~(p + x <= L) /\ x - (L - p) = (p + x) - L
      BY <1>1, <2>3
    <3> QED BY <1>3, <1>4, <2>1, <2>3, <3>1
  <2> QED BY <2>2, <2>3
<1>6. (L - p) + M = (L + M) - p
  BY <1>1
<1> QED BY <1>3, <1>4, <1>5, <1>6 DEF L, M, rest

(* Chunk after chunk: flushing what has come since continues the chunks of *)
(* the whole stream.                                                       *)
LEMMA ChunkedContinues ==
  ASSUME NEW s \in Seq(Cell), NEW t \in Seq(Cell), NEW c \in Nat, NEW m \in Nat,
         c * ChunkSize <= Len(s),
         (c + m) * ChunkSize <= Len(s \o t)
  PROVE  LET rest == SubSeq(s, c * ChunkSize + 1, Len(s)) IN
         /\ Chunked(s, c) \o Chunked(rest \o t, m) = Chunked(s \o t, c + m)
         /\ Chunked(s, c) \in Seq(Cell)
         /\ Len(Chunked(s, c)) = c * (ChunkSize + 1)
<1> DEFINE K == ChunkSize
           J == ChunkSize + 1
           p == c * K
           rest == SubSeq(s, p + 1, Len(s))
           u == rest \o t
           v == s \o t
<1>1. /\ K \in Nat \ {0} /\ J \in Nat \ {0} /\ p \in Nat /\ Len(s) \in Nat
      /\ Len(t) \in Nat /\ p <= Len(s)
  <2>1. Len(s) \in Nat /\ Len(t) \in Nat
    BY LenProperties
  <2>2. K \in Nat \ {0} /\ J \in Nat \ {0}
    BY WritersAssumption, SMTT(30)
  <2>3. p \in Nat
    BY <2>2
  <2> QED BY <2>1, <2>2, <2>3
<1>2. /\ u \in Seq(Cell) /\ Len(u) = Len(v) - p /\ v \in Seq(Cell)
      /\ Len(v) = Len(s) + Len(t)
      /\ \A x \in 1 .. Len(v) - p : u[x] = v[p + x]
  <2>1. p \in Nat /\ p <= Len(s)
    BY <1>1
  <2> HIDE DEF p
  <2> QED BY <2>1, RestOfConcat, ZenonT(30)
<1>3. \A i \in 1..Len(s) : v[i] = s[i]
  <2>1. \A i \in 1..Len(s) : i \in 1..Len(s) + Len(t) /\ i <= Len(s)
    BY <1>1
  <2> QED BY <2>1, ConcatProperties
<1> HIDE DEF u, v, rest
<1>4. /\ (c + m) * K = c * K + m * K /\ m * K \in Nat
      /\ (c + m) * J = c * J + m * J /\ c * J \in Nat /\ m * J \in Nat
      /\ c + m \in Nat
  <2> HIDE DEF K, J
  <2> QED BY <1>1
<1>5. m * K <= Len(u)
  <2>1. c * K + m * K <= Len(v)
    BY <1>4 DEF v
  <2> QED BY <1>1, <1>2, <1>4, <2>1
<1> DEFINE A == Chunked(s, c)
           B == Chunked(u, m)
           D == Chunked(v, c + m)
<1>6. /\ A \in Seq(Cell) /\ Len(A) = c * J
      /\ B \in Seq(Cell) /\ Len(B) = m * J
      /\ D \in Seq(Cell) /\ Len(D) = (c + m) * J
  BY <1>1, <1>2, <1>4, <1>5, ChunkedFacts DEF v
<1> HIDE DEF A, B, D
<1>7. /\ A \o B \in Seq(Cell) /\ Len(A \o B) = c * J + m * J
      /\ \A i \in 1 .. c * J + m * J :
           (A \o B)[i] = IF i <= c * J THEN A[i] ELSE B[i - c * J]
  <2>1. /\ A \o B \in Seq(Cell) /\ Len(A \o B) = Len(A) + Len(B)
        /\ \A i \in 1 .. Len(A) + Len(B) :
             (A \o B)[i] = IF i <= Len(A) THEN A[i] ELSE B[i - Len(A)]
    <3>1. A \in Seq(Cell) /\ B \in Seq(Cell)
      BY <1>6
    <3> QED BY <3>1, ConcatProperties
  <2> DEFINE x == c * J
             y == m * J
  <2>2. Len(A) = x /\ Len(B) = y
    BY <1>6
  <2> HIDE DEF x, y
  <2>3. /\ A \o B \in Seq(Cell) /\ Len(A \o B) = x + y
        /\ \A i \in 1 .. x + y :
             (A \o B)[i] = IF i <= x THEN A[i] ELSE B[i - x]
    BY <2>1, <2>2
  <2> QED BY <2>3 DEF x, y
<1>8. ASSUME NEW i \in 1 .. (c + m) * J
      PROVE  (A \o B)[i] = D[i]
  <2>1. PICK d \in Nat, k \in 0..K : d < c + m /\ i = d * J + k + 1
    BY <1>4, ChunkedIndex
  <2>2. D[i] = IF k = K THEN Checksum ELSE v[d * K + k + 1]
    <3> DEFINE z == c + m
    <3>1. z \in Nat /\ d < z
      BY <1>4, <2>1
    <3> HIDE DEF z
    <3>2. Chunked(v, z)[d * J + k + 1] =
            IF k = K THEN Checksum ELSE v[d * K + k + 1]
      BY <3>1, ChunkedAt
    <3>3. D[d * J + k + 1] = IF k = K THEN Checksum ELSE v[d * K + k + 1]
      BY <3>2 DEF D, z
    <3> QED BY <2>1, <3>3, Zenon
  <2>3. CASE d < c
    <3>1. i \in 1 .. c * J /\ A[i] = IF k = K THEN Checksum ELSE s[d * K + k + 1]
      BY <2>1, <2>3, ChunkedAt, SMTT(30) DEF A
    <3>2. (A \o B)[i] = A[i]
      BY <1>4, <1>7, <1>8, <3>1
    <3>3. k # K => d * K + k + 1 \in 1..Len(s)
      <4> HIDE DEF K
      <4>1. d + 1 \in Nat /\ d + 1 <= c
        BY <2>1, <2>3
      <4>2. (d + 1) * K <= c * K /\ (d + 1) * K = d * K + K /\ d * K \in Nat
        BY <1>1, <4>1, TimesMonotone, OneMore
      <4> DEFINE x == d * K
      <4>3. x \in Nat /\ x + K <= p
        BY <4>2
      <4> HIDE DEF x, p
      <4>4. k # K => x + k + 1 \in 1..Len(s)
        BY <1>1, <2>1, <4>3
      <4> QED BY <4>4 DEF x
    <3> QED BY <1>3, <2>2, <3>1, <3>2, <3>3
  <2>4. CASE ~(d < c)
    <3> DEFINE e == d - c
    <3>1. e \in Nat /\ e < m /\ d = c + e
      BY <2>1, <2>4
    <3> HIDE DEF e
    <3>2. /\ e * J + k + 1 \in 1 .. m * J
          /\ B[e * J + k + 1] = IF k = K THEN Checksum ELSE u[e * K + k + 1]
      BY <3>1, ChunkedAt DEF B
    <3>3. /\ d * J = c * J + e * J /\ e * J \in Nat
          /\ d * K = c * K + e * K /\ e * K \in Nat
      <4> HIDE DEF J, K
      <4> QED BY <1>1, <3>1
    <3>4. i = c * J + (e * J + k + 1) /\ ~(i <= c * J) /\ i - c * J = e * J + k + 1
      <4> DEFINE x == c * J
                 y == e * J
      <4>1. x \in Nat /\ y \in Nat /\ i = (x + y) + k + 1 /\ k \in Nat
        BY <1>1, <1>4, <2>1, <3>3, SMTT(30)
      <4> HIDE DEF x, y
      <4>2. i = x + (y + k + 1) /\ ~(i <= x) /\ i - x = y + k + 1
        BY <4>1
      <4> QED BY <4>2 DEF x, y
    <3>5. (A \o B)[i] = B[e * J + k + 1]
      BY <1>4, <1>7, <1>8, <3>4
    <3>6. k # K => u[e * K + k + 1] = v[d * K + k + 1]
      <4> SUFFICES ASSUME k # K PROVE u[e * K + k + 1] = v[d * K + k + 1]
        OBVIOUS
      <4> HIDE DEF K
      <4>1. e + 1 \in Nat /\ e + 1 <= m
        BY <3>1
      <4>2. (e + 1) * K <= m * K /\ (e + 1) * K = e * K + K
        BY <1>1, <4>1, <3>1, TimesMonotone, OneMore
      <4> DEFINE x == e * K
                 y == m * K
      <4>3. /\ x \in Nat /\ y \in Nat /\ x + K <= y /\ y <= Len(v) - p
            /\ Len(v) \in Nat
        BY <1>1, <1>2, <1>4, <1>5, <3>3, <4>2
      <4>4. d * K = p + x
        BY <3>3
      <4> HIDE DEF x, y, p
      <4>5. x + k + 1 \in 1 .. Len(v) - p /\ p + (x + k + 1) = (p + x) + k + 1
        BY <1>1, <2>1, <4>3
      <4>6. u[x + k + 1] = v[p + (x + k + 1)]
        BY <1>2, <4>5
      <4> QED BY <4>4, <4>5, <4>6 DEF x
    <3> QED BY <2>2, <3>2, <3>5, <3>6
  <2> QED BY <2>3, <2>4
<1>9. A \o B = D
  <2>1. Len(A \o B) = Len(D) /\ Len(A \o B) = (c + m) * J
    BY <1>4, <1>6, <1>7
  <2> QED BY <1>6, <1>7, <1>8, <2>1, SeqEqual
<1> QED BY <1>6, <1>9 DEF A, B, D, u, v, rest, p, J, K

---------------------------------------------------------------------------
(* What an E01 image holds while it is written.                            *)

(* What E01PreflightAndOpen writes.                                        *)
Opening == Append(HeaderSections, Sectors(0))

(* w lists the addresses that were handed over, in ascending order.        *)
Listed(w) ==
  /\ w \in Seq(Nat) /\ given = {w[j] : j \in 1..Len(w)}
  /\ \A i, j \in 1..Len(w) : i < j => w[i] < w[j]

Behind(w) == ~AtEnd => \A j \in 1..Len(w) : w[j] < Address

Stream(w) == [j \in 1..Len(w) |-> Byte(w[j])]

Offset(j) == (1 + (j - 1) * (ChunkSize + 1)) % Word

(* Full chunks are in the file, what is left of the stream in the buffer.  *)
Streamed(w) ==
  /\ Len(chunks) * ChunkSize <= Len(w)
  /\ file = Opening \o Chunked(Stream(w), Len(chunks))
  /\ buffer = SubSeq(Stream(w), Len(chunks) * ChunkSize + 1, Len(w))
  /\ \A j \in 1..Len(chunks) : chunks[j] = Offset(j)

LEMMA AppendKeeps ==
  ASSUME NEW S, NEW h \in Seq(S), NEW x \in S
  PROVE  \A i \in 1..Len(h) : Append(h, x)[i] = h[i]
BY AppendProperties

LEMMA AppendFacts ==
  ASSUME NEW S, NEW h \in Seq(S), Len(h) = 3, NEW x \in S
  PROVE  /\ Append(h, x) \in Seq(S) /\ Len(Append(h, x)) = 4
         /\ Append(h, x)[1] = h[1] /\ Append(h, x)[4] = x
<1>1. Append(h, x) \in Seq(S)
  BY AppendProperties
<1>2. Len(Append(h, x)) = Len(h) + 1
  BY AppendProperties, ZenonT(30)
<1>3. \A i \in 1..Len(h) : Append(h, x)[i] = h[i]
  BY AppendKeeps
<1>4. Append(h, x)[Len(h) + 1] = x
  BY AppendProperties, ZenonT(30)
<1>5. Len(h) + 1 = 4 /\ 1 \in 1..Len(h)
  OBVIOUS
<1> QED BY <1>1, <1>2, <1>3, <1>4, <1>5

LEMMA OpeningFacts ==
  /\ Opening \in Seq(Cell) /\ Len(Opening) = 4
  /\ Opening[1] = Mark("file") /\ Opening[4] = Sectors(0)
<1>1. Sectors(0) \in Cell
  BY CellFacts
<1>2. /\ Opening \in Seq(Cell) /\ Len(Opening) = 4
      /\ Opening[1] = HeaderSections[1] /\ Opening[4] = Sectors(0)
  BY <1>1, HeaderSectionsFacts, AppendFacts DEF Opening
<1>3. HeaderSections[1] = Mark("file")
  BY DEF HeaderSections
<1> QED BY <1>2, <1>3

LEMMA StreamOf ==
  ASSUME NEW w \in Seq(Nat)
  PROVE  /\ Stream(w) \in Seq(Cell) /\ Len(Stream(w)) = Len(w) /\ Len(w) \in Nat
         /\ \A j \in 1..Len(w) : Stream(w)[j] = Byte(w[j])
<1>1. Len(w) \in Nat
  BY LenProperties
<1>2. \A j \in 1..Len(w) : Byte(w[j]) \in Cell
  <2>1. \A j \in 1..Len(w) : w[j] \in Nat
    BY ElementOfSeq
  <2> QED BY <2>1, CellFacts
<1>3. Stream(w) \in [1..Len(w) -> Cell]
  BY <1>2 DEF Stream
<1>4. Stream(w) \in Seq(Cell) /\ Len(Stream(w)) = Len(w)
  BY <1>1, <1>3, ListOf
<1> QED BY <1>1, <1>4 DEF Stream

LEMMA AdvanceMoves ==
  ASSUME Settled, Walking, ~AtEnd, runs' = runs, NEW n \in 1..RestOfRun,
         Advance(n), ~AtEnd'
  PROVE  Address' >= Address + n /\ Address' \in Nat
<1>1. /\ Len(runs) \in Nat
      /\ \A i \in 1..Len(runs) : runs[i].base \in Nat /\ runs[i].length \in Nat
      /\ \A i, j \in 1..Len(runs) :
           i < j => runs[i].base + runs[i].length <= runs[j].base
  BY LayoutFacts DEF Settled
<1>2. /\ run \in 1..Len(runs) /\ RestOfRun \in Nat \ {0} /\ offset \in Nat
      /\ runs[run].base \in Nat /\ runs[run].length \in Nat
  BY <1>1, WalkFacts DEF Walking
<1>3. CASE n = RestOfRun
  <2>1. run' = run + 1 /\ offset' = 0
    BY <1>3 DEF Advance
  <2>2. run + 1 \in 1..Len(runs) /\ run < run + 1
    BY <1>1, <1>2, <2>1 DEF AtEnd
  <2>3. /\ runs[run].base + runs[run].length <= runs[run + 1].base
        /\ runs[run + 1].base \in Nat
    BY <1>1, <1>2, <2>2
  <2>4. Address' = runs[run + 1].base
    BY <2>1, <2>3 DEF Address
  <2>5. Address + n = runs[run].base + runs[run].length
    BY <1>2, <1>3, SMTT(30) DEF Address, RestOfRun
  <2> QED BY <2>3, <2>4, <2>5
<1>4. CASE n # RestOfRun
  <2>1. run' = run /\ offset' = offset + n
    BY <1>4 DEF Advance
  <2>2. Address' = Address + n /\ Address + n \in Nat
    BY <1>2, <2>1, SMTT(30) DEF Address
  <2> QED BY <2>2
<1> QED BY <1>3, <1>4

(* The addresses of a write are listed behind the others. *)
LEMMA ListedMore ==
  ASSUME NEW w, Listed(w), NEW start \in Nat, NEW n \in Nat \ {0},
         \A j \in 1..Len(w) : w[j] < start
  PROVE  LET more == [k \in 1..n |-> start + k - 1]
             v == w \o more
         IN  /\ v \in Seq(Nat) /\ Len(v) = Len(w) + n
             /\ {v[j] : j \in 1..Len(v)} = given \cup {start + k : k \in 0 .. n - 1}
             /\ \A i, j \in 1..Len(v) : i < j => v[i] < v[j]
             /\ \A j \in 1..Len(v) : v[j] < start + n
             /\ Stream(v) = Stream(w) \o Bytes(start, n)
<1> DEFINE more == [k \in 1..n |-> start + k - 1]
           v == w \o more
           N == Len(w)
<1>1. w \in Seq(Nat) /\ N \in Nat
  BY LenProperties DEF Listed
<1>2. more \in Seq(Nat) /\ Len(more) = n /\ \A k \in 1..n : more[k] = start + k - 1
  <2>1. more \in [1..n -> Nat]
    OBVIOUS
  <2>2. \A k \in 1..n : more[k] = start + k - 1
    OBVIOUS
  <2> HIDE DEF more
  <2> QED BY <2>1, <2>2, ListOf
<1> HIDE DEF more
<1>3. /\ v \in Seq(Nat) /\ Len(v) = N + n
      /\ \A i \in 1 .. N + n : v[i] = IF i <= N THEN w[i] ELSE more[i - N]
  <2>1. /\ v \in Seq(Nat) /\ Len(v) = Len(w) + Len(more)
        /\ \A i \in 1 .. Len(w) + Len(more) :
             v[i] = IF i <= Len(w) THEN w[i] ELSE more[i - Len(w)]
    BY <1>1, <1>2, ConcatProperties
  <2> QED BY <1>2, <2>1
<1> HIDE DEF v
<1>4. \A i \in 1..N : w[i] \in Nat /\ w[i] < start
  BY <1>1, ElementOfSeq
<1>5. \A i \in 1..N : v[i] = w[i]
  <2>1. \A i \in 1..N : i \in 1 .. N + n /\ i <= N
    BY <1>1
  <2> QED BY <1>3, <2>1
<1>6. \A k \in 1..n : N + k \in 1 .. N + n /\ v[N + k] = start + k - 1
  <2> SUFFICES ASSUME NEW k \in 1..n
               PROVE  N + k \in 1 .. N + n /\ v[N + k] = start + k - 1
    OBVIOUS
  <2> HIDE DEF N
  <2>1. N + k \in 1 .. N + n /\ ~(N + k <= N) /\ (N + k) - N = k
    BY <1>1
  <2> QED BY <1>2, <1>3, <2>1
<1>7. \A i \in 1 .. N + n : i \in 1..N \/ \E k \in 1..n : i = N + k
  <2> SUFFICES ASSUME NEW i \in 1 .. N + n, i \notin 1..N
               PROVE  \E k \in 1..n : i = N + k
    OBVIOUS
  <2>1. i - N \in 1..n /\ i = N + (i - N)
    BY <1>1
  <2> QED BY <2>1
<1> HIDE DEF N
<1>8. \A j \in 1 .. N + n : v[j] < start + n
  <2> SUFFICES ASSUME NEW j \in 1 .. N + n PROVE v[j] < start + n
    OBVIOUS
  <2>1. CASE j \in 1..N
    BY <1>4, <1>5, <2>1
  <2>2. CASE \E k \in 1..n : j = N + k
    BY <1>6, <2>2
  <2> QED BY <1>7, <2>1, <2>2
<1>9. ASSUME NEW i \in 1 .. N + n, NEW j \in 1 .. N + n, i < j
      PROVE  v[i] < v[j]
  <2>1. CASE i \in 1..N /\ j \in 1..N
    BY <1>5, <1>9, <2>1 DEF Listed, N
  <2>2. CASE i \in 1..N /\ \E k \in 1..n : j = N + k
    <3>1. PICK k \in 1..n : j = N + k
      BY <2>2
    <3>2. v[j] = start + k - 1 /\ v[i] = w[i] /\ w[i] \in Nat /\ w[i] < start
      BY <1>4, <1>5, <1>6, <2>2, <3>1
    <3> QED BY <3>2
  <2>3. CASE \E k \in 1..n : i = N + k
    <3>1. PICK k \in 1..n : i = N + k
      BY <2>3
    <3>2. j \notin 1..N
      BY <1>1, <1>9, <3>1
    <3>3. PICK m \in 1..n : j = N + m
      BY <1>7, <3>2
    <3>4. k < m
      BY <1>1, <1>9, <3>1, <3>3
    <3>5. v[i] = start + k - 1 /\ v[j] = start + m - 1
      BY <1>6, <3>1, <3>3
    <3> QED BY <3>4, <3>5
  <2> QED BY <1>7, <2>1, <2>2, <2>3
<1>10. {v[j] : j \in 1 .. N + n} = given \cup {start + k : k \in 0 .. n - 1}
  <2>1. ASSUME NEW j \in 1 .. N + n
        PROVE  v[j] \in given \cup {start + k : k \in 0 .. n - 1}
    <3>1. CASE j \in 1..N
      BY <1>5, <3>1 DEF Listed, N
    <3>2. CASE \E k \in 1..n : j = N + k
      <4>1. PICK k \in 1..n : j = N + k
        BY <3>2
      <4>2. k - 1 \in 0 .. n - 1 /\ start + k - 1 = start + (k - 1)
        OBVIOUS
      <4> QED BY <1>6, <4>1, <4>2
    <3> QED BY <1>7, <3>1, <3>2
  <2>2. ASSUME NEW a \in given PROVE \E j \in 1 .. N + n : a = v[j]
    <3>1. PICK j \in 1..N : a = w[j]
      BY DEF Listed, N
    <3>2. j \in 1 .. N + n
      BY <1>1
    <3> QED BY <1>5, <3>1, <3>2
  <2>3. ASSUME NEW k \in 0 .. n - 1 PROVE \E j \in 1 .. N + n : start + k = v[j]
    <3>1. k + 1 \in 1..n /\ start + (k + 1) - 1 = start + k
      OBVIOUS
    <3>2. N + (k + 1) \in 1 .. N + n /\ v[N + (k + 1)] = start + (k + 1) - 1
      BY <1>6, <3>1
    <3> QED BY <3>1, <3>2
  <2> QED BY <2>1, <2>2, <2>3, ZenonT(30)
<1>11. Stream(v) = Stream(w) \o Bytes(start, n)
  <2> DEFINE s == Stream(w)
             t == Bytes(start, n)
             u == Stream(v)
  <2>1. /\ s \in Seq(Cell) /\ Len(s) = N
        /\ \A j \in 1..N : s[j] = Byte(w[j])
    BY <1>1, StreamOf DEF N
  <2>2. /\ u \in Seq(Cell) /\ Len(u) = N + n
        /\ \A j \in 1 .. N + n : u[j] = Byte(v[j])
    <3>1. /\ u \in Seq(Cell) /\ Len(u) = Len(v)
          /\ \A j \in 1..Len(v) : u[j] = Byte(v[j])
      BY <1>3, StreamOf
    <3> QED BY <1>3, <3>1
  <2>3. /\ t \in Seq(Cell) /\ Len(t) = n
        /\ \A j \in 1..n : t[j] = Byte(start + j - 1)
    BY BytesFacts
  <2> HIDE DEF s, t, u
  <2>4. /\ s \o t \in Seq(Cell) /\ Len(s \o t) = N + n
        /\ \A i \in 1 .. N + n : (s \o t)[i] = IF i <= N THEN s[i] ELSE t[i - N]
    <3>1. /\ s \o t \in Seq(Cell) /\ Len(s \o t) = Len(s) + Len(t)
          /\ \A i \in 1 .. Len(s) + Len(t) :
               (s \o t)[i] = IF i <= Len(s) THEN s[i] ELSE t[i - Len(s)]
      BY <2>1, <2>3, ConcatProperties
    <3> QED BY <2>1, <2>3, <3>1
  <2>5. ASSUME NEW i \in 1 .. N + n PROVE u[i] = (s \o t)[i]
    <3>1. CASE i \in 1..N
      <4>1. i <= N
        BY <1>1, <3>1
      <4> QED BY <1>5, <2>1, <2>2, <2>4, <3>1, <4>1
    <3>2. CASE \E k \in 1..n : i = N + k
      <4>1. PICK k \in 1..n : i = N + k
        BY <3>2
      <4>2. ~(i <= N) /\ i - N = k
        BY <1>1, <4>1
      <4>3. v[i] = start + k - 1
        BY <1>6, <4>1
      <4> QED BY <2>2, <2>3, <2>4, <4>2, <4>3
    <3> QED BY <1>7, <3>1, <3>2
  <2>6. u = s \o t
    BY <2>2, <2>4, <2>5, SeqEqual
  <2> QED BY <2>6 DEF s, t, u
<1> QED BY <1>3, <1>8, <1>9, <1>10, <1>11 DEF v, more, N

(* The offsets of the chunks that are flushed next. *)
LEMMA OffsetsContinue ==
  ASSUME Holding, NEW c \in Nat,
         Len(file) = 4 + Len(chunks) * (ChunkSize + 1),
         \A j \in 1..Len(chunks) : chunks[j] = Offset(j)
  PROVE  LET all == chunks \o ChunkOffsets(c) IN
         /\ Len(all) = Len(chunks) + c
         /\ \A j \in 1 .. Len(chunks) + c : all[j] = Offset(j)
<1> DEFINE C == Len(chunks)
           J == ChunkSize + 1
           more == ChunkOffsets(c)
           all == chunks \o more
<1>1. chunks \in Seq(Nat) /\ C \in Nat /\ J \in Nat \ {0} /\ Len(file) \in Nat
  BY LenProperties, WritersAssumption, SMTT(30) DEF Holding
<1>2. more \in Seq(Nat) /\ Len(more) = c
  BY ChunkOffsetsFacts DEF Holding
<1>3. ASSUME NEW i \in 1..c
      PROVE  more[i] = Offset(C + i)
  <2>1. more[i] = (Len(file) + (i - 1) * J - 3) % Word
    BY HeaderSectionsFacts DEF ChunkOffsets
  <2>2. Len(file) + (i - 1) * J - 3 = 1 + ((C + i) - 1) * J
    <3> HIDE DEF J, C
    <3>1. ((C + i) - 1) * J = C * J + (i - 1) * J
      BY <1>1
    <3>2. Len(file) = 4 + C * J /\ C * J \in Nat /\ (i - 1) * J \in Int
      BY <1>1 DEF C, J
    <3> QED BY <3>1, <3>2
  <2>3. more[i] = (1 + ((C + i) - 1) * J) % Word
    BY <2>1, <2>2
  <2> QED BY <2>3 DEF Offset
<1> HIDE DEF more
<1>4. /\ Len(all) = C + c
      /\ \A i \in 1 .. C + c : all[i] = IF i <= C THEN chunks[i] ELSE more[i - C]
  <2>1. /\ Len(all) = Len(chunks) + Len(more)
        /\ \A i \in 1 .. Len(chunks) + Len(more) :
             all[i] = IF i <= Len(chunks) THEN chunks[i] ELSE more[i - Len(chunks)]
    BY <1>1, <1>2, ConcatProperties
  <2> QED BY <1>2, <2>1
<1> HIDE DEF all
<1>5. ASSUME NEW j \in 1 .. C + c PROVE all[j] = Offset(j)
  <2>1. CASE j <= C
    <3>1. j \in 1..C
      BY <1>1, <2>1
    <3> QED BY <1>4, <2>1, <3>1
  <2>2. CASE ~(j <= C)
    <3>1. j - C \in 1..c /\ C + (j - C) = j
      BY <1>1, <2>2
    <3>2. all[j] = more[j - C]
      BY <1>4, <2>2
    <3>3. more[j - C] = Offset(C + (j - C))
      BY <1>3, <3>1
    <3> QED BY <3>1, <3>2, <3>3
  <2> QED BY <2>1, <2>2
<1> QED BY <1>4, <1>5 DEF all, more, C

LEMMA Reassociate ==
  ASSUME NEW a \in Seq(Cell), NEW b \in Seq(Cell), NEW c \in Seq(Cell)
  PROVE  (a \o b) \o c = a \o (b \o c)
BY ConcatAssociative

(* Flushing c chunks more, of what is in the buffer and of what has come.  *)
LEMMA FlushMore ==
  ASSUME Holding, NEW w \in Seq(Nat), Streamed(w), NEW t \in Seq(Cell),
         NEW c \in Nat, c * ChunkSize <= Len(buffer \o t)
  PROVE  LET u == Stream(w) \o t
             m == Len(chunks) + c
             stream == buffer \o t
             all == chunks \o ChunkOffsets(c)
         IN  /\ u \in Seq(Cell) /\ m \in Nat /\ m * ChunkSize <= Len(u)
             /\ Len(u) = Len(w) + Len(t)
             /\ file \o Chunked(stream, c) = Opening \o Chunked(u, m)
             /\ Len(file \o Chunked(stream, c)) = 4 + m * (ChunkSize + 1)
             /\ SubSeq(stream, c * ChunkSize + 1, Len(stream))
                  = SubSeq(u, m * ChunkSize + 1, Len(u))
             /\ Len(all) = m /\ \A j \in 1..m : all[j] = Offset(j)
<1> DEFINE K == ChunkSize
           J == ChunkSize + 1
           C == Len(chunks)
           s == Stream(w)
           p == C * K
           u == s \o t
           m == C + c
           stream == buffer \o t
<1>1. /\ s \in Seq(Cell) /\ Len(s) = Len(w) /\ Len(w) \in Nat
      /\ C \in Nat /\ K \in Nat \ {0} /\ J \in Nat \ {0} /\ p \in Nat
      /\ p <= Len(s) /\ m \in Nat
  <2>1. chunks \in Seq(Nat)
    BY DEF Holding
  <2>2. C \in Nat /\ K \in Nat \ {0} /\ J \in Nat \ {0}
    BY <2>1, LenProperties, WritersAssumption, SMTT(30)
  <2>3. p \in Nat
    BY <2>2
  <2>4. p <= Len(w)
    BY DEF Streamed
  <2> QED BY <2>2, <2>3, <2>4, StreamOf
<1>2. buffer = SubSeq(s, p + 1, Len(s)) /\ file = Opening \o Chunked(s, C)
  BY <1>1 DEF Streamed
<1> HIDE DEF s, p, C
<1>3. /\ stream \in Seq(Cell) /\ Len(stream) = Len(u) - p
      /\ Len(u) = Len(s) + Len(t) /\ u \in Seq(Cell)
      /\ \A x \in 1 .. Len(u) - p : stream[x] = u[p + x]
  <2> DEFINE rest == SubSeq(s, p + 1, Len(s))
  <2>1. s \in Seq(Cell) /\ p \in Nat /\ p <= Len(s)
    BY <1>1
  <2>2. /\ rest \o t \in Seq(Cell) /\ Len(rest \o t) = Len(s \o t) - p
        /\ Len(s \o t) = Len(s) + Len(t) /\ s \o t \in Seq(Cell)
        /\ \A x \in 1 .. Len(s \o t) - p : (rest \o t)[x] = (s \o t)[p + x]
    BY <2>1, RestOfConcat
  <2>3. buffer = rest
    BY <1>2
  <2> HIDE DEF rest
  <2> QED BY <2>2, <2>3
<1>4. m * K <= Len(u) /\ m * K = p + c * K /\ c * K \in Nat
      /\ Len(stream) \in Nat /\ Len(u) \in Nat /\ c * K <= Len(stream)
      /\ m * J = C * J + c * J /\ C * J \in Nat /\ c * J \in Nat
  <2>1. c * K <= Len(stream)
    OBVIOUS
  <2>2. Len(stream) \in Nat /\ Len(u) \in Nat
    BY <1>3, LenProperties
  <2> HIDE DEF stream, u, K, J
  <2>3. m * K = C * K + c * K /\ c * K \in Nat
    BY <1>1
  <2>4. m * J = C * J + c * J /\ C * J \in Nat /\ c * J \in Nat
    BY <1>1
  <2> DEFINE q == c * K
  <2>5. q \in Nat /\ q <= Len(u) - p
    BY <1>3, <2>1, <2>3
  <2> HIDE DEF q
  <2>6. p + q <= Len(u)
    BY <1>1, <2>2, <2>5
  <2>7. p = C * K
    BY DEF p, K
  <2> QED BY <2>1, <2>2, <2>3, <2>4, <2>6, <2>7 DEF q
<1>5. /\ Chunked(s, C) \o Chunked(stream, c) = Chunked(u, m)
      /\ Chunked(s, C) \in Seq(Cell) /\ Len(Chunked(s, C)) = C * J
  <2>1. C * K <= Len(s) /\ (C + c) * K <= Len(s \o t)
    BY <1>1, <1>4 DEF p
  <2>2. SubSeq(s, C * K + 1, Len(s)) = buffer
    BY <1>2 DEF p
  <2> DEFINE rest == SubSeq(s, C * K + 1, Len(s))
  <2>3. /\ Chunked(s, C) \o Chunked(rest \o t, c) = Chunked(s \o t, C + c)
        /\ Chunked(s, C) \in Seq(Cell)
        /\ Len(Chunked(s, C)) = C * (ChunkSize + 1)
    BY <1>1, <2>1, ChunkedContinues
  <2> HIDE DEF rest
  <2>4. rest = buffer
    BY <2>2 DEF rest
  <2> QED BY <2>3, <2>4
<1>6. Chunked(stream, c) \in Seq(Cell) /\ Len(Chunked(stream, c)) = c * J
  BY <1>3, <1>4, ChunkedFacts
<1> HIDE DEF stream, u, m, J
<1>7. /\ file \o Chunked(stream, c) = Opening \o Chunked(u, m)
      /\ Len(file \o Chunked(stream, c)) = 4 + m * J
      /\ Len(file) = 4 + C * J
  <2> DEFINE X == Chunked(s, C)
             Y == Chunked(stream, c)
  <2>1. X \in Seq(Cell) /\ Y \in Seq(Cell) /\ Opening \in Seq(Cell)
        /\ Len(X) = C * J /\ Len(Y) = c * J /\ Len(Opening) = 4
    BY <1>5, <1>6, OpeningFacts
  <2>2. X \o Y = Chunked(u, m)
    BY <1>5
  <2>3. file = Opening \o X
    BY <1>2
  <2> HIDE DEF X, Y
  <2>4. (Opening \o X) \o Y = Opening \o (X \o Y)
    <3>1. X \in Seq(Cell) /\ Y \in Seq(Cell) /\ Opening \in Seq(Cell)
      BY <2>1
    <3> QED BY <3>1, Reassociate
  <2>5. /\ Opening \o X \in Seq(Cell) /\ Len(Opening \o X) = Len(Opening) + Len(X)
    <3>1. X \in Seq(Cell) /\ Opening \in Seq(Cell)
      BY <2>1
    <3> QED BY <3>1, ConcatProperties
  <2>6. Len((Opening \o X) \o Y) = Len(Opening \o X) + Len(Y)
    <3>1. Y \in Seq(Cell) /\ Opening \o X \in Seq(Cell)
      BY <2>1, <2>5
    <3> QED BY <3>1, ConcatProperties
  <2>7. Len((Opening \o X) \o Y) = 4 + m * J
    BY <1>4, <2>1, <2>5, <2>6, SMTT(30)
  <2>8. Len(file) = 4 + C * J
    BY <2>1, <2>3, <2>5
  <2> QED BY <2>2, <2>3, <2>4, <2>7, <2>8 DEF Y
<1>8. SubSeq(stream, c * K + 1, Len(stream)) = SubSeq(u, m * K + 1, Len(u))
  <2> DEFINE q == c * K
             r == m * K
             X == SubSeq(stream, q + 1, Len(stream))
             Y == SubSeq(u, r + 1, Len(u))
             n == Len(u) - r
  <2>1. /\ q \in Nat /\ r \in Nat /\ r = p + q /\ r <= Len(u) /\ q <= Len(stream)
        /\ p \in Nat /\ Len(u) \in Nat /\ Len(stream) = Len(u) - p
    BY <1>1, <1>3, <1>4
  <2> HIDE DEF q, r
  <2>2. n \in Nat /\ n = Len(stream) - q
    BY <2>1
  <2>3. /\ X \in Seq(Cell) /\ Len(X) = Len(stream) - q
        /\ \A x \in 1 .. Len(stream) - q : X[x] = stream[q + x]
    BY <1>3, <2>1, RestFacts
  <2>4. /\ Y \in Seq(Cell) /\ Len(Y) = Len(u) - r
        /\ \A x \in 1 .. Len(u) - r : Y[x] = u[r + x]
    BY <1>3, <2>1, RestFacts
  <2> HIDE DEF X, Y
  <2>5. ASSUME NEW x \in 1..n PROVE X[x] = Y[x]
    <3>1. q + x \in 1 .. Len(u) - p /\ p + (q + x) = r + x
      BY <2>1
    <3>2. stream[q + x] = u[p + (q + x)]
      BY <1>3, <3>1
    <3>3. X[x] = stream[q + x] /\ Y[x] = u[r + x]
      BY <2>2, <2>3, <2>4
    <3> QED BY <3>1, <3>2, <3>3
  <2>6. Len(X) = n /\ Len(Y) = n
    BY <2>2, <2>3, <2>4
  <2> HIDE DEF n
  <2>7. X = Y
    BY <2>3, <2>4, <2>5, <2>6, SeqEqual
  <2> QED BY <2>7 DEF X, Y, q, r
<1>9. /\ Len(chunks \o ChunkOffsets(c)) = m
      /\ \A j \in 1..m : (chunks \o ChunkOffsets(c))[j] = Offset(j)
  <2>1. Len(file) = 4 + Len(chunks) * (ChunkSize + 1)
    BY <1>7 DEF C, J
  <2>2. \A j \in 1..Len(chunks) : chunks[j] = Offset(j)
    BY DEF Streamed
  <2> QED BY <2>1, <2>2, OffsetsContinue DEF m, C
<1> QED BY <1>1, <1>3, <1>4, <1>7, <1>8, <1>9 DEF u, m, stream, s, C, J, p

(* The writer in between.                                                  *)
Streaming == \E w : Listed(w) /\ Behind(w) /\ Streamed(w)

LEMMA NoCells ==
  ASSUME NEW s \in Seq(Cell), Len(s) = 0
  PROVE  s = <<>>
BY EmptySeq

LEMMA OpeningStreams ==
  ASSUME given' = {}, buffer' = <<>>, chunks' = <<>>, file' = Opening
  PROVE  Streaming'
<1> DEFINE w == <<>>
           s == Stream(w)
<1>1. w \in Seq(Nat) /\ Len(w) = 0
  OBVIOUS
<1>2. s \in Seq(Cell) /\ Len(s) = 0
  BY <1>1, StreamOf
<1>3. 0 * ChunkSize = 0 /\ 0 * (ChunkSize + 1) = 0 /\ ChunkSize \in Nat
  BY WritersAssumption
<1> HIDE DEF s
<1>4. Chunked(s, 0) = <<>>
  <2>1. Chunked(s, 0) \in Seq(Cell) /\ Len(Chunked(s, 0)) = 0 * (ChunkSize + 1)
    <3>1. 0 \in Nat /\ 0 * ChunkSize <= Len(s)
      BY <1>2, <1>3
    <3> QED BY <1>2, <3>1, ChunkedFacts
  <2> QED BY <1>3, <2>1, NoCells
<1>5. SubSeq(s, 0 * ChunkSize + 1, 0) = <<>>
  <2>1. SubSeq(s, 0 + 1, Len(s)) \in Seq(Cell) /\ Len(SubSeq(s, 0 + 1, Len(s))) = 0
    BY <1>2, RestFacts
  <2>2. SubSeq(s, 0 + 1, Len(s)) = <<>>
    BY <2>1, NoCells
  <2> QED BY <1>2, <1>3, <2>2
<1>6. Opening \o <<>> = Opening
  BY OpeningFacts, ConcatEmptySeq
<1>7. Listed(w)'
  BY <1>1 DEF Listed
<1>8. Behind(w)'
  BY <1>1 DEF Behind
<1>9. Streamed(w)'
  <2>1. Len(chunks') = 0 /\ 1..0 = {}
    OBVIOUS
  <2>2. Len(chunks') * ChunkSize <= Len(w)
    BY <1>1, <1>3, <2>1
  <2>3. file' = Opening \o Chunked(s, Len(chunks'))
    BY <1>4, <1>6, <2>1
  <2>4. buffer' = SubSeq(s, Len(chunks') * ChunkSize + 1, Len(w))
    BY <1>1, <1>5, <2>1
  <2>5. \A j \in 1..Len(chunks') : chunks'[j] = Offset(j)
    BY <2>1
  <2> QED BY <2>2, <2>3, <2>4, <2>5 DEF Streamed, s
<1> QED BY <1>7, <1>8, <1>9 DEF Streaming


LEMMA SkipStreams ==
  ASSUME Shape, Streaming, Skip
  PROVE  Streaming'
<1>1. ~AtEnd /\ Settled /\ Walking /\ runs' = runs
  BY DEF Shape, Skip, setting
<1>2. PICK w : Listed(w) /\ Behind(w) /\ Streamed(w)
  BY DEF Streaming
<1>3. PICK n \in 1..RestOfRun : Advance(n)
  BY <1>1, SkipFits
<1>4. Listed(w)' /\ Streamed(w)'
  BY <1>2 DEF Skip, Listed, Streamed
<1>5. Behind(w)'
  <2> SUFFICES ASSUME ~AtEnd', NEW j \in 1..Len(w) PROVE w[j] < Address'
    BY DEF Behind
  <2>1. Address' >= Address + n /\ Address' \in Nat
    BY <1>1, <1>3, AdvanceMoves
  <2>2. w[j] < Address
    BY <1>1, <1>2 DEF Behind
  <2>3. w[j] \in Nat /\ Address \in Nat /\ n \in Nat
    <3>1. w \in Seq(Nat)
      BY <1>2 DEF Listed
    <3>2. Address \in Nat /\ RestOfRun \in Nat
      BY <1>1, WalkFacts
    <3> QED BY <3>1, <3>2, ElementOfSeq
  <2> QED BY <2>1, <2>2, <2>3
<1> QED BY <1>4, <1>5 DEF Streaming

LEMMA WriteStreams ==
  ASSUME Shape, Streaming, ~AtEnd, NEW n \in 1..RestOfRun, Accepted(n),
         LET stream == buffer \o Bytes(Address, n)
             c == FullChunks(Len(stream))
         IN /\ file' = file \o Chunked(stream, c)
            /\ buffer' = SubSeq(stream, c * ChunkSize + 1, Len(stream))
            /\ chunks' = chunks \o ChunkOffsets(c)
  PROVE  Streaming'
<1> DEFINE start == Address
           t == Bytes(start, n)
           stream == buffer \o t
           c == FullChunks(Len(stream))
           all == chunks \o ChunkOffsets(c)
<1>1. Settled /\ Walking /\ Holding /\ runs' = runs
  BY DEF Shape, Accepted, setting
<1>2. PICK w : Listed(w) /\ Behind(w) /\ Streamed(w)
  BY DEF Streaming
<1>3. start \in Nat /\ n \in Nat \ {0} /\ RestOfRun \in Nat
  BY <1>1, WalkFacts
<1>4. t \in Seq(Cell) /\ Len(t) = n
  BY <1>3, BytesFacts
<1>5. c \in Nat /\ c * ChunkSize <= Len(stream)
  BY <1>1, <1>3, StreamFacts
<1>6. /\ file' = file \o Chunked(stream, c)
      /\ buffer' = SubSeq(stream, c * ChunkSize + 1, Len(stream))
      /\ chunks' = all
  OBVIOUS
<1>7. given' = given \cup {start + k : k \in 0 .. n - 1}
  BY DEF Accepted, Handed
<1>8. \A j \in 1..Len(w) : w[j] < start
  BY <1>2 DEF Behind
<1> DEFINE more == [k \in 1..n |-> start + k - 1]
           list == w \o more
           u == Stream(w) \o t
           m == Len(chunks) + c
<1> HIDE DEF start, c
<1>9. /\ list \in Seq(Nat) /\ Len(list) = Len(w) + n
      /\ {list[j] : j \in 1..Len(list)} = given \cup {start + k : k \in 0 .. n - 1}
      /\ \A i, j \in 1..Len(list) : i < j => list[i] < list[j]
      /\ \A j \in 1..Len(list) : list[j] < start + n
      /\ Stream(list) = u
  BY <1>2, <1>3, <1>8, ListedMore
<1> HIDE DEF list
<1>10. PICK v : v = list
  OBVIOUS
<1> HIDE DEF t
<1>11. /\ m * ChunkSize <= Len(u) /\ Len(u) = Len(w) + Len(t)
       /\ file \o Chunked(stream, c) = Opening \o Chunked(u, m)
       /\ SubSeq(stream, c * ChunkSize + 1, Len(stream))
            = SubSeq(u, m * ChunkSize + 1, Len(u))
       /\ Len(all) = m /\ \A j \in 1..m : all[j] = Offset(j)
  <2>1. w \in Seq(Nat)
    BY <1>2 DEF Listed
  <2> QED BY <1>1, <1>2, <1>4, <1>5, <2>1, FlushMore, ZenonT(30)
<1> HIDE DEF u, m, all, stream
<1>12. Listed(v)'
  <2>1. v \in Seq(Nat) /\ \A i, j \in 1..Len(v) : i < j => v[i] < v[j]
    BY <1>9, <1>10
  <2>2. given' = {v[j] : j \in 1..Len(v)}
    BY <1>7, <1>9, <1>10
  <2> QED BY <2>1, <2>2 DEF Listed
<1>13. Behind(v)'
  <2> SUFFICES ASSUME ~AtEnd', NEW j \in 1..Len(v) PROVE v[j] < Address'
    BY DEF Behind
  <2>1. Address' >= start + n /\ Address' \in Nat
    BY <1>1, AdvanceMoves DEF Accepted, start
  <2>2. v[j] < start + n /\ v[j] \in Nat
    BY <1>9, <1>10, ElementOfSeq
  <2> QED BY <1>3, <2>1, <2>2
<1>14. Streamed(v)'
  <2>1. Len(u) = Len(v) /\ Len(chunks') = m
    BY <1>4, <1>6, <1>9, <1>11, <1>10
  <2>2. Len(chunks') * ChunkSize <= Len(v)
    BY <1>11, <2>1
  <2>3. file' = Opening \o Chunked(Stream(v), Len(chunks'))
    BY <1>6, <1>9, <1>11, <1>10, <2>1
  <2>4. buffer' = SubSeq(Stream(v), Len(chunks') * ChunkSize + 1, Len(v))
    BY <1>6, <1>9, <1>11, <1>10, <2>1
  <2>5. \A j \in 1..Len(chunks') : chunks'[j] = Offset(j)
    <3>1. chunks' = all /\ \A j \in 1..m : all[j] = Offset(j)
      BY <1>6, <1>11
    <3> QED BY <2>1, <3>1, Zenon
  <2> QED BY <2>2, <2>3, <2>4, <2>5 DEF Streamed
<1> QED BY <1>12, <1>13, <1>14 DEF Streaming


---------------------------------------------------------------------------
(* What an E01 image holds when it is sealed.                              *)

Reads(f, p) == IF p < Len(f) THEN f[p + 1] ELSE Zero

(* What is read once the cells have been written at a position. *)
Rewritten(f, at, cells, p) ==
  IF p \in at .. at + Len(cells) - 1 THEN cells[p - at + 1] ELSE Reads(f, p)

(* A write changes what is read where it went, and nothing else. *)
LEMMA ReadsOverlay ==
  ASSUME NEW f \in Seq(Cell), NEW at \in Nat, NEW cells \in Seq(Cell),
         NEW p \in Nat
  PROVE  Reads(Overlay(f, at, cells), p) = Rewritten(f, at, cells, p)
<1> DEFINE g == Overlay(f, at, cells)
           n == Len(cells)
           L == Len(f)
           M == Len(g)
<1> SUFFICES Reads(g, p) = IF p \in at .. at + n - 1 THEN cells[p - at + 1]
                           ELSE Reads(f, p)
  BY DEF Rewritten
<1>1. n \in Nat /\ L \in Nat /\ M = IF L < at + n THEN at + n ELSE L
  BY OverlayFacts, LenProperties
<1>2. ASSUME p + 1 \in 1..M
      PROVE  g[p + 1] = IF p + 1 \in at + 1 .. at + n THEN cells[(p + 1) - at]
                        ELSE IF p + 1 <= L THEN f[p + 1] ELSE Zero
  BY <1>2, OverlayCells
<1> HIDE DEF g, n, L, M
<1>3. Reads(g, p) = IF p < M THEN g[p + 1] ELSE Zero
  BY DEF Reads, M
<1>4. Reads(f, p) = IF p < L THEN f[p + 1] ELSE Zero
  BY DEF Reads, L
<1>5. CASE p \in at .. at + n - 1
  <2>1. /\ p < M /\ p + 1 \in 1..M /\ p + 1 \in at + 1 .. at + n
        /\ (p + 1) - at = p - at + 1
    BY <1>1, <1>5
  <2> QED BY <1>2, <1>3, <1>5, <2>1
<1>6. CASE p \notin at .. at + n - 1
  <2>1. CASE p < M
    <3>1. /\ p + 1 \in 1..M /\ p + 1 \notin at + 1 .. at + n
          /\ p + 1 <= L <=> p < L
      BY <1>1, <1>6, <2>1
    <3> QED BY <1>2, <1>3, <1>4, <1>6, <2>1, <3>1
  <2>2. CASE ~(p < M)
    <3>1. ~(p < L)
      BY <1>1, <2>2
    <3> QED BY <1>3, <1>4, <1>6, <2>2, <3>1
  <2> QED BY <2>1, <2>2
<1> QED BY <1>5, <1>6

LEMMA LastSectionsCells ==
  ASSUME NEW list \in Seq(Nat)
  PROVE  /\ LastSections(list) \in Seq(Cell) /\ Len(LastSections(list)) = 3
         /\ LastSections(list)[1] = Table(list)
         /\ LastSections(list)[2] = Mark("hash")
         /\ LastSections(list)[3] = Mark("done")
BY LastSectionsFacts DEF LastSections

LEMMA KindFacts ==
  /\ \A k : Mark(k).kind = k
  /\ Zero.kind = "zero"
  /\ \A n : Sectors(n).kind = "sectors" /\ Sectors(n).next = n
  /\ \A list : Table(list).kind = "table" /\ Table(list).chunks = list
BY DEF Mark, Zero, Sectors, Table

(* Where a sealed image is written last, in every outcome of the two seeks *)
(* and of the write that nobody checks.                                    *)
OnceSealed(full, all, back, rewrite, forth) ==
  LET end == Len(full)
      at == IF back THEN SectorsSectionOffset ELSE end
      f == IF rewrite THEN Overlay(full, at, <<Sectors(end)>>) ELSE full
      on == IF forth THEN end ELSE IF rewrite THEN at + 1 ELSE at
  IN Overlay(f, on, LastSections(all))

LEMMA SealedReads ==
  ASSUME NEW full \in Seq(Cell), NEW all \in Seq(Nat), NEW back \in BOOLEAN,
         NEW rewrite \in BOOLEAN, NEW forth \in BOOLEAN, NEW p \in Nat
  PROVE  LET end == Len(full)
             at == IF back THEN 3 ELSE end
             on == IF forth THEN end ELSE IF rewrite THEN at + 1 ELSE at
         IN  Reads(OnceSealed(full, all, back, rewrite, forth), p) =
               IF p = on THEN Table(all)
               ELSE IF p = on + 1 THEN Mark("hash")
               ELSE IF p = on + 2 THEN Mark("done")
               ELSE IF rewrite /\ p = at THEN Sectors(end)
               ELSE Reads(full, p)
<1> DEFINE end == Len(full)
           at == IF back THEN SectorsSectionOffset ELSE end
           f == IF rewrite THEN Overlay(full, at, <<Sectors(end)>>) ELSE full
           on == IF forth THEN end ELSE IF rewrite THEN at + 1 ELSE at
           last == LastSections(all)
<1>1. end \in Nat /\ at = (IF back THEN 3 ELSE end) /\ at \in Nat
  BY HeaderSectionsFacts, LenProperties
<1>2. on \in Nat
  BY <1>1
<1>3. /\ last \in Seq(Cell) /\ Len(last) = 3 /\ last[1] = Table(all)
      /\ last[2] = Mark("hash") /\ last[3] = Mark("done")
  BY LastSectionsCells
<1> HIDE DEF end, at, last
<1>4. /\ f \in Seq(Cell)
      /\ Reads(f, p) = IF rewrite /\ p = at THEN Sectors(end) ELSE Reads(full, p)
  <2>1. CASE rewrite
    <3> DEFINE one == <<Sectors(end)>>
    <3>1. one \in Seq(Cell) /\ Len(one) = 1 /\ one[1] = Sectors(end)
      <4>1. Sectors(end) \in Cell
        BY <1>1, CellFacts
      <4> QED BY <4>1
    <3> HIDE DEF one
    <3>2. /\ Overlay(full, at, one) \in Seq(Cell)
          /\ Reads(Overlay(full, at, one), p) =
               IF p \in at .. at + Len(one) - 1 THEN one[p - at + 1]
               ELSE Reads(full, p)
      <4>1. one \in Seq(Cell) /\ at \in Nat
        BY <1>1, <3>1
      <4>2. Overlay(full, at, one) \in Seq(Cell)
        BY <4>1, OverlayFacts
      <4>3. Reads(Overlay(full, at, one), p) = Rewritten(full, at, one, p)
        BY <4>1, ReadsOverlay
      <4> QED BY <4>2, <4>3 DEF Rewritten
    <3>3. p \in at .. at + Len(one) - 1 <=> p = at
      BY <1>1, <3>1
    <3>4. p = at => p - at + 1 = 1
      BY <1>1
    <3>5. f = Overlay(full, at, one)
      BY <2>1 DEF one
    <3> QED BY <2>1, <3>1, <3>2, <3>3, <3>4, <3>5
  <2>2. CASE ~rewrite
    BY <2>2
  <2> QED BY <2>1, <2>2
<1> HIDE DEF f, on
<1>5. Reads(Overlay(f, on, last), p) =
        IF p \in on .. on + Len(last) - 1 THEN last[p - on + 1] ELSE Reads(f, p)
  <2>1. f \in Seq(Cell) /\ on \in Nat /\ last \in Seq(Cell)
    BY <1>2, <1>3, <1>4
  <2>2. Reads(Overlay(f, on, last), p) = Rewritten(f, on, last, p)
    BY <2>1, ReadsOverlay
  <2> QED BY <2>2 DEF Rewritten
<1>6. /\ p \in on .. on + Len(last) - 1 <=> p = on \/ p = on + 1 \/ p = on + 2
      /\ p = on => p - on + 1 = 1
      /\ p = on + 1 => p - on + 1 = 2 /\ p # on
      /\ p = on + 2 => p - on + 1 = 3 /\ p # on /\ p # on + 1
  BY <1>2, <1>3
<1>7. Reads(Overlay(f, on, last), p) =
        IF p = on THEN Table(all)
        ELSE IF p = on + 1 THEN Mark("hash")
        ELSE IF p = on + 2 THEN Mark("done")
        ELSE IF rewrite /\ p = at THEN Sectors(end)
        ELSE Reads(full, p)
  BY <1>3, <1>4, <1>5, <1>6
<1>8. OnceSealed(full, all, back, rewrite, forth) = Overlay(f, on, last)
  BY DEF OnceSealed, f, on, last, at, end
<1>9. on = IF forth THEN Len(full) ELSE IF rewrite THEN at + 1 ELSE at
  BY DEF on, end
<1> QED BY <1>1, <1>7, <1>8, <1>9 DEF end

(* With all three calls the table is found, and every chunk is where it    *)
(* was; without one of them a reader gets to no table.                     *)
LEMMA LinksTell ==
  ASSUME NEW full \in Seq(Cell), NEW all \in Seq(Nat), NEW back \in BOOLEAN,
         NEW rewrite \in BOOLEAN, NEW forth \in BOOLEAN,
         Len(full) >= 6, Reads(full, 0) = Mark("file"),
         Reads(full, 3) = Sectors(0)
  PROVE  LET g == OnceSealed(full, all, back, rewrite, forth) IN
         /\ back /\ rewrite /\ forth =>
              /\ Reads(g, 3) = Sectors(Len(full))
              /\ Reads(g, Len(full)) = Table(all)
              /\ \A p \in 4 .. Len(full) - 1 : Reads(g, p) = Reads(full, p)
         /\ ~(back /\ rewrite /\ forth) =>
              \/ Reads(g, 3).kind # "sectors"
              \/ Reads(g, Reads(g, 3).next).kind # "table"
<1> DEFINE g == OnceSealed(full, all, back, rewrite, forth)
           end == Len(full)
           at == IF back THEN 3 ELSE end
           on == IF forth THEN end ELSE IF rewrite THEN at + 1 ELSE at
<1>1. end \in Nat /\ end >= 6 /\ 0 \in Nat /\ 3 \in Nat
  BY LenProperties
<1>2. \A p \in Nat :
        Reads(g, p) = IF p = on THEN Table(all)
                      ELSE IF p = on + 1 THEN Mark("hash")
                      ELSE IF p = on + 2 THEN Mark("done")
                      ELSE IF rewrite /\ p = at THEN Sectors(end)
                      ELSE Reads(full, p)
  BY SealedReads
<1>3. Reads(full, end) = Zero
  BY <1>1 DEF Reads
<1>4. /\ Reads(full, 0) = Mark("file") /\ Reads(full, 3) = Sectors(0)
  OBVIOUS
<1> HIDE DEF g, end
<1>5. CASE back /\ rewrite /\ forth
  <2>1. at = 3 /\ on = end
    BY <1>5
  <2>2. Reads(g, 3) = Sectors(end) /\ Reads(g, end) = Table(all)
    BY <1>1, <1>2, <1>5, <2>1
  <2>3. \A p \in 4 .. end - 1 : Reads(g, p) = Reads(full, p)
    BY <1>1, <1>2, <2>1
  <2> QED BY <1>5, <2>2, <2>3 DEF g, end
<1>6. CASE ~(back /\ rewrite /\ forth)
  <2>1. CASE back /\ ~rewrite /\ ~forth
    <3>1. Reads(g, 3) = Table(all)
      BY <1>1, <1>2, <2>1
    <3> QED BY <1>6, <3>1, KindFacts DEF g
  <2>2. CASE back /\ rewrite
    <3>1. at = 3 /\ on = 4
      BY <1>6, <2>2
    <3>2. Reads(g, 3) = Sectors(end)
      BY <1>1, <1>2, <2>2, <3>1
    <3>3. Reads(g, end) = IF end = 6 THEN Mark("done") ELSE Zero
      BY <1>1, <1>2, <1>3, <3>1
    <3>4. Reads(g, end).kind # "table"
      BY <3>3, KindFacts
    <3> QED BY <1>6, <3>2, <3>4, KindFacts DEF g
  <2>3. CASE ~back \/ (~rewrite /\ forth)
    <3>1. on >= end /\ on \in Nat /\ (rewrite => at = end)
      BY <1>1, <2>3
    <3>2. Reads(g, 3) = Sectors(0)
      BY <1>1, <1>2, <1>4, <3>1
    <3>3. Reads(g, 0) = Mark("file")
      BY <1>1, <1>2, <1>4, <3>1
    <3>4. Reads(g, 3).next = 0 /\ Mark("file").kind = "file"
      BY <3>2, KindFacts
    <3> QED BY <1>6, <3>3, <3>4 DEF g
  <2> QED BY <1>6, <2>1, <2>2, <2>3
<1> QED BY <1>5, <1>6


(* A reader finds the table, and behind the sectors section the chunks.    *)
Linked(u) ==
  LET size == Len(chunks) * (ChunkSize + 1) IN
  /\ Reads(file, 3) = Sectors(4 + size)
  /\ Reads(file, 4 + size) = Table(chunks)
  /\ \A i \in 1..size : Reads(file, 3 + i) = Chunked(u, Len(chunks))[i]

(* A reader finds no table. *)
Unlinked ==
  \/ Reads(file, 3).kind # "sectors"
  \/ Reads(file, Reads(file, 3).next).kind # "table"

(* The stream w, filled up with z zeros, is in full chunks. *)
Finished(w, z) ==
  /\ Listed(w) /\ Len(w) > 0 /\ z \in 0 .. ChunkSize - 1
  /\ Len(chunks) * ChunkSize = Len(w) + z
  /\ \A j \in 1..Len(chunks) : chunks[j] = Offset(j)
  /\ linked => Linked(Stream(w) \o Zeros(z))
  /\ ~linked => Unlinked

(* The last chunk, filled up and flushed. *)
LEMMA FlushRest ==
  ASSUME Holding, NEW w \in Seq(Nat), Streamed(w), Len(w) > 0
  PROVE  LET rest == IF buffer = <<>> THEN 0 ELSE 1
             z == rest * ChunkSize - Len(buffer)
             u == Stream(w) \o Zeros(z)
             m == Len(chunks) + rest
             full == file \o Chunked(buffer \o Zeros(z), rest)
             all == chunks \o ChunkOffsets(rest)
         IN  /\ z \in 0 .. ChunkSize - 1 /\ m * ChunkSize = Len(w) + z
             /\ m \in Nat \ {0}
             /\ u \in Seq(Cell) /\ Len(u) = Len(w) + z
             /\ full = Opening \o Chunked(u, m) /\ full \in Seq(Cell)
             /\ Len(full) = 4 + m * (ChunkSize + 1)
             /\ all \in Seq(Nat)
             /\ Len(all) = m /\ \A j \in 1..m : all[j] = Offset(j)
<1> DEFINE K == ChunkSize
           C == Len(chunks)
           rest == IF buffer = <<>> THEN 0 ELSE 1
           z == rest * K - Len(buffer)
           t == Zeros(z)
           u == Stream(w) \o t
           m == C + rest
           full == file \o Chunked(buffer \o t, rest)
           all == chunks \o ChunkOffsets(rest)
<1>1. /\ K \in Nat \ {0} /\ C \in Nat /\ Len(buffer) \in 0 .. K - 1
      /\ Len(w) \in Nat /\ buffer \in Seq(Cell) /\ chunks \in Seq(Nat)
      /\ file \in Seq(Cell)
  BY LenProperties, WritersAssumption, SMTT(30) DEF Holding
<1>2. /\ rest \in Nat /\ z \in 0 .. K - 1 /\ rest * K = Len(buffer) + z
      /\ rest * K \in Nat
  <2>1. CASE buffer = <<>>
    BY <1>1, <2>1
  <2>2. CASE buffer # <<>>
    <3>1. Len(buffer) # 0
      BY <1>1, <2>2, NoCells
    <3> QED BY <1>1, <2>2, <3>1
  <2> QED BY <2>1, <2>2
<1>3. /\ C * K <= Len(w) /\ C * K \in Nat /\ Len(buffer) = Len(w) - C * K
  <2> DEFINE p == C * K
  <2>1. p <= Len(w) /\ p \in Nat
    BY <1>1 DEF Streamed
  <2>2. buffer = SubSeq(Stream(w), p + 1, Len(w))
    BY DEF Streamed
  <2>3. Stream(w) \in Seq(Cell) /\ Len(Stream(w)) = Len(w)
    BY StreamOf
  <2> HIDE DEF p
  <2>4. Len(SubSeq(Stream(w), p + 1, Len(Stream(w)))) = Len(Stream(w)) - p
    BY <2>1, <2>3, RestFacts
  <2> QED BY <2>1, <2>2, <2>3, <2>4 DEF p
<1> HIDE DEF rest, z
<1>4. /\ m * K = Len(w) + z /\ m \in Nat /\ m * K = C * K + rest * K
  <2> HIDE DEF K, C
  <2>1. m * K = C * K + rest * K /\ m \in Nat
    BY <1>1, <1>2
  <2> DEFINE p == C * K
             q == rest * K
  <2>2. p \in Nat /\ q = Len(buffer) + z /\ Len(buffer) = Len(w) - p
        /\ z \in Nat /\ Len(w) \in Nat /\ Len(buffer) \in Nat
    BY <1>1, <1>2, <1>3
  <2> HIDE DEF p, q
  <2>3. p + q = Len(w) + z
    BY <2>2
  <2> QED BY <2>1, <2>3 DEF p, q
<1>5. m # 0
  <2>1. 0 * K = 0
    BY <1>1
  <2>2. Len(w) + z # 0
    BY <1>1, <1>2
  <2> QED BY <1>4, <2>1, <2>2
<1>6. t \in Seq(Cell) /\ Len(t) = z
  <2>1. z \in Nat
    BY <1>1, <1>2
  <2> QED BY <2>1, ZerosFacts
<1> HIDE DEF t
<1>7. rest * ChunkSize <= Len(buffer \o t)
  <2>1. Len(buffer \o t) = Len(buffer) + Len(t)
    BY <1>1, <1>6, ConcatProperties
  <2>2. rest * K <= Len(buffer \o t)
    BY <1>1, <1>2, <1>6, <2>1
  <2> QED BY <2>2
<1>8. /\ u \in Seq(Cell) /\ Len(u) = Len(w) + Len(t)
      /\ full = Opening \o Chunked(u, m)
      /\ Len(full) = 4 + m * (ChunkSize + 1)
      /\ Len(all) = m /\ \A j \in 1..m : all[j] = Offset(j)
  BY <1>2, <1>6, <1>7, FlushMore, ZenonT(30)
<1>9. full \in Seq(Cell)
  <2>1. Chunked(u, m) \in Seq(Cell)
    <3>1. m * ChunkSize <= Len(u) /\ u \in Seq(Cell) /\ m \in Nat
      BY <1>1, <1>2, <1>4, <1>6, <1>8
    <3> HIDE DEF u, m
    <3> QED BY <3>1, ChunkedFacts
  <2>2. Opening \in Seq(Cell)
    BY OpeningFacts
  <2>3. Opening \o Chunked(u, m) \in Seq(Cell)
    BY <2>1, <2>2, ConcatProperties
  <2> QED BY <1>8, <2>3
<1>10. all \in Seq(Nat)
  <2>1. ChunkOffsets(rest) \in Seq(Nat)
    BY <1>1, <1>2, ChunkOffsetsFacts
  <2> QED BY <1>1, <2>1, ConcatProperties
<1> HIDE DEF full, all, u, m
<1> QED BY <1>2, <1>4, <1>5, <1>6, <1>8, <1>9, <1>10
        DEF full, all, u, t, z, rest, m, K, C


LEMMA BehindOpening ==
  ASSUME NEW cells \in Seq(Cell)
  PROVE  LET full == Opening \o cells IN
         /\ Reads(full, 0) = Mark("file") /\ Reads(full, 3) = Sectors(0)
         /\ \A i \in 1..Len(cells) : Reads(full, 3 + i) = cells[i]
<1> DEFINE full == Opening \o cells
           n == Len(cells)
<1>1. /\ Opening \in Seq(Cell) /\ Len(Opening) = 4 /\ n \in Nat
      /\ Opening[1] = Mark("file") /\ Opening[4] = Sectors(0)
  BY OpeningFacts, LenProperties
<1>2. /\ Len(full) = Len(Opening) + n
      /\ \A i \in 1 .. Len(Opening) + n :
           full[i] = IF i <= Len(Opening) THEN Opening[i]
                     ELSE cells[i - Len(Opening)]
  <2>1. Opening \in Seq(Cell)
    BY <1>1
  <2> QED BY <2>1, ConcatProperties
<1>3. /\ Len(full) = 4 + n
      /\ \A i \in 1 .. 4 + n : full[i] = IF i <= 4 THEN Opening[i] ELSE cells[i - 4]
  BY <1>1, <1>2
<1> HIDE DEF full, n
<1>4. Reads(full, 0) = full[1] /\ Reads(full, 3) = full[4]
  BY <1>1, <1>3 DEF Reads
<1>5. full[1] = Opening[1] /\ full[4] = Opening[4]
  BY <1>1, <1>3
<1>6. ASSUME NEW i \in 1..n PROVE Reads(full, 3 + i) = cells[i]
  <2>1. /\ 3 + i < 4 + n /\ (3 + i) + 1 \in 1 .. 4 + n /\ ~((3 + i) + 1 <= 4)
        /\ ((3 + i) + 1) - 4 = i
    BY <1>1
  <2>2. Reads(full, 3 + i) = full[(3 + i) + 1]
    BY <1>3, <2>1 DEF Reads
  <2> QED BY <1>3, <2>1, <2>2
<1> QED BY <1>1, <1>4, <1>5, <1>6 DEF full, n

LEMMA SealStreams ==
  ASSUME Shape, Streaming, E01FlushAndClose, phase' = "sealed", given # {}
  PROVE  (\E w, z : Finished(w, z))'
<1> DEFINE rest == IF buffer = <<>> THEN 0 ELSE 1
           z == rest * ChunkSize - Len(buffer)
           full == file \o Chunked(buffer \o Zeros(z), rest)
           all == chunks \o ChunkOffsets(rest)
           m == Len(chunks) + rest
           size == m * (ChunkSize + 1)
<1>1. PICK back \in BOOLEAN, rewrite \in BOOLEAN, forth \in BOOLEAN :
        /\ file' = OnceSealed(full, all, back, rewrite, forth)
        /\ chunks' = all /\ linked' = (back /\ rewrite /\ forth)
        /\ given' = given
  <2>1. PICK back \in BOOLEAN, rewrite \in BOOLEAN, forth \in BOOLEAN :
          LET sealed == OnceSealed(full, all, back, rewrite, forth) IN
          \/ /\ Stores(sealed, given)
             /\ chunks' = all /\ linked' = (back /\ rewrite /\ forth)
             /\ given' = given
          \/ StoreFails(sealed, given)
    BY DEF E01FlushAndClose, OnceSealed
  <2>2. ASSUME NEW f PROVE ~StoreFails(f, given)
    BY DEF StoreFails, Fail
  <2> QED BY <2>1, <2>2 DEF Stores
<1>2. PICK w : Listed(w) /\ Streamed(w)
  BY DEF Streaming
<1>3. w \in Seq(Nat) /\ Len(w) > 0
  <2>1. w \in Seq(Nat) /\ given = {w[j] : j \in 1..Len(w)}
    BY <1>2 DEF Listed
  <2>2. Len(w) \in Nat
    BY <2>1, LenProperties
  <2>3. Len(w) # 0
    <3>1. Len(w) = 0 => 1..Len(w) = {}
      OBVIOUS
    <3> QED BY <2>1, <3>1
  <2> QED BY <2>1, <2>2, <2>3
<1>4. PICK v : v = z
  OBVIOUS
<1> DEFINE u == Stream(w) \o Zeros(v)
<1>5. Holding
  BY DEF Shape
<1>6. /\ z \in 0 .. ChunkSize - 1 /\ m * ChunkSize = Len(w) + z
      /\ m \in Nat \ {0}
      /\ Stream(w) \o Zeros(z) \in Seq(Cell)
      /\ Len(Stream(w) \o Zeros(z)) = Len(w) + z
      /\ full = Opening \o Chunked(Stream(w) \o Zeros(z), m) /\ full \in Seq(Cell)
      /\ Len(full) = 4 + m * (ChunkSize + 1)
      /\ all \in Seq(Nat)
      /\ Len(all) = m /\ \A j \in 1..m : all[j] = Offset(j)
  BY <1>2, <1>3, <1>5, FlushRest
<1> HIDE DEF z, full, all, m
<1>7. /\ v \in 0 .. ChunkSize - 1 /\ m * ChunkSize = Len(w) + v
      /\ u \in Seq(Cell) /\ Len(u) = Len(w) + v
      /\ full = Opening \o Chunked(u, m) /\ full \in Seq(Cell)
      /\ Len(full) = 4 + size
  BY <1>4, <1>6
<1> HIDE DEF u
<1>8. size \in Nat /\ size >= 2
  <2> DEFINE J == ChunkSize + 1
  <2>1. J \in Nat /\ J >= 2 /\ m \in Nat /\ 1 <= m /\ 1 \in Nat
    <3>1. m \in Nat \ {0}
      BY <1>6
    <3>2. ChunkSize \in Nat \ {0}
      BY WritersAssumption
    <3> QED BY <3>1, <3>2
  <2> HIDE DEF J
  <2>2. 1 * J <= m * J /\ m * J \in Nat /\ 1 * J = J
    BY <2>1, TimesMonotone
  <2> DEFINE q == m * J
  <2>3. q \in Nat /\ J <= q
    BY <2>1, <2>2
  <2> HIDE DEF q
  <2>4. q >= 2
    BY <2>1, <2>3
  <2> QED BY <2>3, <2>4 DEF q, J
<1>9. Chunked(u, m) \in Seq(Cell) /\ Len(Chunked(u, m)) = size
  <2>1. m * ChunkSize <= Len(u)
    <3>1. Len(u) \in Nat
      BY <1>7, LenProperties
    <3> QED BY <1>7, <3>1
  <2> QED BY <1>6, <1>7, <2>1, ChunkedFacts
<1>10. /\ Reads(full, 0) = Mark("file") /\ Reads(full, 3) = Sectors(0)
       /\ \A i \in 1..size : Reads(full, 3 + i) = Chunked(u, m)[i]
  <2> DEFINE cells == Chunked(u, m)
  <2>1. cells \in Seq(Cell) /\ Len(cells) = size /\ full = Opening \o cells
    BY <1>7, <1>9
  <2> HIDE DEF cells
  <2>2. /\ Reads(Opening \o cells, 0) = Mark("file")
        /\ Reads(Opening \o cells, 3) = Sectors(0)
        /\ \A i \in 1..Len(cells) : Reads(Opening \o cells, 3 + i) = cells[i]
    BY <2>1, BehindOpening
  <2> QED BY <2>1, <2>2 DEF cells
<1> HIDE DEF size
<1>11. Len(full) >= 6 /\ Len(full) = 4 + size
  BY <1>7, <1>8
<1>12. /\ back /\ rewrite /\ forth =>
            /\ Reads(file', 3) = Sectors(4 + size)
            /\ Reads(file', 4 + size) = Table(all)
            /\ \A p \in 4 .. 4 + size - 1 : Reads(file', p) = Reads(full, p)
       /\ ~(back /\ rewrite /\ forth) =>
            \/ Reads(file', 3).kind # "sectors"
            \/ Reads(file', Reads(file', 3).next).kind # "table"
  <2> DEFINE g == OnceSealed(full, all, back, rewrite, forth)
  <2>1. /\ back /\ rewrite /\ forth =>
             /\ Reads(g, 3) = Sectors(Len(full))
             /\ Reads(g, Len(full)) = Table(all)
             /\ \A p \in 4 .. Len(full) - 1 : Reads(g, p) = Reads(full, p)
        /\ ~(back /\ rewrite /\ forth) =>
             \/ Reads(g, 3).kind # "sectors"
             \/ Reads(g, Reads(g, 3).next).kind # "table"
    <3>1. /\ full \in Seq(Cell) /\ all \in Seq(Nat) /\ Len(full) >= 6
          /\ Reads(full, 0) = Mark("file") /\ Reads(full, 3) = Sectors(0)
      BY <1>6, <1>7, <1>10, <1>11
    <3> QED BY <3>1, LinksTell
  <2>2. file' = g
    BY <1>1
  <2> HIDE DEF g
  <2>3. Len(full) = 4 + size
    BY <1>11
  <2> HIDE DEF full
  <2>4. back /\ rewrite /\ forth =>
             /\ Reads(file', 3) = Sectors(4 + size)
             /\ Reads(file', 4 + size) = Table(all)
    BY <2>1, <2>2, <2>3
  <2>5. back /\ rewrite /\ forth =>
          \A p \in 4 .. 4 + size - 1 : Reads(file', p) = Reads(full, p)
    <3> SUFFICES ASSUME back /\ rewrite /\ forth, NEW p \in 4 .. 4 + size - 1
                 PROVE  Reads(file', p) = Reads(full, p)
      OBVIOUS
    <3>1. p \in 4 .. Len(full) - 1
      BY <1>8, <2>3
    <3>2. Reads(g, p) = Reads(full, p)
      BY <2>1, <3>1
    <3> QED BY <2>2, <3>2
  <2>6. ~(back /\ rewrite /\ forth) =>
             \/ Reads(file', 3).kind # "sectors"
             \/ Reads(file', Reads(file', 3).next).kind # "table"
    BY <2>1, <2>2
  <2> QED BY <2>4, <2>5, <2>6
<1>13. linked' => Linked(u)'
  <2> SUFFICES ASSUME linked' PROVE Linked(u)'
    OBVIOUS
  <2>1. back /\ rewrite /\ forth
    BY <1>1
  <2>2. Len(chunks') = m /\ chunks' = all
    BY <1>1, <1>6
  <2>3. ASSUME NEW i \in 1..size PROVE Reads(file', 3 + i) = Chunked(u, m)[i]
    <3>1. 3 + i \in 4 .. 4 + size - 1
      BY <1>8
    <3> QED BY <1>10, <1>12, <2>1, <3>1
  <2>4. size = Len(chunks') * (ChunkSize + 1)
    BY <2>2 DEF size
  <2>5. /\ Reads(file', 3) = Sectors(4 + size)
        /\ Reads(file', 4 + size) = Table(chunks')
    BY <1>12, <2>1, <2>2
  <2>6. \A i \in 1..size : Reads(file', 3 + i) = Chunked(u, Len(chunks'))[i]
    BY <2>2, <2>3
  <2> QED BY <2>4, <2>5, <2>6 DEF Linked
<1>14. ~linked' => Unlinked'
  BY <1>1, <1>12 DEF Unlinked
<1>15. Finished(w, v)'
  <2>1. Listed(w)'
    BY <1>1, <1>2 DEF Listed
  <2>2. Len(chunks') = m /\ \A j \in 1..m : chunks'[j] = Offset(j)
    BY <1>1, <1>6
  <2>3. Len(chunks') * ChunkSize = Len(w) + v
    BY <1>7, <2>2
  <2>4. \A j \in 1..Len(chunks') : chunks'[j] = Offset(j)
    BY <2>2
  <2> QED BY <1>3, <1>7, <1>13, <1>14, <2>1, <2>3, <2>4 DEF Finished, u
<1> QED BY <1>15


(* What is known of an E01 image in each phase.                            *)
Chained ==
  format = "e01" =>
    /\ phase = "closed" => buffer = <<>> /\ chunks = <<>> /\ given = {}
    /\ phase = "open" => Streaming
    /\ phase = "sealed" /\ given # {} => \E w, z : Finished(w, z)

LEMMA InitChained == Init => Chained
BY DEF Init, Chained

LEMMA FailChained ==
  ASSUME NEW full, Fail(full)
  PROVE  Chained'
BY DEF Fail, Chained

LEMMA SameChained ==
  ASSUME Chained, UNCHANGED vars
  PROVE  Chained'
<1>1. /\ UNCHANGED <<format, runs, phase, file, buffer, chunks, run, offset>>
      /\ UNCHANGED <<given, linked>>
  BY DEF vars, setting, walk
<1>2. Streaming => Streaming'
  <2> SUFFICES ASSUME NEW w, Listed(w), Behind(w), Streamed(w)
               PROVE  Streaming'
    BY DEF Streaming
  <2>1. Listed(w)' /\ Behind(w)' /\ Streamed(w)'
    BY <1>1 DEF Listed, Behind, Streamed, AtEnd, Address
  <2> QED BY <2>1 DEF Streaming
<1>3. ASSUME NEW w, NEW z, Finished(w, z) PROVE Finished(w, z)'
  BY <1>1, <1>3 DEF Finished, Listed, Linked, Unlinked
<1> QED BY <1>1, <1>2, <1>3 DEF Chained

LEMMA NextChained == Shape /\ Chained /\ [Next]_vars => Chained'
<1> SUFFICES ASSUME Shape, Chained, [Next]_vars, format = "e01", format' = "e01"
             PROVE  Chained'
  BY ZenonT(30) DEF Chained, Next, RawPreflightAndOpen, ZdmpPreflightAndOpen,
         E01PreflightAndOpen, WriteAt, RawWriteAt, ZdmpWriteAt, E01WriteAt, Skip,
         FlushAndClose, E01FlushAndClose, OthersTake, Opens, StoreFails, Fail,
         Accepted, setting, vars
<1>1. ASSUME NEW f, NEW written, StoreFails(f, written) PROVE Chained'
  BY <1>1, FailChained DEF StoreFails
<1>2. CASE E01PreflightAndOpen
  <2>1. phase = "closed" /\ Opens(Opening)
    BY <1>2 DEF E01PreflightAndOpen, Opening
  <2>2. CASE /\ Stores(Opening, {}) /\ phase' = "open"
             /\ UNCHANGED <<setting, buffer, chunks, walk, others, given, linked>>
    <3>1. given' = {} /\ buffer' = <<>> /\ chunks' = <<>> /\ file' = Opening
      BY <2>1, <2>2 DEF Chained, Stores
    <3>2. Streaming'
      BY <3>1, OpeningStreams
    <3> QED BY <2>2, <3>2 DEF Chained
  <2> QED BY <1>1, <2>1, <2>2 DEF Opens
<1>3. CASE WriteAt
  <2>1. /\ ~AtEnd /\ Streaming /\ phase = "open" /\ RestOfRun \in Nat
        /\ MaxTransfer \in Nat
    BY <1>3, WalkFacts, WritersAssumption DEF WriteAt, Shape, Chained
  <2>2. PICK n \in 1..Min2(MaxTransfer, RestOfRun) : E01WriteAt(n)
    BY <1>3 DEF WriteAt, RawWriteAt, ZdmpWriteAt
  <2>3. n \in 1..RestOfRun
    BY <2>1 DEF Min2
  <2> DEFINE stream == buffer \o Bytes(Address, n)
             c == FullChunks(Len(stream))
             f == file \o Chunked(stream, c)
  <2>4. CASE /\ file' = f /\ Accepted(n)
             /\ buffer' = SubSeq(stream, c * ChunkSize + 1, Len(stream))
             /\ chunks' = chunks \o ChunkOffsets(c)
    <3>1. Streaming'
      BY <2>1, <2>3, <2>4, WriteStreams
    <3>2. phase' = "open"
      BY <2>1, <2>4 DEF Accepted
    <3> QED BY <3>1, <3>2 DEF Chained
  <2> QED BY <1>1, <2>2, <2>4 DEF E01WriteAt, Stores
<1>4. CASE Skip
  <2>1. phase = "open" /\ phase' = "open" /\ Streaming
    BY <1>4 DEF Skip, Chained
  <2> QED BY <1>4, <2>1, SkipStreams DEF Chained
<1>5. CASE E01FlushAndClose
  <2>1. phase = "open" /\ Streaming
    BY <1>5 DEF E01FlushAndClose, Chained
  <2>2. phase' = "failed" \/ (phase' = "sealed" /\ given' = given)
    BY <1>5 DEF E01FlushAndClose, StoreFails, Fail
  <2> QED BY <1>5, <2>1, <2>2, SealStreams DEF Chained
<1>6. CASE OthersTake
  <2>1. phase = "open" /\ phase' = "open" /\ Streaming
    BY <1>6 DEF OthersTake, Chained
  <2>2. PICK w : Listed(w) /\ Behind(w) /\ Streamed(w)
    BY <2>1 DEF Streaming
  <2>3. Listed(w)' /\ Behind(w)' /\ Streamed(w)'
    BY <1>6, <2>2
       DEF OthersTake, Listed, Behind, Streamed, AtEnd, Address, setting, walk
  <2> QED BY <2>1, <2>3 DEF Chained, Streaming
<1>7. CASE UNCHANGED vars
  BY <1>7, SameChained
<1> QED BY <1>2, <1>3, <1>4, <1>5, <1>6, <1>7
        DEF Next, RawPreflightAndOpen, ZdmpPreflightAndOpen, FlushAndClose


---------------------------------------------------------------------------
(* A stream of addresses, and the places it is read from.                  *)

(* Between two addresses of the list are at least the places of those      *)
(* between them.                                                           *)
LEMMA PlacesGrow ==
  ASSUME Settled, Walking, NEW w, Listed(w)
  PROVE  /\ Len(w) \in Nat
         /\ \A j \in 1..Len(w) : InSomeRun(w[j]) /\ Place(w[j]) \in Nat
                                 /\ w[j] \in Nat
         /\ \A i, j \in 1..Len(w) : i <= j => Place(w[i]) + (j - i) <= Place(w[j])
<1> DEFINE N == Len(w)
           P(j) == Place(w[j])
           S == {d \in Nat : \A i \in 1..N : i + d <= N => P(i) + d <= P(i + d)}
<1>1. w \in Seq(Nat) /\ N \in Nat
  BY LenProperties DEF Listed
<1>2. \A j \in 1..N : InSomeRun(w[j]) /\ P(j) \in Nat /\ w[j] \in Nat
  <2> SUFFICES ASSUME NEW j \in 1..N
               PROVE  InSomeRun(w[j]) /\ P(j) \in Nat /\ w[j] \in Nat
    OBVIOUS
  <2>1. w[j] \in given
    BY DEF Listed
  <2>2. PICK i \in DOMAIN runs : InRun(w[j], i)
    BY <2>1 DEF Walking
  <2> QED BY <2>2, PlaceInRun DEF InSomeRun
<1>3. \A i, j \in 1..N : i < j => P(i) < P(j)
  <2> SUFFICES ASSUME NEW i \in 1..N, NEW j \in 1..N, i < j PROVE P(i) < P(j)
    OBVIOUS
  <2>1. w[i] < w[j]
    BY DEF Listed
  <2> QED BY <1>2, <2>1, PlaceOrder
<1> HIDE DEF P, N
<1>4. 0 \in S
  <2>1. \A i \in 1..N : P(i) + 0 <= P(i + 0)
    BY <1>1, <1>2
  <2> QED BY <2>1
<1>5. ASSUME NEW d \in Nat, d \in S PROVE d + 1 \in S
  <2> SUFFICES ASSUME NEW i \in 1..N, i + (d + 1) <= N
               PROVE  P(i) + (d + 1) <= P(i + (d + 1))
    OBVIOUS
  <2>1. /\ i + d \in 1..N /\ i + (d + 1) \in 1..N /\ i + d < i + (d + 1)
        /\ i + d <= N
    BY <1>1
  <2>2. P(i) + d <= P(i + d)
    BY <1>5, <2>1
  <2>3. P(i + d) < P(i + (d + 1))
    BY <1>3, <2>1
  <2>4. P(i) \in Nat /\ P(i + d) \in Nat /\ P(i + (d + 1)) \in Nat
    BY <1>2, <2>1
  <2> QED BY <2>2, <2>3, <2>4
<1> HIDE DEF S
<1>6. S = Nat
  <2>1. S \in SUBSET Nat
    BY DEF S
  <2> QED BY <1>4, <1>5, <2>1, SetInduction
<1>7. ASSUME NEW i \in 1..N, NEW j \in 1..N, i <= j
      PROVE  P(i) + (j - i) <= P(j)
  <2>1. j - i \in Nat /\ i + (j - i) = j /\ j <= N
    BY <1>1, <1>7
  <2> QED BY <1>6, <2>1 DEF S
<1> QED BY <1>1, <1>2, <1>7 DEF P, N

(* In a capture without a gap the j-th address of the list is the j-th of  *)
(* the memory.                                                             *)
LEMMA NoGap ==
  ASSUME Settled, Walking, NEW w, Listed(w), Contiguous
  PROVE  \A j \in 1..Len(w) : Place(w[j]) = j - 1
<1> DEFINE N == Len(w)
           T == {j \in 1..N : Place(w[j]) # j - 1}
<1>1. /\ N \in Nat
      /\ \A j \in 1..N : InSomeRun(w[j]) /\ Place(w[j]) \in Nat /\ w[j] \in Nat
      /\ \A i, j \in 1..N : i <= j => Place(w[i]) + (j - i) <= Place(w[j])
  BY PlacesGrow
<1> SUFFICES ASSUME T # {} PROVE FALSE
  OBVIOUS
<1>2. PICK j \in T : \A y \in T : j <= y
  <2>1. T \in SUBSET Nat
    BY <1>1
  <2> HIDE DEF T
  <2> QED BY <2>1, Least
<1>3. j \in 1..N /\ Place(w[j]) # j - 1 /\ j - 1 \in Nat /\ j \in Nat
  BY <1>1
<1>4. \A i \in 1..N : i < j => Place(w[i]) = i - 1
  <2> SUFFICES ASSUME NEW i \in 1..N, i < j, i \in T PROVE FALSE
    OBVIOUS
  <2>1. j <= i
    BY <1>2
  <2> QED BY <1>1, <1>3, <2>1
<1> HIDE DEF T
<1>5. j - 1 < Place(w[j])
  <2>1. /\ 1 \in 1..N /\ 1 <= j
        /\ Place(w[1]) \in Nat /\ Place(w[j]) \in Nat
    BY <1>1, <1>3
  <2>2. Place(w[1]) + (j - 1) <= Place(w[j])
    BY <1>1, <1>3, <2>1
  <2> QED BY <1>3, <2>1, <2>2
<1>6. Place(w[j]) < PhysicalSize
  <2>1. PICK i \in DOMAIN runs : InRun(w[j], i)
    BY <1>1, <1>3 DEF InSomeRun
  <2>2. /\ i \in 1..Len(runs) /\ Place(w[j]) < PhysicalBelow(i + 1)
        /\ PhysicalBelow(i + 1) \in Nat /\ Place(w[j]) \in Nat
    BY <2>1, PlaceInRun
  <2>3. Len(runs) \in Nat
    BY LayoutFacts DEF Settled
  <2>4. i + 1 \in 1..Len(runs) + 1 /\ Len(runs) + 1 \in 1..Len(runs) + 1
        /\ i + 1 <= Len(runs) + 1
    BY <2>2, <2>3
  <2>5. PhysicalBelow(i + 1) <= PhysicalBelow(Len(runs) + 1)
    BY <2>4, BelowMonotone
  <2>6. PhysicalBelow(Len(runs) + 1) \in Nat
    BY <2>4, PhysicalBelowFacts
  <2> QED BY <2>2, <2>5, <2>6 DEF PhysicalSize
<1>7. PICK b : InSomeRun(b) /\ Place(b) = j - 1
  <2>1. j - 1 < PhysicalSize
    <3>1. PhysicalSize \in Nat
      <4>1. Len(runs) + 1 \in 1..Len(runs) + 1
        BY LayoutFacts DEF Settled
      <4> QED BY <4>1, PhysicalBelowFacts DEF PhysicalSize
    <3>2. Place(w[j]) \in Nat
      BY <1>1, <1>3
    <3> QED BY <1>3, <1>5, <1>6, <3>1, <3>2
  <2> QED BY <1>3, <2>1, PlaceReached
<1>8. b \in Nat /\ b < w[j]
  <2>1. b \in Nat
    BY <1>7, PlaceInRun DEF InSomeRun
  <2>2. w[j] \in Nat /\ InSomeRun(w[j]) /\ Place(w[j]) \in Nat
    BY <1>1, <1>3
  <2>3. ~(w[j] < b)
    <3>1. w[j] < b => Place(w[j]) < Place(b)
      BY <1>7, <2>2, PlaceOrder
    <3> QED BY <1>3, <1>5, <1>7, <2>2, <3>1
  <2>4. w[j] # b
    BY <1>3, <1>7
  <2> QED BY <2>1, <2>2, <2>3, <2>4
<1>9. b \in given
  <2>1. w[j] \in given
    BY <1>3 DEF Listed
  <2>2. b \in 0..LogicalSize
    <3>1. LogicalSize \in Nat /\ w[j] < LogicalSize
      <4>1. PICK i \in DOMAIN runs : InRun(w[j], i)
        BY <1>1, <1>3 DEF InSomeRun
      <4>2. /\ runs[i].base + runs[i].length <= LogicalSize
            /\ LogicalSize \in Nat
        BY LogicalSizeFacts
      <4>3. runs[i].base \in Nat /\ runs[i].length \in Nat /\ w[j] \in Nat
        BY <4>1, PlaceInRun
      <4>4. w[j] <= runs[i].base + runs[i].length - 1
        BY <4>1 DEF InRun
      <4> QED BY <4>2, <4>3, <4>4
    <3> QED BY <1>1, <1>3, <1>8, <3>1
  <2> QED BY <1>7, <1>8, <2>1, <2>2 DEF Contiguous, InSomeRun
<1>10. PICK i \in 1..N : b = w[i]
  BY <1>9 DEF Listed
<1>11. i < j
  <2>1. i # j
    BY <1>8, <1>10
  <2>2. j < i => w[j] < w[i]
    BY <1>3 DEF Listed
  <2>3. w[i] < w[j] /\ w[i] \in Nat /\ w[j] \in Nat /\ i \in Nat /\ j \in Nat
    BY <1>1, <1>3, <1>8, <1>10
  <2> QED BY <2>1, <2>2, <2>3
<1>12. Place(b) = i - 1
  BY <1>4, <1>10, <1>11
<1> QED BY <1>1, <1>3, <1>7, <1>11, <1>12

(* And the last address tells whether there was a gap. *)
LEMMA LastTells ==
  ASSUME Settled, Walking, NEW w, Listed(w), Len(w) > 0,
         Place(w[Len(w)]) = Len(w) - 1
  PROVE  Contiguous
<1> DEFINE N == Len(w)
<1>1. /\ N \in Nat
      /\ \A j \in 1..N : InSomeRun(w[j]) /\ Place(w[j]) \in Nat /\ w[j] \in Nat
      /\ \A i, j \in 1..N : i <= j => Place(w[i]) + (j - i) <= Place(w[j])
  BY PlacesGrow
<1>2. N > 0 /\ Place(w[N]) = N - 1
  OBVIOUS
<1> HIDE DEF N
<1>3. ASSUME NEW j \in 1..N PROVE Place(w[j]) = j - 1
  <2>1. /\ N \in 1..N /\ 1 \in 1..N /\ j <= N /\ 1 <= j
        /\ Place(w[1]) \in Nat /\ Place(w[j]) \in Nat
    BY <1>1, <1>2
  <2>2. Place(w[j]) + (N - j) <= Place(w[N])
    BY <1>1, <2>1
  <2>3. Place(w[1]) + (j - 1) <= Place(w[j])
    BY <1>1, <2>1
  <2> QED BY <1>1, <1>2, <2>1, <2>2, <2>3, SMTT(30)
<1> SUFFICES ASSUME NEW a \in given, NEW b \in 0..LogicalSize, b < a, InSomeRun(b)
             PROVE  b \in given
  BY DEF Contiguous, InSomeRun
<1>4. PICK j \in 1..N : a = w[j]
  BY DEF Listed, N
<1>5. Place(b) < Place(a) /\ Place(b) \in Nat
  BY <1>1, <1>4, PlaceOrder
<1>6. Place(b) + 1 \in 1..N /\ (Place(b) + 1) - 1 = Place(b)
  <2>1. Place(a) = j - 1
    BY <1>3, <1>4
  <2>2. N \in Nat /\ j <= N /\ j \in Nat /\ Place(b) < j - 1 /\ Place(b) \in Nat
    BY <1>1, <1>5, <2>1
  <2> QED BY <2>2
<1>7. Place(w[Place(b) + 1]) = Place(b)
  BY <1>3, <1>6
<1>8. b = w[Place(b) + 1]
  BY <1>1, <1>6, <1>7, PlaceInjective
<1> QED BY <1>6, <1>8 DEF Listed, N


LEMMA OnlyBytes ==
  /\ \A a : Byte(a) # Zero /\ Byte(a) # Checksum /\ Byte(a) # Mark("missing")
  /\ \A a, n : Byte(a) # Sectors(n)
  /\ \A a, b : Byte(a) = Byte(b) => a = b
<1>1. \A a : Byte(a).kind = "byte" /\ Byte(a).at = a
  BY DEF Byte
<1>2. /\ Zero.kind # "byte" /\ Checksum.kind # "byte"
      /\ Mark("missing").kind # "byte" /\ \A n : Sectors(n).kind # "byte"
  BY KindFacts DEF Checksum
<1> QED BY <1>1, <1>2

(* What a reader makes of an address when the table is linked in. *)
LEMMA LinkedCell ==
  ASSUME Holding, format = "e01", NEW w, NEW z, Finished(w, z), linked,
         NEW a, Place(a) \in Nat
  PROVE  LET d == Place(a) \div ChunkSize IN
         Found(a) = IF d < Len(chunks)
                    THEN Reads(file, 3 + Offset(d + 1) + (Place(a) % ChunkSize))
                    ELSE Mark("missing")
<1> DEFINE d == Place(a) \div ChunkSize
           k == Place(a) % ChunkSize
           C == Len(chunks)
           size == C * (ChunkSize + 1)
<1>1. d \in Nat /\ C \in Nat /\ DOMAIN chunks = 1..C
  <2>1. ChunkSize \in Nat \ {0}
    BY WritersAssumption
  <2>2. chunks \in Seq(Nat)
    BY DEF Holding
  <2> QED BY <2>1, <2>2, Division, LenProperties
<1>2. /\ At(3) = Sectors(4 + size) /\ At(4 + size) = Table(chunks)
  BY DEF Finished, Linked, Reads, At
<1>3. Found(a) = E01Cell(a)
  BY DEF Found
<1> HIDE DEF k, size
<1>4. E01Cell(a) = IF d + 1 \in DOMAIN chunks
                   THEN At(3 + chunks[d + 1] + k) ELSE Mark("missing")
  <2>1. At(3).kind = "sectors" /\ At(3).next = 4 + size
    BY <1>2, KindFacts
  <2>2. At(At(3).next).kind = "table" /\ At(At(3).next).chunks = chunks
    BY <1>2, <2>1, KindFacts
  <2> QED BY <2>1, <2>2, HeaderSectionsFacts DEF E01Cell, k
<1> HIDE DEF d
<1>5. d + 1 \in DOMAIN chunks <=> d < C
  BY <1>1
<1>6. d < C => chunks[d + 1] = Offset(d + 1)
  <2>1. d < C => d + 1 \in 1..C
    BY <1>1
  <2> QED BY <2>1 DEF Finished, C
<1>7. Found(a) = IF d < C THEN Reads(file, 3 + Offset(d + 1) + k)
                 ELSE Mark("missing")
  BY <1>3, <1>4, <1>5, <1>6 DEF At, Reads
<1> QED BY <1>7 DEF d, k, C

(* The cells of the stream that was filled up. *)
LEMMA FilledUp ==
  ASSUME NEW w \in Seq(Nat), NEW z \in Nat
  PROVE  LET u == Stream(w) \o Zeros(z) IN
         /\ u \in Seq(Cell) /\ Len(u) = Len(w) + z
         /\ \A x \in 1 .. Len(w) + z :
              u[x] = IF x <= Len(w) THEN Byte(w[x]) ELSE Zero
<1> DEFINE s == Stream(w)
           t == Zeros(z)
           u == s \o t
           N == Len(w)
<1>1. /\ s \in Seq(Cell) /\ Len(s) = N /\ N \in Nat
      /\ \A j \in 1..N : s[j] = Byte(w[j])
  BY StreamOf
<1>2. t \in Seq(Cell) /\ Len(t) = z /\ \A x \in 1..z : t[x] = Zero
  BY ZerosFacts DEF Zeros
<1> HIDE DEF s, t, N
<1>3. /\ u \in Seq(Cell) /\ Len(u) = Len(s) + Len(t)
      /\ \A x \in 1 .. Len(s) + Len(t) :
           u[x] = IF x <= Len(s) THEN s[x] ELSE t[x - Len(s)]
  <2>1. s \in Seq(Cell) /\ t \in Seq(Cell)
    BY <1>1, <1>2
  <2> QED BY <2>1, ConcatProperties
<1> HIDE DEF u
<1>4. ASSUME NEW x \in 1 .. N + z
      PROVE  u[x] = IF x <= N THEN Byte(w[x]) ELSE Zero
  <2>1. CASE x <= N
    <3>1. x \in 1..N
      BY <1>1, <2>1
    <3> QED BY <1>1, <1>2, <1>3, <2>1, <3>1
  <2>2. CASE ~(x <= N)
    <3>1. x - N \in 1..z
      BY <1>1, <2>2
    <3> QED BY <1>1, <1>2, <1>3, <2>2, <3>1
  <2> QED BY <2>1, <2>2
<1> QED BY <1>1, <1>2, <1>3, <1>4 DEF u, s, t, N

(* The cells behind the sectors section, chunk by chunk. *)
LEMMA ChunkReads ==
  ASSUME Holding, NEW w, NEW z, Finished(w, z), linked,
         NEW d \in Nat, d < Len(chunks), NEW k \in 0 .. ChunkSize
  PROVE  LET p == d * (ChunkSize + 1) + k + 1
             x == d * ChunkSize + k + 1
         IN  /\ p \in 1 .. Len(chunks) * (ChunkSize + 1)
             /\ k = ChunkSize => Reads(file, 3 + p) = Checksum
             /\ k # ChunkSize =>
                  /\ x \in 1 .. Len(w) + z
                  /\ Reads(file, 3 + p) = IF x <= Len(w) THEN Byte(w[x]) ELSE Zero
<1> DEFINE C == Len(chunks)
           u == Stream(w) \o Zeros(z)
           p == d * (ChunkSize + 1) + k + 1
           x == d * ChunkSize + k + 1
           size == C * (ChunkSize + 1)
<1>1. C \in Nat /\ ChunkSize \in Nat \ {0} /\ d < C
  BY LenProperties, WritersAssumption DEF Holding
<1>2. /\ p \in 1..size
      /\ Chunked(u, C)[p] = IF k = ChunkSize THEN Checksum ELSE u[x]
  <2> HIDE DEF u, C
  <2>1. C \in Nat /\ d < C
    BY <1>1
  <2> QED BY <2>1, ChunkedAt, SMTT(30)
<1>3. \A i \in 1..size : Reads(file, 3 + i) = Chunked(u, C)[i]
  BY DEF Finished, Linked
<1> HIDE DEF p, size, u
<1>4. Reads(file, 3 + p) = IF k = ChunkSize THEN Checksum ELSE u[x]
  BY <1>2, <1>3
<1>5. w \in Seq(Nat) /\ z \in Nat /\ C * ChunkSize = Len(w) + z
  BY <1>1 DEF Finished, Listed
<1>6. ASSUME k # ChunkSize PROVE x \in 1 .. Len(w) + z
  <2> DEFINE K == ChunkSize
             q == d * K
             r == C * K
  <2>1. K \in Nat \ {0} /\ k \in 0 .. K - 1
    BY <1>1, <1>6
  <2> HIDE DEF K
  <2>2. d + 1 \in Nat /\ d + 1 <= C
    BY <1>1
  <2>3. (d + 1) * K <= C * K /\ (d + 1) * K = d * K + K /\ d * K \in Nat
        /\ C * K \in Nat
    BY <1>1, <2>1, <2>2, TimesMonotone, OneMore
  <2>4. q \in Nat /\ r \in Nat /\ q + K <= r
    BY <2>3
  <2>5. r = Len(w) + z
    BY <1>5 DEF K
  <2> HIDE DEF q, r
  <2>6. q + k + 1 \in 1..r
    BY <2>1, <2>4
  <2> QED BY <2>5, <2>6 DEF q, K
<1>7. \A y \in 1 .. Len(w) + z : u[y] = IF y <= Len(w) THEN Byte(w[y]) ELSE Zero
  BY <1>5, FilledUp DEF u
<1> HIDE DEF x
<1> QED BY <1>2, <1>4, <1>6, <1>7 DEF p, x, size, C


(* What is cut to a number of values and is not the same lost at least     *)
(* that number.                                                            *)
LEMMA Wraps ==
  ASSUME NEW n \in Nat, NEW k \in Nat \ {0}
  PROVE  /\ n % k \in 0 .. k - 1
         /\ n < k => n % k = n
         /\ ~(n < k) => (n % k) + k <= n
<1> DEFINE d == n \div k
           r == n % k
<1>1. d \in Nat /\ r \in 0 .. k - 1 /\ n = d * k + r /\ d * k \in Nat
  BY Division
<1>2. n < k => r = n
  OBVIOUS
<1> HIDE DEF d, r
<1>3. ASSUME ~(n < k) PROVE r + k <= n
  <2> DEFINE q == d * k
  <2>1. 0 * k = 0 /\ 1 * k = k
    OBVIOUS
  <2>2. d # 0
    <3>1. d = 0 => n = r
      BY <1>1, <2>1
    <3> QED BY <1>1, <1>3, <3>1
  <2>3. 1 \in Nat /\ 1 <= d
    BY <1>1, <2>2
  <2>4. k <= q
    BY <1>1, <2>1, <2>3, TimesMonotone
  <2>5. n = q + r /\ q \in Nat /\ r \in Nat
    BY <1>1
  <2> HIDE DEF q
  <2> QED BY <2>4, <2>5
<1> QED BY <1>1, <1>2, <1>3 DEF r

(* Every address of a capture without a gap is found, while no offset      *)
(* wraps.                                                                  *)
LEMMA E01Finds ==
  ASSUME Settled, Walking, Holding, format = "e01", NEW w, NEW z,
         Finished(w, z), linked, Contiguous,
         (Len(chunks) - 1) * (ChunkSize + 1) + 1 < Word, NEW a \in given
  PROVE  Found(a) = Byte(a)
<1> DEFINE C == Len(chunks)
           K == ChunkSize
           J == ChunkSize + 1
           N == Len(w)
           P == Place(a)
           d == P \div K
           k == P % K
<1>1. /\ K \in Nat \ {0} /\ J \in Nat \ {0} /\ C \in Nat /\ N \in Nat
      /\ Word \in Nat \ {0} /\ z \in Nat /\ C * K = N + z
  <2>1. /\ K \in Nat \ {0} /\ J \in Nat \ {0} /\ Word \in Nat \ {0}
    BY WritersAssumption
  <2>2. chunks \in Seq(Nat) /\ w \in Seq(Nat)
    BY DEF Holding, Finished, Listed
  <2>3. z \in Nat /\ C * K = N + z
    BY <2>1 DEF Finished
  <2> QED BY <2>1, <2>2, <2>3, LenProperties
<1>2. PICK j \in 1..N : a = w[j]
  BY DEF Finished, Listed
<1>3. P = j - 1
  <2>1. Listed(w)
    BY DEF Finished
  <2> QED BY <1>2, <2>1, NoGap
<1>4. P \in Nat /\ P < N /\ P + 1 = j
  BY <1>1, <1>3
<1> HIDE DEF P
<1>5. d \in Nat /\ k \in 0 .. K - 1 /\ P = d * K + k /\ d * K \in Nat /\ d < C
  <2>1. d \in Nat /\ k \in 0 .. K - 1 /\ P = d * K + k /\ d * K \in Nat
    BY <1>1, <1>4, Division
  <2>2. P < C * K
    BY <1>1, <1>4
  <2>3. d < C
    BY <1>1, <1>4, <2>2, QuotientBelow
  <2> QED BY <2>1, <2>3
<1>6. Found(a) = Reads(file, 3 + Offset(d + 1) + k)
  BY <1>4, <1>5, LinkedCell DEF P
<1> HIDE DEF d, k
<1>7. Offset(d + 1) = 1 + d * J /\ d * J \in Nat
  <2>1. (d + 1) - 1 = d
    BY <1>5
  <2>2. Offset(d + 1) = (1 + d * J) % Word
    BY <2>1 DEF Offset
  <2>3. d <= C - 1 /\ C - 1 \in Nat
    BY <1>1, <1>5
  <2> HIDE DEF J
  <2>4. d * J <= (C - 1) * J /\ d * J \in Nat /\ (C - 1) * J \in Nat
    BY <1>1, <1>5, <2>3, TimesMonotone
  <2> DEFINE q == d * J
             r == (C - 1) * J
  <2>5. q \in Nat /\ r \in Nat /\ q <= r /\ r + 1 < Word
    BY <2>4 DEF J
  <2> HIDE DEF q, r
  <2>6. 1 + q \in 0 .. Word - 1
    BY <1>1, <2>5
  <2>7. (1 + q) % Word = 1 + q
    <3>1. 1 + q \in Nat /\ 1 + q < Word
      BY <1>1, <2>6
    <3> QED BY <1>1, <3>1, Wraps
  <2> QED BY <2>2, <2>5, <2>7 DEF q
<1>8. Reads(file, 3 + (d * J + k + 1)) = Byte(w[d * K + k + 1])
  <2>1. k \in 0 .. ChunkSize /\ k # ChunkSize
    BY <1>1, <1>5
  <2>2. /\ d * K + k + 1 \in 1 .. Len(w) + z
        /\ Reads(file, 3 + (d * J + k + 1)) =
             IF d * K + k + 1 <= Len(w) THEN Byte(w[d * K + k + 1]) ELSE Zero
    BY <1>5, <2>1, ChunkReads
  <2>3. d * K + k + 1 <= N
    <3> DEFINE q == d * K
    <3>1. P = q + k /\ q \in Nat /\ k \in Nat
      BY <1>1, <1>5
    <3> HIDE DEF q
    <3>2. q + k + 1 <= N
      BY <1>1, <1>4, <3>1
    <3> QED BY <3>2 DEF q
  <2> QED BY <2>2, <2>3
<1>9. 3 + Offset(d + 1) + k = 3 + (d * J + k + 1)
  <2> DEFINE q == d * J
  <2>1. Offset(d + 1) = 1 + q /\ q \in Nat /\ k \in Nat
    BY <1>1, <1>5, <1>7
  <2> HIDE DEF q
  <2>2. 3 + (1 + q) + k = 3 + (q + k + 1)
    BY <2>1
  <2> QED BY <2>1, <2>2 DEF q
<1>10. d * K + k + 1 = j
  BY <1>4, <1>5
<1> QED BY <1>2, <1>6, <1>8, <1>9, <1>10


(* Two places, the first of them in the last chunk, the second not beyond  *)
(* it and not below the first, are in one chunk.                           *)
LEMMA LastChunk ==
  ASSUME NEW K \in Nat \ {0}, NEW C \in Nat, NEW N \in Nat, NEW z \in 0 .. K - 1,
         C * K = N + z,
         NEW d \in Nat, NEW k \in 0 .. K - 1, d < C,
         NEW e \in Nat, NEW l \in 0 .. K - 1, e < C, N - 1 = e * K + l,
         N - 1 <= d * K + k
  PROVE  d = C - 1 /\ e = C - 1 /\ l <= k
<1>1. e = C - 1
  <2> SUFFICES ASSUME e + 1 < C PROVE FALSE
    OBVIOUS
  <2>1. e + 2 \in Nat /\ e + 2 <= C /\ e + 1 \in Nat
    OBVIOUS
  <2>2. (e + 2) * K <= C * K /\ (e + 2) * K = e * K + K + K /\ e * K \in Nat
    <3>1. (e + 2) * K <= C * K
      BY <2>1, TimesMonotone
    <3>2. (e + 2) * K = e * K + K + K /\ e * K \in Nat
      OBVIOUS
    <3> QED BY <3>1, <3>2
  <2> DEFINE q == e * K
  <2>3. q \in Nat /\ q + K + K <= N + z /\ N - 1 = q + l
    BY <2>2
  <2> HIDE DEF q
  <2> QED BY <2>3
<1>2. d = C - 1
  <2> SUFFICES ASSUME d < e PROVE FALSE
    BY <1>1
  <2>1. d + 1 \in Nat /\ d + 1 <= e
    OBVIOUS
  <2>2. (d + 1) * K <= e * K /\ (d + 1) * K = d * K + K /\ d * K \in Nat
        /\ e * K \in Nat
    BY <2>1, TimesMonotone, OneMore
  <2> DEFINE q == e * K
             p == d * K
  <2>3. q \in Nat /\ p \in Nat /\ p + K <= q /\ q + l <= p + k
    BY <2>2
  <2> HIDE DEF q, p
  <2> QED BY <2>3
<1>3. l <= k
  <2> DEFINE p == d * K
  <2>1. p \in Nat /\ p + l <= p + k
    BY <1>1, <1>2
  <2> HIDE DEF p
  <2> QED BY <2>1
<1> QED BY <1>1, <1>2, <1>3

(* When the last address is found, no offset has wrapped and there is no   *)
(* gap below it.                                                           *)
LEMMA E01Needs ==
  ASSUME Settled, Walking, Holding, format = "e01", NEW w, NEW z,
         Finished(w, z), linked, Found(w[Len(w)]) = Byte(w[Len(w)])
  PROVE  Contiguous /\ (Len(chunks) - 1) * (ChunkSize + 1) + 1 < Word
<1> DEFINE C == Len(chunks)
           K == ChunkSize
           J == ChunkSize + 1
           N == Len(w)
           a == w[N]
           P == Place(a)
           d == P \div K
           k == P % K
           o == Offset(d + 1)
<1>1. /\ K \in Nat \ {0} /\ J \in Nat \ {0} /\ C \in Nat
      /\ Word \in Nat \ {0} /\ K <= Word /\ z \in 0 .. K - 1 /\ C * K = N + z
  <2>1. /\ K \in Nat \ {0} /\ J \in Nat \ {0} /\ Word \in Nat \ {0} /\ K <= Word
    BY WritersAssumption
  <2>2. chunks \in Seq(Nat)
    BY DEF Holding
  <2>3. z \in 0 .. K - 1 /\ C * K = N + z
    BY DEF Finished
  <2> QED BY <2>1, <2>2, <2>3, LenProperties
<1>2. /\ Listed(w) /\ N \in Nat /\ N > 0
      /\ \A j \in 1..N : Place(w[j]) \in Nat
      /\ \A i, j \in 1..N : i <= j => Place(w[i]) + (j - i) <= Place(w[j])
  BY PlacesGrow DEF Finished
<1>3. P \in Nat /\ N - 1 <= P /\ N - 1 \in Nat
  <2>1. 1 \in 1..N /\ N \in 1..N /\ 1 <= N
    BY <1>2
  <2>2. Place(w[1]) + (N - 1) <= P /\ Place(w[1]) \in Nat /\ P \in Nat
    BY <1>2, <2>1
  <2> QED BY <1>2, <2>2
<1>4. Found(a) = IF d < C THEN Reads(file, 3 + o + k) ELSE Mark("missing")
  BY <1>3, LinkedCell
<1>5. Found(a) = Byte(a)
  OBVIOUS
<1>6. d < C /\ Reads(file, 3 + o + k) = Byte(a)
  BY <1>4, <1>5, OnlyBytes
<1> HIDE DEF P, a
<1>7. d \in Nat /\ k \in 0 .. K - 1 /\ P = d * K + k /\ d * K \in Nat
  BY <1>1, <1>3, Division
<1> HIDE DEF d, k
<1> DEFINE q == d * J
           T == 1 + q
<1>8. q \in Nat /\ o = T % Word
  <2>1. (d + 1) - 1 = d /\ q \in Nat
    BY <1>1, <1>7
  <2> QED BY <2>1 DEF Offset
<1>9. /\ o \in 0 .. Word - 1
      /\ T < Word => o = T
      /\ ~(T < Word) => o + Word <= T
  <2>1. T \in Nat
    BY <1>8
  <2> QED BY <1>1, <1>8, <2>1, Wraps
<1> HIDE DEF o
<1> DEFINE i == o + k
           size == C * J
<1>10. i \in Nat /\ i <= size
  <2>1. k \in 0 .. ChunkSize
    BY <1>1, <1>7
  <2>2. q + k + 1 \in 1..size /\ size \in Nat
    <3>1. d * (ChunkSize + 1) + k + 1 \in 1 .. Len(chunks) * (ChunkSize + 1)
      BY <1>6, <1>7, <2>1, ChunkReads
    <3> QED BY <1>1, <3>1
  <2> HIDE DEF q, size
  <2>3. o <= T /\ o \in Nat /\ k \in Nat
    BY <1>1, <1>7, <1>8, <1>9
  <2> QED BY <1>8, <2>2, <2>3
<1>11. i # 0
  <2> SUFFICES ASSUME i = 0 PROVE FALSE
    OBVIOUS
  <2>1. 3 + o + k = 3
    BY <1>1, <1>7, <1>9
  <2>2. Reads(file, 3) = Byte(a)
    BY <1>6, <2>1
  <2>3. \E n : Reads(file, 3) = Sectors(n)
    BY DEF Finished, Linked
  <2> QED BY <2>2, <2>3, OnlyBytes
<1>12. PICK e \in Nat, l \in 0 .. ChunkSize :
         e < C /\ i = e * (ChunkSize + 1) + l + 1
  <2>1. i \in 1 .. C * (ChunkSize + 1)
    <3> HIDE DEF i
    <3>1. size \in Nat
      BY <1>1
    <3> QED BY <1>10, <1>11, <3>1
  <2> HIDE DEF i, C
  <2> QED BY <1>1, <2>1, ChunkedIndex
<1>13. Reads(file, 3 + i) = Byte(a)
  <2>1. 3 + o + k = 3 + i
    BY <1>1, <1>7, <1>9
  <2> QED BY <1>6, <2>1
<1> DEFINE x == e * K + l + 1
<1>14. l # K /\ x \in 1..N + z
       /\ Byte(a) = IF x <= N THEN Byte(w[x]) ELSE Zero
  <2>1. /\ l = ChunkSize => Reads(file, 3 + i) = Checksum
        /\ l # ChunkSize =>
             /\ x \in 1 .. N + z
             /\ Reads(file, 3 + i) = IF x <= N THEN Byte(w[x]) ELSE Zero
    BY <1>12, ChunkReads
  <2> QED BY <1>13, <2>1, OnlyBytes
<1>15. x \in 1..N /\ w[x] = w[N]
  <2>1. x <= N
    BY <1>14, OnlyBytes
  <2>2. Byte(a) = Byte(w[x])
    BY <1>14, <2>1
  <2>3. a = w[x]
    BY <2>2, OnlyBytes
  <2> HIDE DEF x
  <2>4. x \in 1..N
    BY <1>2, <1>14, <2>1
  <2> QED BY <2>3, <2>4 DEF a
<1>16. x = N
  <2> HIDE DEF x
  <2>1. N \in 1..N /\ x \in 1..N
    BY <1>2, <1>15
  <2>2. x < N => w[x] < w[N]
    BY <1>2, <2>1 DEF Listed
  <2>3. w[N] \in Nat
    <3>1. w \in Seq(Nat)
      BY <1>2 DEF Listed
    <3> QED BY <2>1, <3>1, ElementOfSeq
  <2> QED BY <1>2, <1>15, <2>1, <2>2, <2>3
<1>17. l \in 0 .. K - 1 /\ N - 1 = e * K + l
  <2>1. l \in 0 .. K - 1
    BY <1>1, <1>14
  <2> DEFINE r == e * K
  <2>2. r \in Nat /\ r + l + 1 = N
    BY <1>1, <1>16
  <2> HIDE DEF r
  <2>3. N - 1 = r + l
    BY <2>1, <2>2
  <2> QED BY <2>1, <2>3 DEF r
<1>18. d = C - 1 /\ e = C - 1 /\ l <= k
  <2>1. N - 1 <= d * K + k
    BY <1>3, <1>7
  <2> HIDE DEF C, K, N
  <2> QED BY <1>1, <1>2, <1>6, <1>7, <1>12, <1>17, <2>1, LastChunk
<1>19. o + k = T + l
  <2>1. i = e * J + l + 1 /\ e = d
    BY <1>12, <1>18
  <2>2. i = q + l + 1
    BY <2>1
  <2> HIDE DEF q
  <2> QED BY <1>1, <1>8, <1>17, <2>2
<1> HIDE DEF q
<1>20. T < Word /\ o = T /\ k = l
  <2>1. l \in Nat /\ k \in Nat /\ k < K /\ K <= Word /\ K \in Nat /\ Word \in Nat
        /\ T \in Nat /\ o \in Nat
    BY <1>1, <1>7, <1>8, <1>9, <1>17
  <2>2. T < Word
    BY <1>9, <1>19, <2>1
  <2> QED BY <1>9, <1>19, <2>1, <2>2
<1>21. P = N - 1
  BY <1>7, <1>17, <1>18, <1>20
<1>22. Contiguous
  BY <1>2, <1>21, LastTells DEF P, a
<1>23. (C - 1) * J + 1 < Word
  <2>1. q = (C - 1) * J
    BY <1>18 DEF q
  <2> HIDE DEF J
  <2>2. q + 1 < Word
    BY <1>8, <1>20
  <2> QED BY <2>1, <2>2
<1> QED BY <1>22, <1>23


LEMMA ChainedReads ==
  ASSUME Shape, Chained, phase = "sealed", format = "e01"
  PROVE  ReadsBack <=> Representable
<1>1. CASE given = {}
  BY <1>1 DEF ReadsBack, Representable
<1>2. CASE given # {}
  <2>1. Settled /\ Walking /\ Holding /\ linked \in BOOLEAN
    BY DEF Shape, Flags
  <2>2. PICK w, z : Finished(w, z)
    BY <1>2 DEF Chained
  <2>3. Representable <=>
          /\ linked /\ Contiguous
          /\ (Len(chunks) - 1) * (ChunkSize + 1) + 1 < Word
    BY <1>2 DEF Representable
  <2>4. w[Len(w)] \in given
    <3>1. /\ w \in Seq(Nat) /\ Len(w) > 0
          /\ given = {w[j] : j \in 1..Len(w)}
      BY <2>2 DEF Finished, Listed
    <3>2. Len(w) \in 1..Len(w)
      BY <3>1, LenProperties
    <3> QED BY <3>1, <3>2
  <2>5. CASE linked
    <3>1. Representable => ReadsBack
      BY <2>1, <2>2, <2>3, E01Finds DEF ReadsBack
    <3>2. ReadsBack => Representable
      BY <2>1, <2>2, <2>3, <2>4, <2>5, E01Needs DEF ReadsBack
    <3> QED BY <3>1, <3>2
  <2>6. CASE ~linked
    <3>1. Found(w[Len(w)]) = Mark("missing")
      <4>1. Unlinked
        BY <2>2, <2>6 DEF Finished
      <4>2. \A p : At(p) = Reads(file, p)
        BY DEF At, Reads
      <4>3. At(3).kind # "sectors" \/ At(At(3).next).kind # "table"
        BY <4>1, <4>2 DEF Unlinked
      <4> QED BY <4>3, HeaderSectionsFacts DEF Found, E01Cell
    <3>2. ~ReadsBack
      BY <2>4, <3>1, OnlyBytes DEF ReadsBack
    <3> QED BY <2>3, <2>6, <3>2
  <2> QED BY <2>5, <2>6
<1> QED BY <1>1, <1>2

(* A sealed image gives back every byte written to it, at its own address, *)
(* exactly when its format could represent the capture: a raw image        *)
(* always, a crash dump for the runs its header holds, an E01 image of a   *)
(* capture without a gap whose table was linked in and whose offsets did   *)
(* not wrap.                                                               *)
THEOREM ReadsBackAlways == Spec => []SealedReadsBack
<1> DEFINE Inv == Shape /\ Kept /\ Chained
<1>1. Init => Inv
  BY InitShape, InitKept, InitChained
<1>2. Inv /\ [Next]_vars => Inv'
  BY NextShape, NextKept, NextChained
<1>3. Inv => SealedReadsBack
  BY StraightReads, ChainedReads DEF SealedReadsBack
<1> QED BY <1>1, <1>2, <1>3, PTL DEF Spec
=============================================================================
