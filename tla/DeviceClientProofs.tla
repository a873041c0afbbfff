------------------------- MODULE DeviceClientProofs -------------------------
(***************************************************************************)
(* Proofs about DeviceClient: what the client makes of the driver's table, *)
(* whatever the memory manager reported.  The arguments go along the       *)
(* length of the table.                                                    *)
(***************************************************************************)
EXTENDS DeviceClient, FoldTheorems

LEMMA ListOf ==
  ASSUME NEW S, NEW n \in Nat, NEW s \in [1..n -> S]
  PROVE  s \in Seq(S) /\ Len(s) = n /\ DOMAIN s = 1..n
OBVIOUS

---------------------------------------------------------------------------
(* The table and its enumerations.                                         *)

(* PhylaCountRanges stays within the array. *)
LEMMA CountFacts ==
  ASSUME NEW t, Len(t) \in Nat
  PROVE  CountRanges(t) \in 0..Len(t)
<1> DEFINE stops == {i \in 1..Len(t) : t[i].base = 0 /\ t[i].length = 0}
<1>1. CASE stops = {}
  BY <1>1 DEF CountRanges
<1>2. CASE stops # {}
  <2>1. \E i \in stops : \A j \in stops : i <= j
    <3>1. stops \in SUBSET Nat
      OBVIOUS
    <3> HIDE DEF stops
    <3> QED BY <1>2, <3>1, Least
  <2>2. (CHOOSE i \in stops : \A j \in stops : i <= j) \in stops
    BY <2>1
  <2> QED BY <1>2, <2>2 DEF CountRanges
<1> QED BY <1>1, <1>2

(* A table: what PhylaSessionBegin keeps, or nothing. *)
Table(t) == t \in Seq(Entry) /\ CountRanges(t) \in 0..Len(t)

LEMMA TableFacts ==
  ASSUME NEW t \in Seq(Entry)
  PROVE  Table(t)
BY CountFacts DEF Table

(* What the client knows of the entry at i. *)
RunOf(t, i) ==
  [driverIndex |-> i - 1, base |-> t[i].base, length |-> t[i].length]

(* Each accepted entry is one run of the client. *)
LEMMA AsManyRuns ==
  ASSUME Table(frozen)
  PROVE  /\ IsFiniteSet(ClientRuns)
         /\ Cardinality(ClientRuns) = CountRanges(frozen)
<1> DEFINE n == CountRanges(frozen)
           f == [i \in 1..n |-> RunOf(frozen, i)]
<1>1. n \in Nat /\ \A i \in 1..n : i \in 1..Len(frozen)
  BY DEF Table
<1>2. ClientRuns = {RunOf(frozen, i) : i \in 1..n}
  BY DEF ClientRuns, SessionTable, RunOf
<1>3. f \in [1..n -> ClientRuns]
  BY <1>2
<1>4. ASSUME NEW i \in 1..n, NEW j \in 1..n, f[i] = f[j] PROVE i = j
  <2>1. f[i].driverIndex = i - 1 /\ f[j].driverIndex = j - 1
    BY DEF RunOf
  <2> QED BY <1>1, <1>4, <2>1
<1>5. f \in Bijection(1..n, ClientRuns)
  <2>1. \A a, b \in 1..n : f[a] = f[b] => a = b
    BY <1>4
  <2>2. \A r \in ClientRuns : \E i \in 1..n : f[i] = r
    BY <1>2
  <2> HIDE DEF f, n
  <2> QED BY <1>3, <2>1, <2>2
          DEF Bijection, Injection, Surjection, IsInjective
<1>6. ExistsBijection(1..n, ClientRuns)
  BY <1>5 DEF ExistsBijection
<1>7. IsFiniteSet(1..n) /\ Cardinality(1..n) = n
  <2>1. 0 \in Int /\ 1 \in Int /\ n \in Int
    BY <1>1
  <2> HIDE DEF n
  <2> QED BY <1>1, <2>1, FS_Interval
<1> HIDE DEF n
<1>8. IsFiniteSet(ClientRuns) /\ Cardinality(ClientRuns) = n
  BY <1>6, <1>7, FS_Bijection
<1> QED BY <1>8 DEF n

(* A list of the runs of the table, each of them once. *)
Enumerates(runs, t) ==
  /\ runs \in Seq([driverIndex : Nat, base : Word, length : Word])
  /\ Len(runs) = CountRanges(t)
  /\ \A k \in 1..Len(runs) :
       /\ runs[k].driverIndex \in 0 .. Len(runs) - 1
       /\ runs[k] = RunOf(t, runs[k].driverIndex + 1)
  /\ \A j, k \in 1..Len(runs) :
       runs[j].driverIndex = runs[k].driverIndex => j = k
  /\ \A i \in 0 .. Len(runs) - 1 :
       \E k \in 1..Len(runs) : runs[k].driverIndex = i

LEMMA SortingEnumerates ==
  ASSUME Table(frozen), NEW runs \in SetToSeqs(ClientRuns)
  PROVE  Enumerates(runs, frozen)
<1> DEFINE n == CountRanges(frozen)
<1>1. n \in Nat /\ n <= Len(frozen) /\ frozen \in Seq(Entry)
  BY DEF Table
<1>2. ClientRuns = {RunOf(frozen, i) : i \in 1..n}
  BY DEF ClientRuns, SessionTable, RunOf
<1>3. IsFiniteSet(ClientRuns) /\ Cardinality(ClientRuns) = n
  BY AsManyRuns
<1>4. /\ runs \in [1..n -> ClientRuns]
      /\ \A i, j \in 1..n : i # j => runs[i] # runs[j]
  BY <1>3 DEF SetToSeqs
<1>5. \A i \in 1..n :
        /\ RunOf(frozen, i) \in [driverIndex : Nat, base : Word, length : Word]
        /\ RunOf(frozen, i).driverIndex = i - 1
  <2> SUFFICES ASSUME NEW i \in 1..n
               PROVE  RunOf(frozen, i) \in
                        [driverIndex : Nat, base : Word, length : Word]
    BY DEF RunOf
  <2>1. i \in 1..Len(frozen) /\ i - 1 \in Nat
    BY <1>1
  <2>2. frozen[i] \in Entry
    BY <1>1, <2>1
  <2> QED BY <2>1, <2>2 DEF RunOf, Entry
<1> HIDE DEF n
<1>6. Len(runs) = n /\ DOMAIN runs = 1..n
      /\ runs \in Seq([driverIndex : Nat, base : Word, length : Word])
  <2>1. runs \in [1..n -> [driverIndex : Nat, base : Word, length : Word]]
    BY <1>2, <1>4, <1>5
  <2> QED BY <1>1, <2>1, ListOf
<1>7. ASSUME NEW k \in 1..n
      PROVE  /\ runs[k].driverIndex \in 0 .. n - 1
             /\ runs[k] = RunOf(frozen, runs[k].driverIndex + 1)
  <2>1. PICK i \in 1..n : runs[k] = RunOf(frozen, i)
    BY <1>2, <1>4
  <2>2. runs[k].driverIndex = i - 1
    BY <1>5, <2>1
  <2>3. (i - 1) + 1 = i /\ i - 1 \in 0 .. n - 1
    BY <1>1
  <2> QED BY <2>1, <2>2, <2>3
<1>8. ASSUME NEW j \in 1..n, NEW k \in 1..n,
             runs[j].driverIndex = runs[k].driverIndex
      PROVE  j = k
  BY <1>4, <1>7, <1>8
<1>9. ASSUME NEW i \in 0 .. n - 1
      PROVE  \E k \in 1..n : runs[k].driverIndex = i
  <2>1. runs \in Injection(1..n, ClientRuns)
    BY <1>4 DEF Injection, IsInjective
  <2>2. IsFiniteSet(1..n) /\ Cardinality(1..n) = n
    <3>1. 1 \in Int /\ n \in Int
      BY <1>1
    <3> QED BY <1>1, <3>1, FS_Interval
  <2>3. runs \in Surjection(1..n, ClientRuns)
    BY <1>3, <2>1, <2>2, FS_Injection
  <2>4. RunOf(frozen, i + 1) \in ClientRuns
    BY <1>1, <1>2
  <2>5. PICK k \in 1..n : runs[k] = RunOf(frozen, i + 1)
    BY <2>3, <2>4 DEF Surjection
  <2>6. i + 1 \in 1..n /\ (i + 1) - 1 = i
    BY <1>1
  <2> QED BY <1>5, <2>5, <2>6
<1> QED BY <1>6, <1>7, <1>8, <1>9 DEF Enumerates, n


---------------------------------------------------------------------------
(* What Query accepts.                                                     *)

(* The runs of t as Query returns them. *)
Accepted(runs, t) ==
  /\ Enumerates(runs, t) /\ Len(runs) \in 1..MaxRuns
  /\ \A k \in 1..Len(runs) : RunIsSound(runs[k])
  /\ NoOverlap(runs)

LEMMA RunFacts ==
  ASSUME NEW runs, NEW t, Accepted(runs, t), NEW k \in 1..Len(runs)
  PROVE  /\ Len(runs) \in Nat
         /\ runs[k].driverIndex \in 0 .. Len(runs) - 1
         /\ runs[k].base \in Word /\ runs[k].length \in 1..MaxWord
         /\ runs[k].base + runs[k].length <= MaxWord
<1>1. runs \in Seq([driverIndex : Nat, base : Word, length : Word])
  BY DEF Accepted, Enumerates
<1>2. Len(runs) \in Nat
  BY <1>1
<1>3. runs[k] \in [driverIndex : Nat, base : Word, length : Word]
  <2> DEFINE Run == [driverIndex : Nat, base : Word, length : Word]
  <2>1. runs \in Seq(Run)
    BY <1>1
  <2> HIDE DEF Run
  <2>2. runs[k] \in Run
    BY <1>2, <2>1
  <2> QED BY <2>2 DEF Run
<1>4. RunIsSound(runs[k]) /\ runs[k].driverIndex \in 0 .. Len(runs) - 1
  BY DEF Accepted, Enumerates
<1> QED BY <1>2, <1>3, <1>4, ClientAssumption DEF RunIsSound, Word

(* Query compares neighbours; that orders the whole list. *)
LEMMA NeighboursOrderAll ==
  ASSUME NEW runs, NEW t, Accepted(runs, t)
  PROVE  \A i, j \in 1..Len(runs) :
           i < j => runs[i].base + runs[i].length <= runs[j].base
<1> DEFINE n == Len(runs)
           Before(i, j) == runs[i].base + runs[i].length <= runs[j].base
           S == {d \in Nat : \A i \in 1..n :
                   i + d + 1 <= n => Before(i, i + d + 1)}
<1>1. n \in Nat
  BY DEF Accepted
<1>2. \A i \in 1..n : runs[i].base \in Nat /\ runs[i].length \in Nat
  BY RunFacts, ClientAssumption DEF Word
<1>3. \A i \in 2..n : Before(i - 1, i)
  BY DEF Accepted, NoOverlap
<1>4. \A i \in 1..n : i + 1 <= n => Before(i, i + 1)
  <2> TAKE i \in 1..n
  <2> HAVE i + 1 <= n
  <2>1. i + 1 \in 2..n /\ (i + 1) - 1 = i
    BY <1>1
  <2> QED BY <1>3, <2>1
<1>5. 0 \in S
  <2>1. \A i \in 1..n : i + 0 + 1 = i + 1
    BY <1>1
  <2> QED BY <1>4, <2>1
<1>6. ASSUME NEW d \in Nat, d \in S PROVE d + 1 \in S
  <2> SUFFICES ASSUME NEW i \in 1..n, i + (d + 1) + 1 <= n
               PROVE  Before(i, i + (d + 1) + 1)
    BY DEF S
  <2> DEFINE k == i + d + 1
  <2>1. k \in 1..n /\ k + 1 <= n /\ k + 1 \in 1..n
        /\ i + (d + 1) + 1 = k + 1
    BY <1>1
  <2>2. Before(i, k) /\ Before(k, k + 1)
    BY <1>4, <1>6, <2>1
  <2>3. /\ runs[i].base \in Nat /\ runs[i].length \in Nat
        /\ runs[k].base \in Nat /\ runs[k].length \in Nat
        /\ runs[k + 1].base \in Nat
    BY <1>2, <2>1
  <2>4. Before(i, k + 1)
    <3>1. \A p, q, r, u, v \in Nat : p + q <= r /\ r + u <= v => p + q <= v
      OBVIOUS
    <3> HIDE DEF k
    <3> QED BY <2>2, <2>3, <3>1, ZenonT(30)
  <2> QED BY <2>1, <2>4
<1>7. S = Nat
  <2>1. S \in SUBSET Nat
    OBVIOUS
  <2> HIDE DEF S
  <2> QED BY <1>5, <1>6, <2>1, SetInduction
<1>8. ASSUME NEW i \in 1..n, NEW j \in 1..n, i < j PROVE Before(i, j)
  <2>1. j - i - 1 \in Nat /\ i + (j - i - 1) + 1 = j
    BY <1>1, <1>8
  <2>2. j - i - 1 \in S
    BY <1>7, <2>1
  <2> QED BY <1>1, <2>1, <2>2
<1> QED BY <1>8

(* Runs that do not overlap and are not empty have only one order. *)
LEMMA OneOrder ==
  ASSUME NEW t, NEW a, NEW b, Accepted(a, t), Accepted(b, t)
  PROVE  a = b
<1> DEFINE n == CountRanges(t)
           Run == [driverIndex : Nat, base : Word, length : Word]
           D == {k \in 1..n : a[k] # b[k]}
<1>1. /\ Len(a) = n /\ Len(b) = n /\ n \in Nat
      /\ a \in Seq(Run) /\ b \in Seq(Run)
  BY DEF Accepted, Enumerates
<1>2. ASSUME NEW c, NEW d, Accepted(c, t), Accepted(d, t), NEW k \in 1..n
      PROVE  \E m \in 1..n : d[m] = c[k]
  <2>1. c[k].driverIndex \in 0 .. n - 1
        /\ c[k] = RunOf(t, c[k].driverIndex + 1)
    BY <1>2 DEF Accepted, Enumerates
  <2>2. PICK m \in 1..n : d[m].driverIndex = c[k].driverIndex
    BY <1>2, <2>1 DEF Accepted, Enumerates
  <2>3. d[m] = RunOf(t, d[m].driverIndex + 1)
    BY <1>2 DEF Accepted, Enumerates
  <2> QED BY <2>1, <2>2, <2>3
<1>3. ASSUME NEW c, Accepted(c, t), NEW i \in 1..n, NEW j \in 1..n
      PROVE  /\ i < j => c[i].base < c[j].base
             /\ c[i] = c[j] => i = j
             /\ c[i].base \in Nat
  <2>1. Len(c) = n
    BY <1>3 DEF Accepted, Enumerates
  <2>2. /\ c[i].base \in Nat /\ c[j].base \in Nat
        /\ c[i].length \in Nat /\ c[i].length > 0
    BY <1>3, <2>1, RunFacts, ClientAssumption, SMTT(30) DEF Word
  <2>3. i < j => c[i].base + c[i].length <= c[j].base
    BY <1>3, <2>1, NeighboursOrderAll
  <2>4. c[i].driverIndex = c[j].driverIndex => i = j
    BY <1>3, <2>1 DEF Accepted, Enumerates
  <2> QED BY <2>2, <2>3, <2>4
<1>4. D = {}
  <2> SUFFICES ASSUME D # {} PROVE FALSE
    OBVIOUS
  <2>1. PICK k \in D : \A m \in D : k <= m
    <3>1. D \in SUBSET Nat
      BY <1>1
    <3> HIDE DEF D
    <3> QED BY <3>1, Least
  <2>2. k \in 1..n /\ a[k] # b[k] /\ \A m \in 1..n : m < k => a[m] = b[m]
    BY <1>1, <2>1
  <2> HIDE DEF D
  <2>3. PICK i \in 1..n : b[i] = a[k]
    BY <1>2, <2>2
  <2>4. PICK j \in 1..n : a[j] = b[k]
    BY <1>2, <2>2
  <2>5. k < i
    <3>1. i # k /\ ~(i < k)
      BY <1>3, <2>2, <2>3
    <3> QED BY <1>1, <2>2, <3>1
  <2>6. k < j
    <3>1. j # k /\ ~(j < k)
      BY <1>3, <2>2, <2>4
    <3> QED BY <1>1, <2>2, <3>1
  <2>7. /\ b[k].base < b[i].base /\ a[k].base < a[j].base
        /\ a[k].base \in Nat /\ b[k].base \in Nat
    BY <1>3, <2>2, <2>5, <2>6
  <2> QED BY <2>3, <2>4, <2>7
<1>5. \A k \in 1..n : a[k] = b[k]
  BY <1>4
<1> HIDE DEF n, Run
<1> QED BY <1>1, <1>5


---------------------------------------------------------------------------
(* The folds.  FoldLeft takes a set of positions apart at its largest      *)
(* element.                                                                *)

Maxima(n) == [s \in SUBSET (1..n) |-> Max(s)]

LEMMA MaximaChoose ==
  ASSUME NEW n \in Nat
  PROVE  Chooses(Maxima(n), n)
BY MaxFacts DEF Chooses, Maxima

Zero == [total |-> 0, highest |-> 0]
Summary == [total : Word, highest : Word]

LEMMA SummarizeFacts ==
  ASSUME NEW r \in Summary, NEW e \in Entry
  PROVE  /\ Summarize(r, e) \in Summary
         /\ e.base + e.length <= MaxWord =>
              /\ Summarize(r, e).highest >= e.base + e.length
              /\ Summarize(r, e).highest >= r.highest
              /\ Summarize(r, e).highest \in {r.highest, e.base + e.length}
              /\ r.total + e.length <= MaxWord =>
                   Summarize(r, e).total = r.total + e.length
<1>1. /\ r.total \in 0..MaxWord /\ r.highest \in 0..MaxWord
      /\ e.base \in 0..MaxWord /\ e.length \in 0..MaxWord
  BY DEF Summary, Entry, Word
<1>2. r = [total |-> r.total, highest |-> r.highest]
  BY DEF Summary
<1>3. CASE e.length > MaxWord - e.base
  <2>1. Summarize(r, e) = r
    BY <1>3 DEF Summarize
  <2> QED BY <1>1, <1>3, <2>1, ClientAssumption
<1>4. CASE ~(e.length > MaxWord - e.base)
  <2> DEFINE total == IF MaxWord - r.total >= e.length
                      THEN r.total + e.length ELSE r.total
             highest == IF e.base + e.length > r.highest
                        THEN e.base + e.length ELSE r.highest
  <2>1. Summarize(r, e) = [total |-> total, highest |-> highest]
    BY <1>4 DEF Summarize
  <2>2. /\ total \in Word /\ highest \in Word
        /\ highest >= e.base + e.length /\ highest >= r.highest
        /\ highest \in {r.highest, e.base + e.length}
        /\ r.total + e.length <= MaxWord => total = r.total + e.length
    BY <1>1, <1>4, ClientAssumption, SMTT(30) DEF Word
  <2> HIDE DEF total, highest
  <2> QED BY <2>1, <2>2 DEF Summary
<1> QED BY <1>3, <1>4

(* PhylaSummarizeRanges entry by entry: h[k] is the summary of the first k. *)
LEMMA SummaryWalks ==
  ASSUME Table(frozen)
  PROVE  \E h : 
           /\ h[0] = Zero
           /\ \A k \in 1..CountRanges(frozen) :
                h[k] = Summarize(h[k - 1], frozen[k])
           /\ SummarizeRanges(frozen) = h[CountRanges(frozen)]
<1> DEFINE n == CountRanges(frozen)
           t == SubSeq(frozen, 1, n)
           F == [i \in 1..n |-> [r \in Summary |-> Summarize(r, frozen[i])]]
           iter == CHOOSE f : f = [s \in SUBSET DOMAIN t |->
                     IF s = {} THEN Zero
                     ELSE Summarize(f[s \ {Max(s)}], t[Max(s)])]
<1>1. /\ n \in Nat /\ n <= Len(frozen) /\ frozen \in Seq(Entry)
      /\ DOMAIN t = 1..n /\ \A k \in 1..n : t[k] = frozen[k]
  BY DEF Table
<1>2. SummarizeRanges(frozen) = iter[DOMAIN t]
  BY DEF SummarizeRanges, FoldLeft, MapThenFoldSet, Zero
<1>3. Zero \in Summary
  BY ClientAssumption DEF Zero, Summary, Word
<1>4. \A i \in 1..n : frozen[i] \in Entry
  BY <1>1
<1> HIDE DEF n
<1>5. F \in [1..n -> [Summary -> Summary]]
  BY <1>1, <1>4, SummarizeFacts
<1>6. PICK g \in [SUBSET (1..n) -> Summary] : IsFold(g, n, Zero, F, Maxima(n))
  <2> HIDE DEF F
  <2> QED BY <1>1, <1>3, <1>5, FoldExists, MaximaChoose DEF Foldable
<1>7. g = [s \in SUBSET DOMAIN t |->
             IF s = {} THEN Zero
             ELSE Summarize(g[s \ {Max(s)}], t[Max(s)])]
  <2>1. ASSUME NEW s \in SUBSET (1..n)
        PROVE  g[s] = IF s = {} THEN Zero
                      ELSE Summarize(g[s \ {Max(s)}], t[Max(s)])
    <3>1. CASE s = {}
      BY <1>6, <3>1 DEF IsFold
    <3>2. CASE s # {}
      <4>1. Max(s) \in 1..n
        BY <1>1, <3>2, MaxFacts
      <4>2. s \ {Max(s)} \in SUBSET (1..n)
        OBVIOUS
      <4>3. g[s \ {Max(s)}] \in Summary
        BY <1>6, <4>2
      <4>4. g[s] = F[Max(s)][g[s \ {Max(s)}]]
        <5> HIDE DEF F
        <5> QED BY <1>6, <3>2 DEF IsFold, Maxima
      <4>5. t[Max(s)] = frozen[Max(s)]
        BY <1>1, <4>1
      <4> QED BY <3>2, <4>1, <4>3, <4>4, <4>5
    <3> QED BY <3>1, <3>2
  <2> HIDE DEF t
  <2> QED BY <1>1, <1>6, <2>1
<1>8. iter = [s \in SUBSET DOMAIN t |->
                IF s = {} THEN Zero
                ELSE Summarize(iter[s \ {Max(s)}], t[Max(s)])]
  <2> HIDE DEF t
  <2> QED BY <1>7
<1> HIDE DEF iter
<1> DEFINE h == [k \in 0..n |-> iter[1..k]]
<1>9. h[0] = Zero
  <2>1. 1..0 = {} /\ {} \in SUBSET DOMAIN t
    OBVIOUS
  <2>2. h[0] = iter[{}]
    BY <1>1, <2>1
  <2> HIDE DEF h, t
  <2> QED BY <1>8, <2>1, <2>2
<1>10. ASSUME NEW k \in 1..n PROVE h[k] = Summarize(h[k - 1], frozen[k])
  <2>1. /\ k \in 0..n /\ k - 1 \in 0..n
        /\ 1..k \in SUBSET (1..n) /\ 1..k # {}
        /\ (1..k) \ {k} = 1 .. k - 1
    BY <1>1, IntervalFacts
  <2>2. Max(1..k) = k
    BY MaxOfInterval
  <2>3. h[k] = iter[1..k] /\ h[k - 1] = iter[1 .. k - 1]
    BY <2>1
  <2>4. t[k] = frozen[k]
    BY <1>1
  <2>5. 1..k \in SUBSET DOMAIN t
    BY <1>1, <2>1
  <2> HIDE DEF h, t
  <2>6. iter[1..k] = Summarize(iter[(1..k) \ {Max(1..k)}], t[Max(1..k)])
    BY <1>8, <2>1, <2>5
  <2> QED BY <2>1, <2>2, <2>3, <2>4, <2>6
<1>11. SummarizeRanges(frozen) = h[n]
  BY <1>1, <1>2
<1> HIDE DEF h
<1> QED BY <1>9, <1>10, <1>11 DEF n


(* The client's sum run by run. *)
LEMMA TotalWalks ==
  ASSUME NEW runs, NEW n \in Nat, Len(runs) = n, DOMAIN runs = 1..n,
         \A k \in 1..n : runs[k].length \in Nat
  PROVE  \E h : /\ h[0] = 0
                /\ \A k \in 1..n : h[k] = h[k - 1] + runs[k].length
                /\ TotalLength(runs) = h[n]
<1> DEFINE F == [i \in 1..n |-> [r \in Nat |-> r + runs[i].length]]
           iter == CHOOSE f : f = [s \in SUBSET DOMAIN runs |->
                     IF s = {} THEN 0
                     ELSE f[s \ {Max(s)}] + runs[Max(s)].length]
<1>1. TotalLength(runs) = iter[DOMAIN runs]
  BY DEF TotalLength, FoldLeft, MapThenFoldSet
<1>2. F \in [1..n -> [Nat -> Nat]]
  OBVIOUS
<1>3. PICK g \in [SUBSET (1..n) -> Nat] : IsFold(g, n, 0, F, Maxima(n))
  <2> HIDE DEF F
  <2> QED BY <1>2, FoldExists, MaximaChoose DEF Foldable
<1>4. g = [s \in SUBSET DOMAIN runs |->
             IF s = {} THEN 0
             ELSE g[s \ {Max(s)}] + runs[Max(s)].length]
  <2>1. ASSUME NEW s \in SUBSET (1..n)
        PROVE  g[s] = IF s = {} THEN 0
                      ELSE g[s \ {Max(s)}] + runs[Max(s)].length
    <3>1. CASE s = {}
      BY <1>3, <3>1 DEF IsFold
    <3>2. CASE s # {}
      <4>1. Max(s) \in 1..n
        BY <3>2, MaxFacts
      <4>2. s \ {Max(s)} \in SUBSET (1..n)
        OBVIOUS
      <4>3. g[s \ {Max(s)}] \in Nat
        BY <1>3, <4>2
      <4>4. g[s] = F[Max(s)][g[s \ {Max(s)}]]
        <5> HIDE DEF F
        <5> QED BY <1>3, <3>2 DEF IsFold, Maxima
      <4> QED BY <3>2, <4>1, <4>3, <4>4
    <3> QED BY <3>1, <3>2
  <2> QED BY <1>3, <2>1
<1>5. iter = [s \in SUBSET DOMAIN runs |->
                IF s = {} THEN 0
                ELSE iter[s \ {Max(s)}] + runs[Max(s)].length]
  BY <1>4
<1> HIDE DEF iter
<1> DEFINE h == [k \in 0..n |-> iter[1..k]]
<1>6. h[0] = 0
  <2>1. 1..0 = {} /\ {} \in SUBSET DOMAIN runs
    OBVIOUS
  <2>2. h[0] = iter[{}]
    BY <2>1
  <2> HIDE DEF h
  <2> QED BY <1>5, <2>1, <2>2
<1>7. ASSUME NEW k \in 1..n PROVE h[k] = h[k - 1] + runs[k].length
  <2>1. /\ k \in 0..n /\ k - 1 \in 0..n
        /\ 1..k \in SUBSET (1..n) /\ 1..k # {}
        /\ (1..k) \ {k} = 1 .. k - 1
    BY IntervalFacts
  <2>2. Max(1..k) = k
    BY MaxOfInterval
  <2>3. h[k] = iter[1..k] /\ h[k - 1] = iter[1 .. k - 1]
    BY <2>1
  <2> HIDE DEF h
  <2>4. iter[1..k] = iter[(1..k) \ {Max(1..k)}] + runs[Max(1..k)].length
    BY <1>5, <2>1
  <2> QED BY <2>1, <2>2, <2>3, <2>4
<1>8. TotalLength(runs) = h[n]
  BY <1>1
<1> HIDE DEF h
<1> QED BY <1>6, <1>7, <1>8

---------------------------------------------------------------------------
(* The driver's totals over the unsorted table are those of the list.      *)

(* h[k] is the summary of the first k entries of t. *)
Summaries(h, t, n) ==
  h[0] = Zero /\ \A k \in 1..n : h[k] = Summarize(h[k - 1], t[k])

SoundEntries(t, len, n) ==
  \A i \in 1..n : /\ t[i] \in Entry /\ len[i] = t[i].length
                  /\ t[i].base + t[i].length <= MaxWord

(* What such a summary amounts to: the sum over the positions, and the     *)
(* highest of the ends.                                                    *)
Amounts(summary, t, g, k) ==
  /\ summary \in Summary /\ summary.total = g[1..k]
  /\ \A i \in 1..k : t[i].base + t[i].length <= summary.highest
  /\ \/ summary.highest = 0
     \/ \E i \in 1..k : summary.highest = t[i].base + t[i].length

LEMMA SummaryOfPrefix ==
  ASSUME NEW t, NEW n \in Nat, NEW h, NEW g \in [SUBSET (1..n) -> Nat],
         NEW len \in [1..n -> Nat],
         Summaries(h, t, n), SoundEntries(t, len, n),
         g[{}] = 0, Sums(g, len, n), g[1..n] <= MaxWord
  PROVE  \A k \in 0..n : Amounts(h[k], t, g, k)
<1> USE DEF Summaries, SoundEntries, Amounts
<1> DEFINE End(i) == t[i].base + t[i].length
           Right(k) == /\ h[k] \in Summary /\ h[k].total = g[1..k]
                       /\ \A i \in 1..k : End(i) <= h[k].highest
                       /\ \/ h[k].highest = 0
                          \/ \E i \in 1..k : h[k].highest = End(i)
           Fits(d) == d <= n => g[1 .. n - d] <= MaxWord
           S == {k \in Nat : k <= n => Right(k)}
           T == {d \in Nat : Fits(d)}
<1>1. ASSUME NEW k \in 1..n
      PROVE  /\ g[1..k] = g[1 .. k - 1] + len[k]
             /\ g[1..k] \in Nat /\ g[1 .. k - 1] \in Nat /\ len[k] \in Nat
  <2>1. /\ 1..k \in SUBSET (1..n) /\ k \in 1..k
        /\ (1..k) \ {k} = 1 .. k - 1 /\ 1 .. k - 1 \in SUBSET (1..n)
    BY IntervalFacts, SMTT(30)
  <2>2. g[1..k] = g[(1..k) \ {k}] + len[k]
    BY <2>1 DEF Sums
  <2>3. g[1..k] \in Nat /\ g[1 .. k - 1] \in Nat /\ len[k] \in Nat
    BY <2>1
  <2> QED BY <2>1, <2>2, <2>3
<1>2. T = Nat
  <2>1. 0 \in T
    <3>1. n - 0 = n
      OBVIOUS
    <3> QED BY <3>1
  <2>2. ASSUME NEW d \in Nat, d \in T PROVE d + 1 \in T
    <3> SUFFICES ASSUME d + 1 <= n PROVE g[1 .. n - (d + 1)] <= MaxWord
      OBVIOUS
    <3>1. n - d \in 1..n /\ (n - d) - 1 = n - (d + 1)
      OBVIOUS
    <3>2. g[1 .. n - d] <= MaxWord
      BY <2>2
    <3>3. /\ g[1 .. n - d] = g[1 .. n - (d + 1)] + len[n - d]
          /\ g[1 .. n - d] \in Nat /\ g[1 .. n - (d + 1)] \in Nat
          /\ len[n - d] \in Nat
      BY <1>1, <3>1
    <3> QED BY <3>2, <3>3, ClientAssumption, SMTT(30)
  <2>3. T \in SUBSET Nat
    OBVIOUS
  <2> HIDE DEF T
  <2> QED BY <2>1, <2>2, <2>3, SetInduction
<1>3. ASSUME NEW k \in 1..n PROVE g[1..k] <= MaxWord
  <2>1. n - k \in Nat /\ n - (n - k) = k /\ n - k <= n
    OBVIOUS
  <2>2. n - k \in T
    BY <1>2, <2>1
  <2> HIDE DEF Fits
  <2>3. Fits(n - k)
    BY <2>2
  <2> QED BY <2>1, <2>3 DEF Fits
<1>4. 0 \in S
  <2>1. 1..0 = {}
    OBVIOUS
  <2>2. Zero \in Summary /\ Zero.total = 0 /\ Zero.highest = 0
    BY ClientAssumption DEF Zero, Summary, Word
  <2> QED BY <2>1, <2>2
<1>5. ASSUME NEW m \in Nat, m \in S PROVE m + 1 \in S
  <2> SUFFICES ASSUME m + 1 <= n PROVE Right(m + 1)
    OBVIOUS
  <2> DEFINE k == m + 1
  <2>1. k \in 1..n /\ k - 1 = m /\ m <= n
    OBVIOUS
  <2>2. Right(m)
    <3> HIDE DEF Right
    <3> QED BY <1>5, <2>1
  <2> HIDE DEF k, S
  <2>3. /\ h[k] = Summarize(h[m], t[k]) /\ t[k] \in Entry
        /\ len[k] = t[k].length /\ End(k) <= MaxWord
    BY <2>1
  <2>4. /\ h[k] \in Summary /\ h[k].highest >= End(k)
        /\ h[k].highest >= h[m].highest
        /\ h[k].highest \in {h[m].highest, End(k)}
        /\ h[m].total + len[k] <= MaxWord =>
             h[k].total = h[m].total + len[k]
    BY <2>2, <2>3, SummarizeFacts, ZenonT(30)
  <2>5. h[k].total = g[1..k]
    <3>1. g[1..k] = g[1..m] + len[k] /\ g[1..k] <= MaxWord
      BY <1>1, <1>3, <2>1
    <3> QED BY <2>2, <2>4, <3>1
  <2>6. \A i \in 1..k : i \in 1..m \/ i = k
    BY <2>1
  <2>7. ASSUME NEW i \in 1..k PROVE End(i) <= h[k].highest
    <3>1. CASE i = k
      BY <2>4, <3>1
    <3>2. CASE i \in 1..m
      <4>1. i \in 1..n
        BY <2>1, <3>2
      <4>2. t[i].base \in Nat /\ t[i].length \in Nat
        BY <4>1, ClientAssumption DEF Entry, Word
      <4>3. h[m].highest \in Nat /\ h[k].highest \in Nat
        BY <2>2, <2>4, ClientAssumption DEF Summary, Word
      <4>4. End(i) <= h[m].highest /\ h[m].highest <= h[k].highest
        BY <2>2, <2>4, <3>2
      <4>5. End(i) \in Nat
        BY <4>2
      <4> HIDE DEF End, Right
      <4>6. \A p, q, r \in Nat : p <= q /\ q <= r => p <= r
        OBVIOUS
      <4> QED BY <4>3, <4>4, <4>5, <4>6
    <3> QED BY <2>6, <3>1, <3>2
  <2>8. h[k].highest = 0 \/ \E i \in 1..k : h[k].highest = End(i)
    <3>1. k \in 1..k /\ \A i \in 1..m : i \in 1..k
      BY <2>1
    <3> QED BY <2>2, <2>4, <3>1
  <2>9. Right(k)
    BY <2>4, <2>5, <2>7, <2>8
  <2> HIDE DEF Right
  <2> QED BY <2>9 DEF k
<1>6. S = Nat
  <2>1. S \in SUBSET Nat
    OBVIOUS
  <2> HIDE DEF S
  <2> QED BY <1>4, <1>5, <2>1, SetInduction
<1>7. ASSUME NEW k \in 0..n PROVE Right(k)
  <2> HIDE DEF Right
  <2>1. k \in Nat /\ k <= n /\ k \in S
    BY <1>6
  <2> QED BY <2>1
<1> QED BY <1>7


LEMMA TotalsAgree ==
  ASSUME Table(frozen), NEW runs, Accepted(runs, frozen)
  PROVE  /\ SummarizeRanges(frozen) \in Summary
         /\ SummarizeRanges(frozen).total = TotalLength(runs)
         /\ SummarizeRanges(frozen).highest
              = runs[Len(runs)].base + runs[Len(runs)].length
<1> DEFINE n == CountRanges(frozen)
           End(k) == runs[k].base + runs[k].length
           at(k) == runs[k].driverIndex + 1
           len == [i \in 1..n |-> frozen[i].length]
<1>1. /\ n \in Nat \ {0} /\ n <= Len(frozen) /\ Len(runs) = n
      /\ DOMAIN runs = 1..n
  BY DEF Accepted, Enumerates, Table
<1>2. \A i \in 1..n : frozen[i] \in Entry
  BY <1>1 DEF Table
<1>3. ASSUME NEW k \in 1..n
      PROVE  /\ at(k) \in 1..n
             /\ runs[k].base = frozen[at(k)].base
             /\ runs[k].length = frozen[at(k)].length
             /\ runs[k].base \in Nat /\ runs[k].length \in Nat
             /\ End(k) \in Nat /\ End(k) <= MaxWord
  <2>1. /\ runs[k].driverIndex \in 0 .. n - 1
        /\ runs[k].base \in Word /\ runs[k].length \in 1..MaxWord
        /\ End(k) <= MaxWord
    BY <1>1, RunFacts
  <2>2. runs[k] = RunOf(frozen, at(k))
    BY <1>1 DEF Accepted, Enumerates
  <2>3. RunOf(frozen, at(k)).base = frozen[at(k)].base
        /\ RunOf(frozen, at(k)).length = frozen[at(k)].length
    BY DEF RunOf
  <2>4. at(k) \in 1..n
    BY <1>1, <2>1
  <2> HIDE DEF at
  <2> QED BY <2>1, <2>2, <2>3, <2>4, ClientAssumption, SMTT(30) DEF Word
<1>4. \A i \in 1..n : \E k \in 1..n : at(k) = i
  <2> TAKE i \in 1..n
  <2>1. i - 1 \in 0 .. n - 1 /\ (i - 1) + 1 = i
    BY <1>1
  <2>2. PICK k \in 1..n : runs[k].driverIndex = i - 1
    BY <1>1, <2>1 DEF Accepted, Enumerates
  <2> QED BY <2>1, <2>2
<1>5. \A j, k \in 1..n : at(j) = at(k) => j = k
  <2>1. \A j, k \in 1..n : runs[j].driverIndex = runs[k].driverIndex => j = k
    BY <1>1 DEF Accepted, Enumerates
  <2>2. \A k \in 1..n : runs[k].driverIndex \in 0 .. n - 1
    BY <1>1 DEF Accepted, Enumerates
  <2> HIDE DEF n
  <2> QED BY <1>1, <2>1, <2>2
<1>6. len \in [1..n -> Nat]
  <2>1. \A i \in 1..n : frozen[i].length \in Nat
    BY <1>2, ClientAssumption DEF Entry, Word
  <2> QED BY <2>1
<1>7. \A i \in 1..n : len[i] = frozen[i].length
  OBVIOUS
<1>8. \A i, j \in 1..n : i < j => End(i) <= runs[j].base
  BY <1>1, NeighboursOrderAll
<1> HIDE DEF n, at, len
<1>9. PICK g \in [SUBSET (1..n) -> Nat] : g[{}] = 0 /\ Sums(g, len, n)
  BY <1>1, <1>6, SumExists, MaximaChoose
<1>10. PICK c : /\ c[0] = 0
                /\ \A k \in 1..n : c[k] = c[k - 1] + runs[k].length
                /\ TotalLength(runs) = c[n]
  BY <1>1, <1>3, TotalWalks
<1> DEFINE A(k) == {at(j) : j \in 1..k}
<1>11. \A k \in 0..n : c[k] = g[A(k)]
  <2> DEFINE S == {k \in Nat : k <= n => c[k] = g[A(k)]}
  <2>1. 0 \in S
    <3>1. 1..0 = {} /\ A(0) = {}
      OBVIOUS
    <3> QED BY <1>9, <1>10, <3>1
  <2>2. ASSUME NEW m \in Nat, m \in S PROVE m + 1 \in S
    <3> SUFFICES ASSUME m + 1 <= n PROVE c[m + 1] = g[A(m + 1)]
      OBVIOUS
    <3>1. /\ m + 1 \in 1..n /\ (m + 1) - 1 = m /\ m <= n
          /\ \A j \in 1 .. m + 1 : j \in 1..m \/ j = m + 1
          /\ \A j \in 1 .. m + 1 : j \in 1..n
          /\ \A j \in 1..m : j # m + 1 /\ j \in 1 .. m + 1
      BY <1>1
    <3>2. c[m] = g[A(m)]
      BY <2>2, <3>1
    <3>3. A(m + 1) \in SUBSET (1..n) /\ at(m + 1) \in A(m + 1)
      BY <1>3, <3>1
    <3>4. A(m + 1) \ {at(m + 1)} = A(m)
      BY <1>5, <3>1
    <3>5. g[A(m + 1)] = g[A(m + 1) \ {at(m + 1)}] + len[at(m + 1)]
      <4> HIDE DEF A
      <4> QED BY <1>9, <3>3 DEF Sums
    <3>6. c[m + 1] = c[m] + len[at(m + 1)]
      BY <1>3, <1>7, <1>10, <3>1
    <3> HIDE DEF A
    <3> QED BY <3>2, <3>4, <3>5, <3>6
  <2>3. S = Nat
    <3>1. S \in SUBSET Nat
      OBVIOUS
    <3> HIDE DEF S
    <3> QED BY <2>1, <2>2, <3>1, SetInduction
  <2> SUFFICES ASSUME NEW k \in 0..n PROVE c[k] = g[A(k)]
    OBVIOUS
  <2>4. k \in Nat /\ k <= n
    BY <1>1
  <2>5. k \in S
    <3> HIDE DEF S
    <3> QED BY <2>3, <2>4
  <2> HIDE DEF A
  <2> QED BY <2>4, <2>5
<1>12. TotalLength(runs) = g[1..n]
  <2>1. A(n) = 1..n
    <3>1. \A x \in A(n) : x \in 1..n
      BY <1>3
    <3>2. \A x \in 1..n : x \in A(n)
      BY <1>4
    <3> HIDE DEF A
    <3> QED BY <3>1, <3>2
  <2>2. n \in 0..n
    BY <1>1
  <2> QED BY <1>10, <1>11, <2>1, <2>2
<1>13. \A k \in 1..n : c[k] \in Nat /\ c[k] <= End(k)
  <2> DEFINE S == {d \in Nat : d + 1 <= n =>
                     c[d + 1] \in Nat /\ c[d + 1] <= End(d + 1)}
  <2>1. 0 \in S
    <3>1. 1 \in 1..n /\ 1 - 1 = 0 /\ 0 + 1 = 1
      BY <1>1
    <3>2. c[1] = 0 + runs[1].length
      BY <1>10, <3>1
    <3>3. runs[1].length \in Nat /\ runs[1].base \in Nat
      BY <1>3, <3>1
    <3> QED BY <3>1, <3>2, <3>3
  <2>2. ASSUME NEW d \in Nat, d \in S PROVE d + 1 \in S
    <3> DEFINE j == d + 1
               k == d + 1 + 1
    <3> SUFFICES ASSUME k <= n PROVE c[k] \in Nat /\ c[k] <= End(k)
      OBVIOUS
    <3>1. j \in 1..n /\ k \in 1..n /\ k - 1 = j /\ j < k /\ j <= n
      BY <1>1
    <3>2. c[j] \in Nat /\ c[j] <= End(j)
      BY <2>2, <3>1
    <3> HIDE DEF j, k, S
    <3>3. c[k] = c[j] + runs[k].length /\ End(j) <= runs[k].base
      BY <1>8, <1>10, <3>1
    <3>4. runs[k].length \in Nat /\ runs[k].base \in Nat /\ End(j) \in Nat
      BY <1>3, <3>1
    <3>5. \A a, b, p, q \in Nat : a <= b /\ b <= p => a + q <= p + q
      OBVIOUS
    <3>6. c[j] + runs[k].length <= runs[k].base + runs[k].length
      <4> HIDE DEF End
      <4> QED BY <3>2, <3>3, <3>4, <3>5
    <3> QED BY <3>2, <3>3, <3>4, <3>6
  <2>3. S = Nat
    <3>1. S \in SUBSET Nat
      OBVIOUS
    <3> HIDE DEF S
    <3> QED BY <2>1, <2>2, <3>1, SetInduction
  <2> SUFFICES ASSUME NEW k \in 1..n PROVE c[k] \in Nat /\ c[k] <= End(k)
    OBVIOUS
  <2>4. k - 1 \in Nat /\ (k - 1) + 1 = k /\ k <= n
    BY <1>1
  <2>5. k - 1 \in S
    BY <2>3, <2>4
  <2> HIDE DEF End
  <2> QED BY <2>4, <2>5
<1>14. g[1..n] <= MaxWord
  <2>1. n \in 1..n
    BY <1>1
  <2>2. c[n] \in Nat /\ c[n] <= End(n) /\ End(n) \in Nat /\ End(n) <= MaxWord
    BY <1>3, <1>13, <2>1
  <2>3. \A a, b \in Nat : a <= b /\ b <= MaxWord => a <= MaxWord
    BY ClientAssumption
  <2> HIDE DEF End
  <2> QED BY <1>10, <1>12, <2>2, <2>3
<1>15. PICK h : /\ Summaries(h, frozen, n)
                /\ SummarizeRanges(frozen) = h[n]
  BY SummaryWalks DEF Summaries, n
<1>16. SoundEntries(frozen, len, n)
  <2> SUFFICES \A i \in 1..n :
                 /\ frozen[i] \in Entry /\ len[i] = frozen[i].length
                 /\ frozen[i].base + frozen[i].length <= MaxWord
    BY DEF SoundEntries
  <2> TAKE i \in 1..n
  <2>1. PICK k \in 1..n : at(k) = i
    BY <1>4
  <2> QED BY <1>2, <1>3, <1>7, <2>1
<1>17. /\ h[n] \in Summary /\ h[n].total = g[1..n]
       /\ \A i \in 1..n : frozen[i].base + frozen[i].length <= h[n].highest
       /\ \/ h[n].highest = 0
          \/ \E i \in 1..n :
               h[n].highest = frozen[i].base + frozen[i].length
  <2>1. n \in 0..n /\ n \in Nat
    BY <1>1
  <2>2. \A k \in 0..n : Amounts(h[k], frozen, g, k)
    BY <1>6, <1>9, <1>14, <1>15, <1>16, <2>1, SummaryOfPrefix
  <2> QED BY <2>1, <2>2 DEF Amounts
<1>18. h[n].highest = End(n)
  <2>1. n \in 1..n
    BY <1>1
  <2>2. End(n) <= h[n].highest /\ End(n) \in Nat /\ h[n].highest \in Nat
    <3>1. h[n].highest \in Nat
      BY <1>17, ClientAssumption DEF Summary, Word
    <3> QED BY <1>3, <1>17, <2>1, <3>1
  <2>3. \A k \in 1..n : End(k) <= End(n)
    <3> TAKE k \in 1..n
    <3>1. CASE k = n
      BY <2>2, <3>1
    <3>2. CASE k # n
      <4>1. k < n
        BY <1>1, <3>2
      <4>2. End(k) <= runs[n].base
        BY <1>8, <2>1, <4>1
      <4>3. End(k) \in Nat /\ runs[n].base \in Nat /\ runs[n].length \in Nat
        BY <1>3, <2>1
      <4>4. \A a, b, d \in Nat : a <= b => a <= b + d
        OBVIOUS
      <4> QED BY <4>2, <4>3, <4>4
    <3> QED BY <3>1, <3>2
  <2>4. CASE h[n].highest = 0
    <3> HIDE DEF End
    <3> QED BY <2>2, <2>4
  <2>5. CASE \E i \in 1..n :
               h[n].highest = frozen[i].base + frozen[i].length
    <3>1. PICK i \in 1..n :
                 h[n].highest = frozen[i].base + frozen[i].length
      BY <2>5
    <3>2. PICK k \in 1..n : at(k) = i
      BY <1>4
    <3>3. h[n].highest = End(k)
      BY <1>3, <3>1, <3>2
    <3>4. h[n].highest <= End(n)
      BY <2>3, <3>3
    <3> HIDE DEF End
    <3> QED BY <2>2, <3>4
  <2> QED BY <1>17, <2>4, <2>5
<1> QED BY <1>1, <1>12, <1>15, <1>17, <1>18


---------------------------------------------------------------------------
(* The inductive invariant.                                                *)

Known == Reported \cup Later

(* What Query returned is an order of the runs of the table in force. *)
Told(v) ==
  /\ Accepted(v.runs, frozen)
  /\ v = [runs |-> v.runs,
          totalBytes |-> SummarizeRanges(frozen).total,
          highestEnd |-> SummarizeRanges(frozen).highest]

SessionTyped ==
  /\ live \in Known /\ open \in BOOLEAN /\ ended \in BOOLEAN
  /\ open => frozen \in Known
  /\ ~open => frozen = <<>>

ViewTyped ==
  view # Unknown => /\ view.runs \in Seq(ClientRun)
                    /\ view.totalBytes \in Word /\ view.highestEnd \in Word

ReadInPlace ==
  read # Unknown => /\ read.asked \in Word /\ read.length \in 1..MaxTransfer
                    /\ read.from = read.asked

(* While the handle is open, what the client keeps is of this session. *)
OfThisSession ==
  open => /\ view # Unknown => Told(view)
          /\ \A v \in seen : Told(v)

OneAnswer == seen = {} \/ \E v \in seen : seen = {v}

Client ==
  /\ SessionTyped /\ ViewTyped /\ QueryGivesALayout /\ ReadInPlace
  /\ OfThisSession /\ OneAnswer

LEMMA InitClient == Init => Client
BY DEF Init, Client, SessionTyped, ViewTyped, QueryGivesALayout, ReadInPlace,
       OfThisSession, OneAnswer, Known

LEMMA FrozenTable ==
  ASSUME SessionTyped, open
  PROVE  Table(frozen)
BY TableFacts, ClientAssumption DEF SessionTyped, Known

(* A table Query accepts gives what its callers rely on. *)
LEMMA ToldFacts ==
  ASSUME Table(frozen), NEW v, Told(v)
  PROVE  /\ v.runs \in Seq(ClientRun)
         /\ v.totalBytes \in Word /\ v.highestEnd \in Word
         /\ v.runs # <<>>
         /\ \A i, j \in 1..Len(v.runs) :
              i < j =>
                /\ v.runs[i].base + v.runs[i].length <= v.runs[j].base
                /\ v.runs[i].driverIndex # v.runs[j].driverIndex
         /\ {v.runs[i].driverIndex : i \in 1..Len(v.runs)}
              = 0 .. Len(v.runs) - 1
         /\ v.totalBytes = TotalLength(v.runs)
         /\ v.highestEnd = v.runs[Len(v.runs)].base
                             + v.runs[Len(v.runs)].length
<1> DEFINE runs == v.runs
           n == Len(runs)
<1>1. Accepted(runs, frozen)
  BY DEF Told
<1>2. /\ v.totalBytes = SummarizeRanges(frozen).total
      /\ v.highestEnd = SummarizeRanges(frozen).highest
  <2>1. v = [runs |-> v.runs,
             totalBytes |-> SummarizeRanges(frozen).total,
             highestEnd |-> SummarizeRanges(frozen).highest]
    BY DEF Told
  <2> QED BY <2>1
<1> HIDE DEF runs
<1>3. n \in 1..MaxRuns /\ DOMAIN runs = 1..n
  BY <1>1 DEF Accepted, Enumerates
<1>4. /\ SummarizeRanges(frozen) \in Summary
      /\ SummarizeRanges(frozen).total = TotalLength(runs)
      /\ SummarizeRanges(frozen).highest = runs[n].base + runs[n].length
  BY <1>1, TotalsAgree
<1>5. SummarizeRanges(frozen).total \in Word
      /\ SummarizeRanges(frozen).highest \in Word
  BY <1>4 DEF Summary
<1>6. runs \in Seq(ClientRun)
  <2> DEFINE Run == [driverIndex : Nat, base : Word, length : Word]
  <2>1. runs \in Seq(Run) /\ n \in Nat /\ n <= MaxRuns
    BY <1>1, <1>3, ClientAssumption DEF Accepted, Enumerates
  <2>2. ASSUME NEW k \in 1..n PROVE runs[k] \in ClientRun
    <3>1. runs[k] \in Run
      <4> HIDE DEF Run
      <4> QED BY <2>1
    <3>2. /\ runs[k].driverIndex \in 0 .. n - 1
          /\ runs[k].base \in Word /\ runs[k].length \in 1..MaxWord
      BY <1>1, RunFacts
    <3>3. runs[k].driverIndex \in 0 .. MaxRuns - 1
      BY <2>1, <3>2, ClientAssumption
    <3> HIDE DEF n
    <3> QED BY <3>1, <3>2, <3>3 DEF ClientRun
  <2>3. runs \in [1..n -> Run]
    <3> HIDE DEF Run
    <3> QED BY <2>1
  <2>4. runs \in [1..n -> ClientRun]
    <3> HIDE DEF n, Run
    <3> QED BY <2>2, <2>3
  <2> HIDE DEF n
  <2> QED BY <2>1, <2>4, ListOf
<1>7. \A i, j \in 1..n :
        i < j => /\ runs[i].base + runs[i].length <= runs[j].base
                 /\ runs[i].driverIndex # runs[j].driverIndex
  <2>1. \A i, j \in 1..n :
          i < j => runs[i].base + runs[i].length <= runs[j].base
    BY <1>1, NeighboursOrderAll
  <2>2. \A i, j \in 1..n : runs[i].driverIndex = runs[j].driverIndex => i = j
    BY <1>1 DEF Accepted, Enumerates
  <2> QED BY <1>3, <2>1, <2>2
<1>8. {runs[i].driverIndex : i \in 1..n} = 0 .. n - 1
  <2>1. \A i \in 1..n : runs[i].driverIndex \in 0 .. n - 1
    BY <1>1 DEF Accepted, Enumerates
  <2>2. \A i \in 0 .. n - 1 : \E k \in 1..n : runs[k].driverIndex = i
    BY <1>1 DEF Accepted, Enumerates
  <2> QED BY <2>1, <2>2
<1>9. runs # <<>>
  BY <1>3
<1> QED BY <1>2, <1>4, <1>5, <1>6, <1>7, <1>8, <1>9 DEF runs

LEMMA OpenClient == ASSUME Client, Open PROVE Client'
<1> USE DEF Client, Open
<1>1. SessionTyped'
  BY DEF SessionTyped, Known
<1>2. ViewTyped' /\ QueryGivesALayout' /\ ReadInPlace'
  BY DEF ViewTyped, QueryGivesALayout, ReadInPlace
<1>3. OfThisSession' /\ OneAnswer'
  BY DEF OfThisSession, OneAnswer
<1> QED BY <1>1, <1>2, <1>3

LEMMA QueryClient == ASSUME Client, QueryAccepts PROVE Client'
<1> USE DEF Client
<1>1. /\ open /\ Table(frozen) /\ frozen' = frozen /\ open' = open
      /\ live' = live /\ ended' = ended /\ read' = read
      /\ seen' = seen \cup {view'}
  BY FrozenTable DEF QueryAccepts
<1>2. PICK runs \in SortedByBase(ClientRuns) :
        /\ NoOverlap(runs)
        /\ view' = [runs |-> runs,
                    totalBytes |-> SummarizeRanges(frozen).total,
                    highestEnd |-> SummarizeRanges(frozen).highest]
  BY DEF QueryAccepts, SessionTable
<1>3. view'.runs = runs
  BY <1>2
<1>4. Accepted(runs, frozen)
  <2>1. runs \in SetToSeqs(ClientRuns)
    BY <1>2 DEF SortedByBase
  <2>2. Enumerates(runs, frozen)
    BY <1>1, <2>1, SortingEnumerates
  <2>3. Len(runs) \in 1..MaxRuns
    BY <2>2 DEF QueryAccepts, Enumerates, SessionTable
  <2>4. ASSUME NEW k \in 1..Len(runs) PROVE RunIsSound(runs[k])
    <3>1. Cardinality(ClientRuns) = CountRanges(frozen)
      BY <1>1, AsManyRuns
    <3>2. runs \in [1..Cardinality(ClientRuns) -> ClientRuns]
      BY <2>1 DEF SetToSeqs
    <3>3. Len(runs) = CountRanges(frozen)
      BY <2>2 DEF Enumerates
    <3>4. runs[k] \in ClientRuns
      BY <3>1, <3>2, <3>3
    <3> QED BY <3>4 DEF QueryAccepts
  <2> QED BY <1>2, <2>2, <2>3, <2>4 DEF Accepted
<1>5. Told(view')
  BY <1>2, <1>3, <1>4 DEF Told
<1>6. SessionTyped'
  BY <1>1 DEF SessionTyped
<1>7. ViewTyped' /\ QueryGivesALayout'
  BY <1>1, <1>5, ToldFacts DEF ViewTyped, QueryGivesALayout
<1>8. ReadInPlace'
  BY <1>1 DEF ReadInPlace
<1>9. OfThisSession'
  BY <1>1, <1>5 DEF OfThisSession, Told
<1>10. OneAnswer'
  <2>1. ASSUME NEW v \in seen PROVE v = view'
    <3>1. Told(v)
      BY <1>1 DEF OfThisSession
    <3>2. v.runs = view'.runs
      BY <1>5, <3>1, OneOrder DEF Told
    <3> QED BY <1>5, <3>1, <3>2 DEF Told
  <2>2. seen' = {view'}
    BY <1>1, <2>1
  <2> QED BY <2>2 DEF OneAnswer
<1> QED BY <1>6, <1>7, <1>8, <1>9, <1>10

LEMMA ReadClient == ASSUME Client, Read PROVE Client'
<1> USE DEF Client
<1>1. /\ open /\ view # Unknown /\ UNCHANGED <<live, open, frozen, ended>>
      /\ UNCHANGED <<view, seen>>
  BY DEF Read
<1>2. Table(frozen) /\ Accepted(view.runs, frozen)
  BY <1>1, FrozenTable DEF OfThisSession, Told
<1> DEFINE runs == view.runs
<1>3. PICK k \in 1..Len(runs) :
        \E offset \in 0 .. runs[k].length - 1 :
          \E length \in 1 .. runs[k].length - offset :
            /\ length <= MaxTransfer
            /\ read' = [asked |-> runs[k].base + offset, length |-> length,
                        from |-> CopyRun(runs[k].driverIndex, offset, length)]
  BY DEF Read
<1>4. PICK offset \in 0 .. runs[k].length - 1 :
        \E length \in 1 .. runs[k].length - offset :
          /\ length <= MaxTransfer
          /\ read' = [asked |-> runs[k].base + offset, length |-> length,
                      from |-> CopyRun(runs[k].driverIndex, offset, length)]
  BY <1>3
<1>5. PICK length \in 1 .. runs[k].length - offset :
        /\ length <= MaxTransfer
        /\ read' = [asked |-> runs[k].base + offset, length |-> length,
                    from |-> CopyRun(runs[k].driverIndex, offset, length)]
  BY <1>4
<1> HIDE DEF runs
<1>6. /\ runs[k].driverIndex \in 0 .. Len(runs) - 1
      /\ runs[k].base \in Nat /\ runs[k].length \in Nat
      /\ runs[k].base + runs[k].length <= MaxWord
  BY <1>2, RunFacts, ClientAssumption, SMTT(30) DEF Word, runs
<1> DEFINE entry == frozen[runs[k].driverIndex + 1]
<1>7. /\ Len(runs) = CountRanges(frozen)
      /\ entry.base = runs[k].base /\ entry.length = runs[k].length
  <2>1. /\ Len(runs) = CountRanges(frozen)
        /\ runs[k] = RunOf(frozen, runs[k].driverIndex + 1)
    BY <1>2 DEF Accepted, Enumerates, runs
  <2> QED BY <2>1 DEF RunOf
<1>8. /\ length \in 1..MaxTransfer /\ offset \in Nat
      /\ runs[k].base + offset \in Word
      /\ offset <= runs[k].length /\ length <= runs[k].length - offset
      /\ offset <= MaxWord - runs[k].base
  <2> DEFINE base == runs[k].base
             whole == runs[k].length
  <2>1. /\ base \in Nat /\ whole \in Nat /\ base + whole <= MaxWord
        /\ offset \in 0 .. whole - 1 /\ length \in 1 .. whole - offset
        /\ length <= MaxTransfer
    BY <1>5, <1>6
  <2> HIDE DEF base, whole
  <2>2. /\ length \in 1..MaxTransfer /\ offset \in Nat
        /\ offset <= whole /\ length <= whole - offset
    BY <2>1, ClientAssumption
  <2>3. base + offset \in Word /\ offset <= MaxWord - base
    BY <2>1, ClientAssumption DEF Word
  <2> QED BY <2>2, <2>3 DEF base, whole
<1>9. CopyRun(runs[k].driverIndex, offset, length) = runs[k].base + offset
  <2>1. runs[k].driverIndex < CountRanges(frozen)
    <3>1. CountRanges(frozen) \in Nat
      BY <1>2 DEF Table
    <3> QED BY <1>6, <1>7, <3>1
  <2> QED BY <1>7, <1>8, <2>1 DEF CopyRun, SessionTable
<1>10. ReadInPlace'
  BY <1>5, <1>8, <1>9 DEF ReadInPlace
<1>11. SessionTyped' /\ ViewTyped' /\ QueryGivesALayout' /\ OneAnswer'
  BY <1>1 DEF SessionTyped, ViewTyped, QueryGivesALayout, OneAnswer
<1>12. OfThisSession'
  BY <1>1 DEF OfThisSession, Told
<1> QED BY <1>10, <1>11, <1>12

LEMMA QuietClient ==
  ASSUME Client, Hotplug \/ QueryFails \/ EndSession \/ Close \/ UNCHANGED vars
  PROVE  Client'
<1> USE DEF Client
<1>1. SessionTyped'
  <2>1. CASE Hotplug
    BY <2>1 DEF SessionTyped, Known, Hotplug
  <2>2. CASE QueryFails \/ EndSession
    BY <2>2 DEF SessionTyped, QueryFails, EndSession
  <2>3. CASE Close
    BY <2>3 DEF SessionTyped, Close
  <2>4. CASE UNCHANGED vars
    BY <2>4 DEF SessionTyped, vars
  <2> QED BY <2>1, <2>2, <2>3, <2>4
<1>2. (view' = view \/ view' = Unknown) /\ read' = read /\ seen' = seen
  BY DEF Hotplug, QueryFails, EndSession, Close, vars
<1>3. open' => open /\ frozen' = frozen
  BY DEF Hotplug, QueryFails, EndSession, Close, vars
<1>4. ViewTyped' /\ QueryGivesALayout' /\ ReadInPlace' /\ OneAnswer'
  BY <1>2 DEF ViewTyped, QueryGivesALayout, ReadInPlace, OneAnswer
<1>5. OfThisSession'
  BY <1>2, <1>3 DEF OfThisSession, Told
<1> QED BY <1>1, <1>4, <1>5

LEMMA NextClient == Client /\ [Next]_vars => Client'
BY OpenClient, QueryClient, ReadClient, QuietClient DEF Next

---------------------------------------------------------------------------
(* Theorems.                                                               *)

LEMMA ClientInvariant == Spec => []Client
BY InitClient, NextClient, PTL DEF Spec

(* Every variable has its type; in particular the driver's totals, summed   *)
(* over a table nobody has checked, are words.                              *)
THEOREM TypeCorrect == Spec => []TypeOK
<1>1. Client => TypeOK
  BY DEF Client, SessionTyped, ViewTyped, ReadInPlace, Known, TypeOK
<1> QED BY <1>1, ClientInvariant, PTL

(* DeviceSession::Query: whatever array the memory manager reports, what is *)
(* let through is a layout, and PhylaSummarizeRanges agrees with it.        *)
THEOREM LayoutAlways == Spec => []QueryGivesALayout
<1>1. Client => QueryGivesALayout
  BY DEF Client
<1> QED BY <1>1, ClientInvariant, PTL

(* DeviceSession::Read: sorting does not lead a read astray. *)
THEOREM ReadsInPlace == Spec => []ReadsWhereItAsks
<1>1. Client => ReadsWhereItAsks
  BY DEF Client, ReadInPlace, ReadsWhereItAsks
<1> QED BY <1>1, ClientInvariant, PTL

(* Two queries of a session return the same list: std::sort has no choice. *)
THEOREM OneTableAlways == Spec => []OneTablePerSession
<1>1. Client => OneTablePerSession
  <2> SUFFICES ASSUME OneAnswer PROVE Cardinality(seen) <= 1
    BY DEF Client, OneTablePerSession
  <2>1. CASE seen = {}
    BY <2>1, FS_EmptySet
  <2>2. CASE \E v \in seen : seen = {v}
    <3>1. PICK v \in seen : seen = {v}
      BY <2>2
    <3>2. Cardinality({v}) = 1
      BY FS_Singleton
    <3> QED BY <3>1, <3>2
  <2> QED BY <2>1, <2>2 DEF OneAnswer
<1> QED BY <1>1, ClientInvariant, PTL
=============================================================================
