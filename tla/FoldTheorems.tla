---------------------------- MODULE FoldTheorems ----------------------------
(***************************************************************************)
(* Folds over sets of positions 1..n, as MapThenFoldSet computes them: it  *)
(* takes a set apart at the element a choice names, and that a function    *)
(* doing so exists has to be shown before its values can be spoken of.     *)
(* The induction is done on sets of numbers, because the library's         *)
(* induction theorems take an operator as a parameter.                     *)
(***************************************************************************)
EXTENDS FiniteSetsExt, FiniteSetTheorems, WellFoundedInduction, TLAPS

---------------------------------------------------------------------------
(* Induction on the natural numbers.                                       *)

LEMMA Least ==
  ASSUME NEW T \in SUBSET Nat, T # {}
  PROVE  \E x \in T : \A y \in T : x <= y
<1> DEFINE R == OpToRel(<, Nat)
<1>1. IsWellFoundedOn(R, Nat)
  BY NatLessThanWellFounded
<1>2. \A x, y \in Nat : x < y => <<x, y>> \in R
  BY DEF OpToRel
<1> HIDE DEF R
<1>3. PICK x \in T : \A y \in T : <<y, x>> \notin R
  BY <1>1, WFMin
<1>4. ASSUME NEW y \in T PROVE x <= y
  <2>1. x \in Nat /\ y \in Nat /\ <<y, x>> \notin R
    BY <1>3
  <2>2. ~(y < x)
    BY <1>2, <2>1
  <2> QED BY <2>1, <2>2
<1> QED BY <1>4

LEMMA SetInduction ==
  ASSUME NEW S \in SUBSET Nat, 0 \in S,
         \A n \in Nat : n \in S => n + 1 \in S
  PROVE  S = Nat
<1> SUFFICES ASSUME Nat \ S # {} PROVE FALSE
  OBVIOUS
<1>1. PICK x \in Nat \ S : \A y \in Nat \ S : x <= y
  BY Least
<1>2. x # 0 /\ x - 1 \in Nat /\ (x - 1) + 1 = x
  BY <1>1
<1>3. x - 1 \in S
  BY <1>1, <1>2
<1> QED BY <1>1, <1>2, <1>3

LEMMA IntervalFacts ==
  ASSUME NEW n \in Nat, NEW k \in 1..n
  PROVE  /\ k \in 0..n /\ k - 1 \in 0..n
         /\ 1..k \in SUBSET (1..n) /\ 1..k # {}
         /\ k \in 1..k /\ 1 .. k - 1 \in SUBSET (1..n)
         /\ (1..k) \ {k} = 1 .. k - 1
<1>1. k \in 0..n /\ k - 1 \in 0..n /\ k \in 1..k /\ 1..k # {}
  OBVIOUS
<1>2. 1..k \in SUBSET (1..n) /\ 1 .. k - 1 \in SUBSET (1..n)
  OBVIOUS
<1>3. (1..k) \ {k} = 1 .. k - 1
  OBVIOUS
<1> QED BY <1>1, <1>2, <1>3

LEMMA MaxFacts ==
  ASSUME NEW n \in Nat, NEW s \in SUBSET (1..n), s # {}
  PROVE  Max(s) \in s /\ \A y \in s : y <= Max(s)
<1> DEFINE T == {n - y : y \in s}
<1>1. T \in SUBSET Nat /\ T # {}
  <2>1. \A y \in s : n - y \in Nat
    OBVIOUS
  <2> QED BY <2>1
<1>2. PICK z \in T : \A y \in T : z <= y
  <2> HIDE DEF T
  <2> QED BY <1>1, Least
<1>3. PICK x \in s : z = n - x
  BY <1>2
<1>4. \A y \in s : x >= y
  <2> TAKE y \in s
  <2>1. n - x <= n - y
    BY <1>2, <1>3
  <2> QED BY <1>3, <2>1
<1>5. \E w \in s : \A y \in s : w >= y
  BY <1>3, <1>4
<1>6. Max(s) \in s /\ \A y \in s : Max(s) >= y
  BY <1>5 DEF Max
<1> QED BY <1>6

LEMMA MaxOfInterval ==
  ASSUME NEW n \in Nat \ {0}
  PROVE  Max(1..n) = n
<1>1. n \in 1..n /\ \A y \in 1..n : n >= y
  OBVIOUS
<1> QED BY <1>1 DEF Max

---------------------------------------------------------------------------
(* Folds.                                                                  *)

(* c names an element of every set of positions. *)
Chooses(c, n) == \A s \in SUBSET (1..n) : s # {} => c[s] \in s

(* g folds base with the functions F over the sets of positions. *)
IsFold(g, n, base, F, c) ==
  \A s \in SUBSET (1..n) :
    g[s] = IF s = {} THEN base ELSE F[c[s]][g[s \ {c[s]}]]

Foldable(R, n, base, F, c) ==
  \E g \in [SUBSET (1..n) -> R] : IsFold(g, n, base, F, c)

(* The sets of at most m positions. *)
Small(n, m) == {s \in SUBSET (1..n) : Cardinality(s) <= m}

LEMMA SmallFacts ==
  ASSUME NEW n \in Nat, NEW s \in SUBSET (1..n)
  PROVE  /\ IsFiniteSet(s) /\ Cardinality(s) \in 0..n
         /\ (Cardinality(s) = 0) <=> (s = {})
         /\ \A x \in s : Cardinality(s \ {x}) = Cardinality(s) - 1
<1>1. IsFiniteSet(1..n) /\ Cardinality(1..n) = n
  <2>1. 1 \in Int /\ n \in Int
    OBVIOUS
  <2> QED BY <2>1, FS_Interval
<1>2. IsFiniteSet(s) /\ Cardinality(s) <= n
  BY <1>1, FS_Subset
<1>3. Cardinality(s) \in Nat
  BY <1>2, FS_CardinalityType
<1>4. (Cardinality(s) = 0) <=> (s = {})
  BY <1>2, FS_EmptySet
<1>5. \A x \in s : Cardinality(s \ {x}) = Cardinality(s) - 1
  BY <1>2, FS_RemoveElement
<1> QED BY <1>2, <1>3, <1>4, <1>5

LEMMA OneLess ==
  ASSUME NEW n \in Nat, NEW m \in Nat, NEW s \in Small(n, m + 1), NEW x \in s
  PROVE  s \ {x} \in Small(n, m)
<1>1. s \in SUBSET (1..n) /\ Cardinality(s) <= m + 1
  BY DEF Small
<1>2. Cardinality(s) \in 0..n /\ Cardinality(s \ {x}) = Cardinality(s) - 1
  BY <1>1, SmallFacts
<1>3. s \ {x} \in SUBSET (1..n)
  BY <1>1
<1> QED BY <1>1, <1>2, <1>3 DEF Small

LEMMA FoldExists ==
  ASSUME NEW R, NEW base \in R, NEW n \in Nat, NEW F \in [1..n -> [R -> R]],
         NEW c, Chooses(c, n)
  PROVE  Foldable(R, n, base, F, c)
<1> DEFINE Right(g, s) == g[s] = IF s = {} THEN base
                                 ELSE F[c[s]][g[s \ {c[s]}]]
           Reached(m) == \E g \in [SUBSET (1..n) -> R] :
                           \A s \in Small(n, m) : Right(g, s)
           S == {m \in Nat : Reached(m)}
<1>1. 0 \in S
  <2> DEFINE g == [s \in SUBSET (1..n) |-> base]
  <2>1. g \in [SUBSET (1..n) -> R]
    OBVIOUS
  <2>2. ASSUME NEW s \in Small(n, 0) PROVE Right(g, s)
    <3>1. s \in SUBSET (1..n) /\ s = {}
      BY SmallFacts DEF Small
    <3> QED BY <3>1
  <2> HIDE DEF g, Right
  <2> QED BY <2>1, <2>2
<1>2. ASSUME NEW m \in Nat, m \in S PROVE m + 1 \in S
  <2>1. PICK g \in [SUBSET (1..n) -> R] : \A s \in Small(n, m) : Right(g, s)
    BY <1>2
  <2> DEFINE h == [s \in SUBSET (1..n) |->
                     IF s = {} THEN base ELSE F[c[s]][g[s \ {c[s]}]]]
  <2>2. h \in [SUBSET (1..n) -> R]
    <3>1. ASSUME NEW s \in SUBSET (1..n), s # {}
          PROVE  F[c[s]][g[s \ {c[s]}]] \in R
      <4>1. c[s] \in 1..n /\ s \ {c[s]} \in SUBSET (1..n)
        BY <3>1 DEF Chooses
      <4>2. F[c[s]] \in [R -> R] /\ g[s \ {c[s]}] \in R
        BY <2>1, <4>1
      <4> QED BY <4>2
    <3> QED BY <3>1
  <2>3. \A s \in Small(n, m) : h[s] = g[s]
    <3> SUFFICES ASSUME NEW s \in Small(n, m) PROVE h[s] = g[s]
      OBVIOUS
    <3>1. s \in SUBSET (1..n)
      BY DEF Small
    <3> QED BY <2>1, <3>1
  <2>4. ASSUME NEW s \in Small(n, m + 1) PROVE Right(h, s)
    <3>1. s \in SUBSET (1..n) /\ Cardinality(s) <= m + 1
      BY DEF Small
    <3>2. CASE s = {}
      BY <3>1, <3>2
    <3>3. CASE s # {}
      <4>1. c[s] \in s /\ s \ {c[s]} \in SUBSET (1..n)
        BY <3>1, <3>3 DEF Chooses
      <4>2. s \ {c[s]} \in Small(n, m)
        BY <4>1, OneLess
      <4>3. h[s \ {c[s]}] = g[s \ {c[s]}]
        <5> HIDE DEF h
        <5> QED BY <2>3, <4>2
      <4> QED BY <3>1, <3>3, <4>3
    <3> QED BY <3>2, <3>3
  <2> HIDE DEF h, Right
  <2> QED BY <2>2, <2>4
<1>3. n \in S
  <2>1. S \in SUBSET Nat
    OBVIOUS
  <2> HIDE DEF S
  <2> QED BY <1>1, <1>2, <2>1, SetInduction
<1>4. PICK g \in [SUBSET (1..n) -> R] : \A s \in Small(n, n) : Right(g, s)
  BY <1>3
<1>5. \A s \in SUBSET (1..n) : s \in Small(n, n)
  BY SmallFacts DEF Small
<1> QED BY <1>4, <1>5 DEF IsFold, Foldable


---------------------------------------------------------------------------
(* Sums over sets of positions: any element may be taken out first.        *)

Adding(len, n) == [i \in 1..n |-> [r \in Nat |-> r + len[i]]]

Sums(g, len, n) ==
  \A s \in SUBSET (1..n) : \A x \in s : g[s] = g[s \ {x}] + len[x]

(* What a fold that adds computes. *)
LEMMA SumStep ==
  ASSUME NEW n \in Nat, NEW len \in [1..n -> Nat], NEW c, Chooses(c, n),
         NEW g \in [SUBSET (1..n) -> Nat],
         IsFold(g, n, 0, Adding(len, n), c)
  PROVE  /\ g[{}] = 0
         /\ \A s \in SUBSET (1..n) :
              s # {} => g[s] = g[s \ {c[s]}] + len[c[s]]
<1>1. g[{}] = 0
  BY DEF IsFold
<1>2. ASSUME NEW s \in SUBSET (1..n), s # {}
      PROVE  g[s] = g[s \ {c[s]}] + len[c[s]]
  <2>1. c[s] \in 1..n
    BY <1>2 DEF Chooses
  <2>2. g[s \ {c[s]}] \in Nat
    OBVIOUS
  <2>3. g[s] = Adding(len, n)[c[s]][g[s \ {c[s]}]]
    BY <1>2 DEF IsFold
  <2> QED BY <2>1, <2>2, <2>3 DEF Adding
<1> QED BY <1>1, <1>2

LEMMA AnyOutFirst ==
  ASSUME NEW n \in Nat, NEW len \in [1..n -> Nat], NEW c, Chooses(c, n),
         NEW g \in [SUBSET (1..n) -> Nat],
         \A s \in SUBSET (1..n) :
           s # {} => g[s] = g[s \ {c[s]}] + len[c[s]]
  PROVE  Sums(g, len, n)
<1> DEFINE Out(s) == \A x \in s : g[s] = g[s \ {x}] + len[x]
           S == {m \in Nat : \A s \in Small(n, m) : Out(s)}
<1>1. 0 \in S
  <2>1. ASSUME NEW s \in Small(n, 0) PROVE s = {}
    BY SmallFacts DEF Small
  <2> QED BY <2>1
<1>2. ASSUME NEW m \in Nat, m \in S PROVE m + 1 \in S
  <2> HIDE DEF Out
  <2> SUFFICES ASSUME NEW s \in Small(n, m + 1) PROVE Out(s)
    OBVIOUS
  <2> USE DEF Out
  <2> SUFFICES ASSUME NEW x \in s PROVE g[s] = g[s \ {x}] + len[x]
    OBVIOUS
  <2>1. \A u \in Small(n, m) : Out(u)
    BY <1>2
  <2>2. /\ s \in SUBSET (1..n) /\ Cardinality(s) \in 0..n
        /\ Cardinality(s) <= m + 1 /\ s # {}
    BY SmallFacts DEF Small
  <2>3. \A y \in s : s \ {y} \in Small(n, m)
    BY OneLess
  <2> DEFINE M == c[s]
  <2>4. M \in s /\ M \in 1..n /\ x \in 1..n /\ g[s] = g[s \ {M}] + len[M]
    BY <2>2 DEF Chooses
  <2>5. CASE x = M
    BY <2>4, <2>5
  <2>6. CASE x # M
    <3> HIDE DEF M, S
    <3> DEFINE both == (s \ {M}) \ {x}
    <3>1. both = (s \ {x}) \ {M} /\ both \in SUBSET (1..n)
          /\ x \in s \ {M} /\ M \in s \ {x}
      BY <2>2, <2>4, <2>6
    <3>2. g[s \ {M}] = g[both] + len[x]
      BY <2>1, <2>3, <2>4, <3>1
    <3>3. g[s \ {x}] = g[both] + len[M]
      BY <2>1, <2>3, <3>1
    <3>4. g[both] \in Nat /\ len[x] \in Nat /\ len[M] \in Nat
      BY <2>4, <3>1
    <3> HIDE DEF both
    <3> QED BY <2>4, <3>2, <3>3, <3>4
  <2> QED BY <2>5, <2>6
<1>3. n \in S
  <2>1. S \in SUBSET Nat
    OBVIOUS
  <2> HIDE DEF S
  <2> QED BY <1>1, <1>2, <2>1, SetInduction
<1>4. \A s \in SUBSET (1..n) : s \in Small(n, n)
  BY SmallFacts DEF Small
<1>5. \A s \in SUBSET (1..n) : Out(s)
  BY <1>3, <1>4
<1> QED BY <1>5 DEF Sums

LEMMA SumExists ==
  ASSUME NEW n \in Nat, NEW len \in [1..n -> Nat], NEW c, Chooses(c, n)
  PROVE  \E g \in [SUBSET (1..n) -> Nat] :
           /\ IsFold(g, n, 0, Adding(len, n), c)
           /\ g[{}] = 0 /\ Sums(g, len, n)
<1>1. Adding(len, n) \in [1..n -> [Nat -> Nat]]
  BY DEF Adding
<1>2. PICK g \in [SUBSET (1..n) -> Nat] : IsFold(g, n, 0, Adding(len, n), c)
  BY <1>1, FoldExists DEF Foldable
<1>3. /\ g[{}] = 0
      /\ \A s \in SUBSET (1..n) :
           s # {} => g[s] = g[s \ {c[s]}] + len[c[s]]
  BY <1>2, SumStep, ZenonT(30)
<1>4. Sums(g, len, n)
  BY <1>3, AnyOutFirst
<1> QED BY <1>2, <1>3, <1>4

(* The sum of the lengths over every set of positions.                     *)
SumOver(g, len, n) ==
  /\ n \in Nat /\ len \in [1..n -> Nat] /\ g \in [SUBSET (1..n) -> Nat]
  /\ g[{}] = 0 /\ Sums(g, len, n)

(* Of h nothing is known but how it goes from one set to the next, and     *)
(* that only where it is a number.                                         *)
SumsUp(h, len, n, c) ==
  /\ Chooses(c, n) /\ h[{}] = 0
  /\ \A s \in SUBSET (1..n) :
       s # {} /\ h[s \ {c[s]}] \in Nat
         => h[s] = h[s \ {c[s]}] + len[c[s]]

Agree(h, g, n) == \A s \in SUBSET (1..n) : h[s] = g[s]

(* Two sums over the same positions agree.                                 *)
LEMMA SumUnique ==
  ASSUME NEW n, NEW len, NEW g, SumOver(g, len, n),
         NEW c, NEW h, SumsUp(h, len, n, c)
  PROVE  Agree(h, g, n)
<1>0. n \in Nat
  BY DEF SumOver
<1> DEFINE S == {m \in Nat : \A s \in Small(n, m) : h[s] = g[s]}
<1>1. 0 \in S
  <2>1. ASSUME NEW s \in Small(n, 0) PROVE s = {}
    BY <1>0, SmallFacts DEF Small
  <2>2. h[{}] = g[{}]
    BY DEF SumsUp, SumOver
  <2> QED BY <2>1, <2>2
<1>2. ASSUME NEW m \in Nat, m \in S PROVE m + 1 \in S
  <2> SUFFICES ASSUME NEW s \in Small(n, m + 1) PROVE h[s] = g[s]
    OBVIOUS
  <2>1. \A u \in Small(n, m) : h[u] = g[u]
    BY <1>2
  <2>2. /\ s \in SUBSET (1..n) /\ Cardinality(s) \in 0..n
        /\ Cardinality(s) <= m + 1
    BY <1>0, SmallFacts DEF Small
  <2>3. CASE s = {}
    BY <2>3 DEF SumsUp, SumOver
  <2>4. CASE s # {}
    <3>1. c[s] \in s
      BY <2>2, <2>4 DEF SumsUp, Chooses
    <3>2. s \ {c[s]} \in Small(n, m)
      BY <1>0, <3>1, OneLess
    <3>3. g[s] = g[s \ {c[s]}] + len[c[s]]
      BY <2>2, <3>1 DEF SumOver, Sums
    <3>4. h[s \ {c[s]}] = g[s \ {c[s]}] /\ h[s \ {c[s]}] \in Nat
      BY <2>1, <2>2, <3>2 DEF SumOver
    <3>5. h[s] = h[s \ {c[s]}] + len[c[s]]
      BY <2>2, <2>4, <3>4 DEF SumsUp
    <3> QED BY <3>3, <3>4, <3>5
  <2> QED BY <2>3, <2>4
<1>3. n \in S
  <2>1. S \in SUBSET Nat
    OBVIOUS
  <2> HIDE DEF S
  <2> QED BY <1>0, <1>1, <1>2, <2>1, SetInduction
<1>4. \A s \in SUBSET (1..n) : s \in Small(n, n)
  BY <1>0, SmallFacts DEF Small
<1> QED BY <1>3, <1>4 DEF Agree

(* The sum of the lengths of the first n elements of a list.               *)
LengthOfFirst(t, n) == MapThenSumSet(LAMBDA k : t[k].length, 1..n)

LEMMA SumOfLengths ==
  ASSUME NEW t, NEW n \in Nat, \A k \in 1..n : t[k].length \in Nat,
         NEW P \in [0..n -> Nat], P[0] = 0,
         \A k \in 1..n : P[k] = P[k - 1] + t[k].length
  PROVE  LengthOfFirst(t, n) = P[n]
<1> DEFINE len == [k \in 1..n |-> t[k].length]
           c == [s \in SUBSET (1..n) |-> CHOOSE x \in s : TRUE]
           Iterates(f) == f = [s \in SUBSET (1..n) |->
             IF s = {} THEN 0
             ELSE t[CHOOSE x \in s : TRUE].length
                    + f[s \ {CHOOSE x \in s : TRUE}]]
           iter == CHOOSE f : Iterates(f)
<1>1. LengthOfFirst(t, n) = iter[1..n]
  BY DEF LengthOfFirst, MapThenSumSet, MapThenFoldSet
<1>2. len \in [1..n -> Nat] /\ \A k \in 1..n : len[k] = t[k].length
  OBVIOUS
<1>3. /\ Chooses(c, n)
      /\ \A s \in SUBSET (1..n) : c[s] = CHOOSE x \in s : TRUE
  BY DEF Chooses
<1>4. \A k \in 1..n : P[k] = P[k - 1] + len[k]
  BY <1>2
<1> HIDE DEF len, c
<1>5. PICK g \in [SUBSET (1..n) -> Nat] : g[{}] = 0 /\ Sums(g, len, n)
  BY <1>2, <1>3, <1>4, SumExists
<1>6. \A s \in SUBSET (1..n) : s # {} =>
        /\ c[s] \in s /\ c[s] \in 1..n
        /\ g[s] = g[s \ {c[s]}] + len[c[s]]
        /\ g[s \ {c[s]}] \in Nat
  <2> SUFFICES ASSUME NEW s \in SUBSET (1..n), s # {}
               PROVE  /\ c[s] \in s /\ c[s] \in 1..n
                      /\ g[s] = g[s \ {c[s]}] + len[c[s]]
                      /\ g[s \ {c[s]}] \in Nat
    OBVIOUS
  <2>1. c[s] \in s /\ c[s] \in 1..n
    BY <1>3 DEF Chooses
  <2>2. g[s] = g[s \ {c[s]}] + len[c[s]]
    BY <1>5, <2>1 DEF Sums
  <2>3. s \ {c[s]} \in SUBSET (1..n)
    OBVIOUS
  <2>4. g[s \ {c[s]}] \in Nat
    BY <2>3
  <2> QED BY <2>1, <2>2, <2>4
<1>7. Iterates(iter)
  <2>1. \A s \in SUBSET (1..n) :
          g[s] = IF s = {} THEN 0
                 ELSE t[CHOOSE x \in s : TRUE].length
                        + g[s \ {CHOOSE x \in s : TRUE}]
    <3> SUFFICES ASSUME NEW s \in SUBSET (1..n), s # {}
                 PROVE  g[s] = t[CHOOSE x \in s : TRUE].length
                                 + g[s \ {CHOOSE x \in s : TRUE}]
      BY <1>5
    <3>1. g[s] = g[s \ {c[s]}] + t[c[s]].length
      BY <1>2, <1>6
    <3>2. g[s \ {c[s]}] \in Nat /\ t[c[s]].length \in Nat
      <4>1. len[c[s]] \in Nat /\ len[c[s]] = t[c[s]].length
        BY <1>2, <1>6
      <4> QED BY <1>6, <4>1
    <3>3. g[s] = t[c[s]].length + g[s \ {c[s]}]
      <4> DEFINE rest == g[s \ {c[s]}]
                 extra == t[c[s]].length
      <4>1. g[s] = rest + extra /\ rest \in Nat /\ extra \in Nat
        BY <1>2, <1>6, <3>1, <3>2
      <4> HIDE DEF rest, extra
      <4>2. g[s] = extra + rest
        BY <4>1
      <4> QED BY <4>2 DEF rest, extra
    <3> QED BY <1>3, <3>3
  <2>2. Iterates(g)
    BY <1>5, <2>1
  <2> HIDE DEF Iterates
  <2> QED BY <2>2
<1>8. /\ iter[{}] = 0
      /\ \A s \in SUBSET (1..n) :
           s # {} => iter[s] = t[c[s]].length + iter[s \ {c[s]}]
  <2>1. \A s \in SUBSET (1..n) :
          iter[s] = IF s = {} THEN 0
                    ELSE t[CHOOSE x \in s : TRUE].length
                           + iter[s \ {CHOOSE x \in s : TRUE}]
    <3> HIDE DEF iter
    <3> QED BY <1>7
  <2> HIDE DEF iter
  <2> QED BY <1>3, <2>1
<1> HIDE DEF iter, Iterates
<1>9. iter[1..n] = g[1..n]
  <2>1. ASSUME NEW s \in SUBSET (1..n), s # {}, iter[s \ {c[s]}] \in Nat
        PROVE  iter[s] = iter[s \ {c[s]}] + len[c[s]]
    <3>1. /\ iter[s] = t[c[s]].length + iter[s \ {c[s]}]
          /\ len[c[s]] \in Nat /\ len[c[s]] = t[c[s]].length
      BY <1>2, <1>6, <1>8, <2>1
    <3> QED BY <2>1, <3>1
  <2>2. SumsUp(iter, len, n, c)
    BY <1>3, <1>8, <2>1 DEF SumsUp
  <2>3. SumOver(g, len, n)
    BY <1>2, <1>5 DEF SumOver
  <2>4. Agree(iter, g, n)
    BY <2>2, <2>3, SumUnique
  <2> QED BY <2>4 DEF Agree
<1>10. g[1..n] = P[n]
  <2> DEFINE S == {k \in Nat : k <= n => g[1..k] = P[k]}
  <2>1. 0 \in S
    <3>1. 1..0 = {}
      OBVIOUS
    <3> QED BY <1>4, <1>5, <3>1
  <2>2. ASSUME NEW k \in Nat, k \in S PROVE k + 1 \in S
    <3> SUFFICES ASSUME k + 1 <= n PROVE g[1 .. k + 1] = P[k + 1]
      OBVIOUS
    <3>1. /\ k + 1 \in 1..n /\ (k + 1) - 1 = k /\ g[1..k] = P[k]
      BY <1>4, <2>2
    <3>2. /\ 1 .. k + 1 \in SUBSET (1..n) /\ k + 1 \in 1 .. k + 1
          /\ (1 .. k + 1) \ {k + 1} = 1..k
      BY <1>4, <3>1, IntervalFacts
    <3>3. g[1 .. k + 1] = g[(1 .. k + 1) \ {k + 1}] + len[k + 1]
      BY <1>5, <3>2 DEF Sums
    <3> QED BY <1>4, <3>1, <3>2, <3>3
  <2>3. n \in S
    <3>1. S \in SUBSET Nat
      OBVIOUS
    <3> HIDE DEF S
    <3> QED BY <1>4, <2>1, <2>2, <3>1, SetInduction
  <2> QED BY <1>4, <2>3
<1> QED BY <1>1, <1>4, <1>9, <1>10

LEMMA LengthsGrow ==
  ASSUME NEW t, NEW n \in Nat, \A k \in 1..n : t[k].length \in Nat
  PROVE  /\ LengthOfFirst(t, 0) = 0
         /\ \A m \in 0..n : LengthOfFirst(t, m) \in Nat
         /\ \A k \in 1..n :
              LengthOfFirst(t, k) = LengthOfFirst(t, k - 1) + t[k].length
<1> DEFINE len == [k \in 1..n |-> t[k].length]
           c == [s \in SUBSET (1..n) |-> CHOOSE x \in s : TRUE]
<1>1. len \in [1..n -> Nat] /\ \A k \in 1..n : len[k] = t[k].length
  OBVIOUS
<1>2. Chooses(c, n)
  BY DEF Chooses
<1> HIDE DEF len, c
<1>3. PICK g \in [SUBSET (1..n) -> Nat] : g[{}] = 0 /\ Sums(g, len, n)
  BY <1>1, <1>2, SumExists
<1> DEFINE P == [m \in 0..n |-> g[1..m]]
<1>4. P \in [0..n -> Nat] /\ P[0] = 0
  <2>1. \A m \in 0..n : 1..m \in SUBSET (1..n)
    OBVIOUS
  <2>2. 1..0 = {} /\ 0 \in 0..n
    OBVIOUS
  <2> QED BY <1>3, <2>1, <2>2
<1>5. ASSUME NEW k \in 1..n PROVE P[k] = P[k - 1] + t[k].length
  <2>1. /\ k \in 0..n /\ k - 1 \in 0..n /\ 1..k \in SUBSET (1..n)
        /\ k \in 1..k /\ (1..k) \ {k} = 1 .. k - 1
    BY IntervalFacts
  <2>2. P[k] = g[1..k] /\ P[k - 1] = g[1 .. k - 1]
    BY <2>1
  <2>3. g[1..k] = g[(1..k) \ {k}] + len[k]
    BY <1>3, <2>1 DEF Sums
  <2> QED BY <1>1, <2>1, <2>2, <2>3
<1> HIDE DEF P
<1>6. ASSUME NEW m \in 0..n PROVE LengthOfFirst(t, m) = P[m]
  <2> DEFINE Q == [i \in 0..m |-> P[i]]
  <2>1. Q \in [0..m -> Nat] /\ Q[0] = 0 /\ Q[m] = P[m] /\ m \in Nat
    BY <1>4
  <2>2. ASSUME NEW k \in 1..m
        PROVE  t[k].length \in Nat /\ Q[k] = Q[k - 1] + t[k].length
    <3>1. k \in 1..n /\ k \in 0..m /\ k - 1 \in 0..m
      OBVIOUS
    <3> QED BY <1>5, <3>1
  <2> HIDE DEF Q
  <2>3. LengthOfFirst(t, m) = Q[m]
    BY <2>1, <2>2, SumOfLengths
  <2> QED BY <2>1, <2>3
<1>7. 0 \in 0..n /\ \A k \in 1..n : k \in 0..n /\ k - 1 \in 0..n
  OBVIOUS
<1> QED BY <1>4, <1>5, <1>6, <1>7
=============================================================================
