-------------------------- MODULE Ranking_proofs ---------------------------
(***************************************************************************)
(* Proofs about Ranking, for any candidates, weights and priorities: every *)
(* order is sound, the shares of the lead are fair, and an edit of a       *)
(* sticky rule moves only what it touches.                                 *)
(*                                                                         *)
(* The first half is about the operators: induction over finite sets, sums *)
(* over them, arrangements of a finite set in the order of a relation, and *)
(* the orders the strategies sort by.  The second half is about the        *)
(* specification: its types, SoundOrder, StickyMovesLittle, and FairShare  *)
(* with the invariant FairInv it rests on.                                 *)
(***************************************************************************)
EXTENDS Ranking, FiniteSetTheorems, SequenceTheorems, WellFoundedInduction, TLAPS

----------------------------------------------------------------------------
(* Induction.                                                              *)

(* What holds of 0 and, with every number, of the next one holds of all.   *)
LEMMA SetInduction ==
  ASSUME NEW X, 0 \in X, \A n \in Nat : n \in X => n + 1 \in X
  PROVE  Nat \subseteq X
<1> SUFFICES ASSUME Nat \ X # {} PROVE FALSE
  OBVIOUS
<1>1. PICK T : T = Nat \ X
  OBVIOUS
<1>2. PICK R : R = OpToRel(<, Nat)
  OBVIOUS
<1>3. \A m, n \in Nat : <<m, n>> \in R <=> m < n
  BY <1>2 DEF OpToRel
<1>4. IsWellFoundedOn(R, Nat)
  BY <1>2, NatLessThanWellFounded
<1>5. PICK n \in T : \A m \in T : <<m, n>> \notin R
  BY <1>1, <1>4, WFMin
<1>6. n \in Nat /\ n # 0 /\ n - 1 \in Nat /\ n - 1 < n /\ n = (n - 1) + 1
  BY <1>1, <1>5
<1>7. n - 1 \in T
  BY <1>1, <1>5, <1>6
<1> QED
  BY <1>1, <1>3, <1>5, <1>6, <1>7

(* The subsets of a finite set, one element after the other.               *)
LEMMA FiniteInduction ==
  ASSUME NEW S, IsFiniteSet(S), NEW X, {} \in X,
         \A T \in SUBSET S : \A x \in S \ T : T \in X => T \cup {x} \in X
  PROVE  S \in X
<1>1. PICK N : N = {n \in Nat : \A T \in SUBSET S : Cardinality(T) = n => T \in X}
  OBVIOUS
<1>2. \A T \in SUBSET S : IsFiniteSet(T) /\ Cardinality(T) \in Nat
  BY FS_Subset, FS_CardinalityType
<1>3. 0 \in N
  BY <1>1, <1>2, FS_EmptySet
<1>4. ASSUME NEW n \in Nat, n \in N PROVE n + 1 \in N
  <2> SUFFICES ASSUME NEW T \in SUBSET S, Cardinality(T) = n + 1 PROVE T \in X
    BY <1>1
  <2>1. T # {}
    BY FS_EmptySet
  <2>2. PICK x \in T : TRUE
    BY <2>1
  <2>3. Cardinality(T \ {x}) = n
    <3>1. Cardinality(T \ {x}) = Cardinality(T) - 1
      BY <1>2, <2>2, FS_RemoveElement
    <3> QED
      BY <3>1
  <2>4. T \ {x} \in X
    BY <1>1, <1>4, <2>3
  <2>5. (T \ {x}) \cup {x} = T
    BY <2>2
  <2> QED
    BY <2>2, <2>4, <2>5
<1>5. Nat \subseteq N
  BY <1>3, <1>4, SetInduction
<1> QED
  BY <1>1, <1>2, <1>5

----------------------------------------------------------------------------
(* Sums over finite sets.                                                  *)

\* The sum over s, if g has the sums over smaller sets.
Summed(f, g, s) == IF s = {} THEN 0 ELSE LET x == CHOOSE y \in s : TRUE IN f[x] + g[s \ {x}]

\* g has the sums over the subsets of S.
HasSums(f, g, S) == g = [s \in SUBSET S |-> Summed(f, g, s)]

LEMMA SumIs ==
  ASSUME NEW f, NEW S
  PROVE  Sum(f, S) = (CHOOSE g : HasSums(f, g, S))[S]
BY DEF Sum, MapThenSumSet, MapThenFoldSet, Summed, HasSums

(* The recursion has a solution.                                           *)
LEMMA SumsExist ==
  ASSUME NEW f, NEW S, IsFiniteSet(S)
  PROVE  \E g : HasSums(f, g, S)
<1> DEFINE Level(n) == {s \in SUBSET S : Cardinality(s) <= n}
<1>1. \A s \in SUBSET S : IsFiniteSet(s) /\ Cardinality(s) \in Nat /\ Cardinality(s) <= Cardinality(S)
  BY FS_Subset, FS_CardinalityType
<1>2. PICK N : N = {n \in Nat : \E g : g = [s \in Level(n) |-> Summed(f, g, s)]}
  OBVIOUS
<1>3. 0 \in N
  <2>1. PICK g : g = [s \in Level(0) |-> 0]
    OBVIOUS
  <2>2. \A s \in Level(0) : s = {}
    BY <1>1, FS_EmptySet
  <2>3. g = [s \in Level(0) |-> Summed(f, g, s)]
    BY <2>1, <2>2 DEF Summed
  <2> QED
    BY <1>2, <2>3
<1>4. ASSUME NEW n \in Nat, n \in N PROVE n + 1 \in N
  <2>1. PICK g : g = [s \in Level(n) |-> Summed(f, g, s)]
    BY <1>2, <1>4
  <2>2. PICK h : h = [s \in Level(n + 1) |-> Summed(f, g, s)]
    OBVIOUS
  <2>3. ASSUME NEW s \in Level(n + 1) PROVE Summed(f, h, s) = Summed(f, g, s)
    <3>1. CASE s = {}
      BY <3>1 DEF Summed
    <3>2. CASE s # {}
      <4>1. PICK y : y = CHOOSE z \in s : TRUE
        OBVIOUS
      <4>2. y \in s
        BY <3>2, <4>1
      <4>3. IsFiniteSet(s) /\ Cardinality(s) \in Nat /\ Cardinality(s) <= n + 1
        BY <1>1
      <4>4. Cardinality(s \ {y}) = Cardinality(s) - 1
        BY <4>2, <4>3, FS_RemoveElement
      <4>5. s \ {y} \in Level(n) /\ s \ {y} \in Level(n + 1)
        BY <1>1, <4>3, <4>4
      <4>6. h[s \ {y}] = g[s \ {y}]
        <5>1. h[s \ {y}] = Summed(f, g, s \ {y})
          BY <2>2, <4>5
        <5>2. g[s \ {y}] = Summed(f, g, s \ {y})
          BY <2>1, <4>5
        <5> QED
          BY <5>1, <5>2
      <4> QED
        BY <3>2, <4>1, <4>6 DEF Summed
    <3> QED
      BY <3>1, <3>2
  <2>4. h = [s \in Level(n + 1) |-> Summed(f, h, s)]
    BY <2>2, <2>3
  <2> HIDE DEF Level
  <2> QED
    BY <1>2, <2>4
<1>5. Cardinality(S) \in N
  BY <1>1, <1>3, <1>4, SetInduction
<1>6. Level(Cardinality(S)) = SUBSET S
  BY <1>1
<1> HIDE DEF Level
<1> QED
  BY <1>2, <1>5, <1>6 DEF HasSums

(* Its solutions agree.                                                    *)
LEMMA SumsAgree ==
  ASSUME NEW f, NEW g, NEW h, NEW S, IsFiniteSet(S), NEW T \in SUBSET S,
         HasSums(f, g, S), HasSums(f, h, T)
  PROVE  g[T] = h[T]
<1>1. \A s \in SUBSET S : IsFiniteSet(s) /\ Cardinality(s) \in Nat
  BY FS_Subset, FS_CardinalityType
<1>2. PICK N : N = {n \in Nat : \A s \in SUBSET T : Cardinality(s) = n => g[s] = h[s]}
  OBVIOUS
<1>3. ASSUME NEW s \in SUBSET T PROVE g[s] = Summed(f, g, s) /\ h[s] = Summed(f, h, s)
  BY DEF HasSums
<1>4. 0 \in N
  <2>1. \A s \in SUBSET T : Cardinality(s) = 0 => s = {}
    BY <1>1, FS_EmptySet
  <2> QED
    BY <1>2, <1>3, <2>1 DEF Summed
<1>5. ASSUME NEW n \in Nat, n \in N PROVE n + 1 \in N
  <2> SUFFICES ASSUME NEW s \in SUBSET T, Cardinality(s) = n + 1 PROVE g[s] = h[s]
    BY <1>2
  <2>1. s # {}
    BY FS_EmptySet
  <2>2. PICK y : y = CHOOSE z \in s : TRUE
    OBVIOUS
  <2>3. y \in s
    BY <2>1, <2>2
  <2>4. Cardinality(s \ {y}) = n
    <3>1. Cardinality(s \ {y}) = Cardinality(s) - 1
      BY <1>1, <2>3, FS_RemoveElement
    <3> QED
      BY <3>1
  <2>5. g[s \ {y}] = h[s \ {y}]
    BY <1>2, <1>5, <2>4
  <2> QED
    BY <1>3, <2>1, <2>2, <2>5 DEF Summed
<1>6. Nat \subseteq N
  BY <1>4, <1>5, SetInduction
<1> QED
  BY <1>1, <1>2, <1>6

(* The sum over a set is that over the set without one element, plus its   *)
(* value.                                                                  *)
LEMMA SumChosen ==
  ASSUME NEW f, NEW S, IsFiniteSet(S)
  PROVE  /\ Sum(f, {}) = 0
         /\ S # {} => LET x == CHOOSE y \in S : TRUE IN Sum(f, S) = f[x] + Sum(f, S \ {x})
<1>1. PICK g : g = CHOOSE gg : HasSums(f, gg, S)
  OBVIOUS
<1>2. HasSums(f, g, S) /\ Sum(f, S) = g[S]
  BY <1>1, SumsExist, SumIs
<1>3. ASSUME NEW T \in SUBSET S PROVE Sum(f, T) = g[T] /\ g[T] = Summed(f, g, T)
  <2>1. IsFiniteSet(T)
    BY FS_Subset
  <2>2. PICK h : h = CHOOSE hh : HasSums(f, hh, T)
    OBVIOUS
  <2>3. HasSums(f, h, T) /\ Sum(f, T) = h[T]
    BY <2>1, <2>2, SumsExist, SumIs
  <2>4. g[T] = h[T]
    BY <1>2, <2>3, SumsAgree
  <2> QED
    BY <1>2, <2>3, <2>4 DEF HasSums
<1>4. Sum(f, {}) = 0
  BY <1>3 DEF Summed
<1>5. ASSUME S # {} PROVE LET x == CHOOSE y \in S : TRUE IN Sum(f, S) = f[x] + Sum(f, S \ {x})
  <2>1. PICK x : x = CHOOSE y \in S : TRUE
    OBVIOUS
  <2>2. Sum(f, S) = f[x] + g[S \ {x}]
    BY <1>3, <1>5, <2>1 DEF Summed
  <2>3. Sum(f, S \ {x}) = g[S \ {x}]
    BY <1>3
  <2> QED
    BY <2>1, <2>2, <2>3
<1> QED
  BY <1>4, <1>5

LEMMA SumRemoves ==
  ASSUME NEW f, NEW S, IsFiniteSet(S), \A x \in S : f[x] \in Int
  PROVE  /\ Sum(f, S) \in Int
         /\ \A x \in S : Sum(f, S) = f[x] + Sum(f, S \ {x})
<1> DEFINE Good(T) == /\ Sum(f, T) \in Int
                      /\ \A x \in T : Sum(f, T) = f[x] + Sum(f, T \ {x})
<1>1. \A T \in SUBSET S : IsFiniteSet(T) /\ Cardinality(T) \in Nat
  BY FS_Subset, FS_CardinalityType
<1>2. PICK N : N = {n \in Nat : \A T \in SUBSET S : Cardinality(T) <= n => Good(T)}
  OBVIOUS
<1>0. Good({})
  <2>1. Sum(f, {}) = 0
    BY SumChosen
  <2> QED
    BY <2>1
<1>3. 0 \in N
  <2>1. \A T \in SUBSET S : Cardinality(T) <= 0 => T = {}
    BY <1>1, FS_EmptySet
  <2> HIDE DEF Good
  <2> QED
    BY <1>2, <1>0, <2>1
<1>4. ASSUME NEW n \in Nat, n \in N PROVE n + 1 \in N
  <2>1. ASSUME NEW T \in SUBSET S, Cardinality(T) <= n PROVE Good(T)
    BY <1>2, <1>4, <2>1
  <2> SUFFICES ASSUME NEW T \in SUBSET S, Cardinality(T) <= n + 1, T # {} PROVE Good(T)
    <3> HIDE DEF Good
    <3> QED
      BY <1>2, <1>0
  <2>2. PICK y : y = CHOOSE z \in T : TRUE
    OBVIOUS
  <2>3. y \in T /\ Sum(f, T) = f[y] + Sum(f, T \ {y})
    BY <1>1, <2>2, SumChosen
  <2>4. ASSUME NEW x \in T PROVE Good(T \ {x}) /\ f[x] \in Int /\ Sum(f, T \ {x}) \in Int
    <3>1. Cardinality(T \ {x}) = Cardinality(T) - 1
      BY <1>1, FS_RemoveElement
    <3>2. Cardinality(T \ {x}) <= n
      BY <1>1, <3>1
    <3> QED
      BY <2>1, <3>2
  <2>5. ASSUME NEW x \in T, x # y PROVE Sum(f, T) = f[x] + Sum(f, T \ {x})
    <3>1. (T \ {y}) \ {x} = (T \ {x}) \ {y}
      OBVIOUS
    <3>2. Sum(f, T \ {y}) = f[x] + Sum(f, (T \ {y}) \ {x})
      BY <2>3, <2>4, <2>5
    <3>3. Sum(f, T \ {x}) = f[y] + Sum(f, (T \ {x}) \ {y})
      BY <2>3, <2>4, <2>5
    <3>4. Cardinality((T \ {x}) \ {y}) <= n
      <4>1. /\ Cardinality(T \ {x}) = Cardinality(T) - 1
            /\ Cardinality((T \ {x}) \ {y}) = Cardinality(T \ {x}) - 1
        BY <1>1, <2>3, <2>5, FS_RemoveElement
      <4> QED
        BY <1>1, <4>1
    <3>5. Sum(f, (T \ {x}) \ {y}) \in Int
      BY <2>1, <3>4
    <3>6. PICK a, b, r, ry, rx, t : /\ a = f[x] /\ b = f[y] /\ r = Sum(f, (T \ {x}) \ {y})
                                    /\ ry = Sum(f, T \ {y}) /\ rx = Sum(f, T \ {x})
                                    /\ t = Sum(f, T)
      OBVIOUS
    <3>7. a \in Int /\ b \in Int /\ r \in Int /\ t = b + ry /\ ry = a + r /\ rx = b + r
      BY <2>3, <2>4, <3>1, <3>2, <3>3, <3>5, <3>6
    <3>8. t = a + rx
      BY <3>7
    <3> QED
      BY <3>6, <3>8
  <2>6. \A x \in T : Sum(f, T) = f[x] + Sum(f, T \ {x})
    BY <2>3, <2>5
  <2>7. Sum(f, T) \in Int
    BY <2>3, <2>4
  <2> QED
    BY <2>6, <2>7
<1>5. Cardinality(S) \in N
  BY <1>1, <1>3, <1>4, SetInduction
<1> QED
  BY <1>1, <1>2, <1>5

(* The sum over a set with one element more.                               *)
LEMMA SumExtends ==
  ASSUME NEW f, NEW S, IsFiniteSet(S), \A x \in S : f[x] \in Int,
         NEW T \in SUBSET S, NEW x \in S \ T
  PROVE  /\ Sum(f, T) \in Int /\ f[x] \in Int
         /\ Sum(f, T \cup {x}) = Sum(f, T) + f[x]
<1>1. /\ IsFiniteSet(T \cup {x}) /\ x \in T \cup {x} /\ (T \cup {x}) \ {x} = T
      /\ \A y \in T \cup {x} : f[y] \in Int
  BY FS_Subset
<1>2. IsFiniteSet(T) /\ \A y \in T : f[y] \in Int
  BY FS_Subset
<1>3. Sum(f, T) \in Int
  BY <1>2, SumRemoves
<1>4. Sum(f, T \cup {x}) = f[x] + Sum(f, (T \cup {x}) \ {x})
  BY <1>1, SumRemoves
<1>5. PICK a, b : a = Sum(f, T) /\ b = f[x]
  OBVIOUS
<1>6. a \in Int /\ b \in Int /\ Sum(f, T \cup {x}) = b + a
  BY <1>1, <1>3, <1>4, <1>5
<1> QED
  BY <1>5, <1>6

(* A sum of sums.                                                          *)
LEMMA SumAdds ==
  ASSUME NEW f, NEW g, NEW h, NEW S, IsFiniteSet(S),
         \A x \in S : f[x] \in Int /\ g[x] \in Int /\ h[x] = f[x] + g[x]
  PROVE  Sum(h, S) = Sum(f, S) + Sum(g, S)
<1>1. PICK X : X = {T \in SUBSET S : Sum(h, T) = Sum(f, T) + Sum(g, T)}
  OBVIOUS
<1>2. {} \in X
  <2>1. Sum(f, {}) = 0 /\ Sum(g, {}) = 0 /\ Sum(h, {}) = 0
    BY SumChosen
  <2> QED
    BY <1>1, <2>1
<1>3. \A x \in S : f[x] \in Int
  OBVIOUS
<1>6. \A x \in S : g[x] \in Int
  OBVIOUS
<1>7. \A x \in S : h[x] \in Int
  OBVIOUS
<1>4. ASSUME NEW T \in SUBSET S, NEW x \in S \ T, T \in X PROVE T \cup {x} \in X
  <2>1. PICK a, b, c : a = Sum(f, T) /\ b = Sum(g, T) /\ c = Sum(h, T)
    OBVIOUS
  <2>2. a \in Int /\ f[x] \in Int /\ Sum(f, T \cup {x}) = a + f[x]
    BY <1>3, <2>1, SumExtends
  <2>5. b \in Int /\ g[x] \in Int /\ Sum(g, T \cup {x}) = b + g[x]
    BY <1>6, <2>1, SumExtends
  <2>6. Sum(h, T \cup {x}) = c + h[x]
    BY <1>7, <2>1, SumExtends
  <2>7. c = a + b /\ h[x] = f[x] + g[x]
    BY <1>1, <1>4, <2>1
  <2>3. T \cup {x} \in SUBSET S
    OBVIOUS
  <2>4. Sum(h, T \cup {x}) = Sum(f, T \cup {x}) + Sum(g, T \cup {x})
    BY <2>2, <2>5, <2>6, <2>7
  <2> QED
    BY <1>1, <2>3, <2>4
<1>5. S \in X
  BY <1>2, <1>4, FiniteInduction
<1> QED
  BY <1>1, <1>5

(* A sum is at most that of greater values, and equal only if they are.    *)
LEMMA SumAtMost ==
  ASSUME NEW f, NEW g, NEW S, IsFiniteSet(S),
         \A x \in S : f[x] \in Int /\ g[x] \in Int /\ f[x] <= g[x]
  PROVE  /\ Sum(f, S) <= Sum(g, S)
         /\ Sum(f, S) = Sum(g, S) => \A x \in S : f[x] = g[x]
<1> DEFINE Good(T) == /\ Sum(f, T) <= Sum(g, T)
                      /\ Sum(f, T) = Sum(g, T) => \A x \in T : f[x] = g[x]
<1>1. PICK X : X = {T \in SUBSET S : Good(T)}
  OBVIOUS
<1>2. {} \in X
  <2>1. Sum(f, {}) = 0 /\ Sum(g, {}) = 0
    BY SumChosen
  <2> QED
    BY <1>1, <2>1
<1>3. ASSUME NEW T \in SUBSET S, NEW x \in S \ T, T \in X PROVE T \cup {x} \in X
  <2>1. PICK a, b : a = Sum(f, T) /\ b = Sum(g, T)
    OBVIOUS
  <2>2. /\ a \in Int /\ b \in Int /\ a <= b /\ (a = b => \A y \in T : f[y] = g[y])
        /\ Sum(f, T \cup {x}) = a + f[x]
        /\ Sum(g, T \cup {x}) = b + g[x]
    BY <1>1, <1>3, <2>1, SumExtends
  <2>3. PICK c, d : c = f[x] /\ d = g[x]
    OBVIOUS
  <2>7. c \in Int /\ d \in Int /\ c <= d
    BY <2>3
  <2>8. a + c <= b + d /\ (a + c = b + d => a = b /\ c = d)
    BY <2>2, <2>7
  <2>4. /\ a + f[x] <= b + g[x]
        /\ a + f[x] = b + g[x] => a = b /\ f[x] = g[x]
    BY <2>3, <2>8
  <2>5. Good(T \cup {x})
    BY <2>2, <2>4
  <2>6. T \cup {x} \in SUBSET S
    OBVIOUS
  <2> HIDE DEF Good
  <2> QED
    BY <1>1, <2>5, <2>6
<1>4. S \in X
  BY <1>2, <1>3, FiniteInduction
<1> QED
  BY <1>1, <1>4

(* Equal values have equal sums.                                           *)
LEMMA SumSame ==
  ASSUME NEW f, NEW g, NEW S, IsFiniteSet(S),
         \A x \in S : f[x] \in Int /\ f[x] = g[x]
  PROVE  Sum(f, S) = Sum(g, S)
<1>1. \A x \in S : f[x] \in Int /\ g[x] \in Int /\ f[x] <= g[x] /\ g[x] <= f[x]
  OBVIOUS
<1>2. Sum(f, S) <= Sum(g, S) /\ Sum(g, S) <= Sum(f, S)
  BY <1>1, SumAtMost
<1>3. Sum(f, S) \in Int /\ Sum(g, S) \in Int
  BY <1>1, SumRemoves
<1> QED
  BY <1>2, <1>3

(* The sum of a constant.                                                  *)
LEMMA SumConstant ==
  ASSUME NEW f, NEW S, IsFiniteSet(S), NEW k \in Int, \A x \in S : f[x] = k
  PROVE  Sum(f, S) = k * Cardinality(S)
<1>1. PICK X : X = {T \in SUBSET S : Sum(f, T) = k * Cardinality(T)}
  OBVIOUS
<1>2. {} \in X
  <2>1. Sum(f, {}) = 0 /\ Cardinality({}) = 0
    BY SumChosen, FS_EmptySet
  <2> QED
    BY <1>1, <2>1
<1>3. ASSUME NEW T \in SUBSET S, NEW x \in S \ T, T \in X PROVE T \cup {x} \in X
  <2>1. PICK n : n = Cardinality(T)
    OBVIOUS
  <2>2. n \in Nat /\ Cardinality(T \cup {x}) = n + 1
    <3>1. IsFiniteSet(T)
      BY FS_Subset
    <3> QED
      BY <2>1, <3>1, FS_CardinalityType, FS_AddElement
  <2>3. Sum(f, T \cup {x}) = k * n + k
    BY <1>1, <1>3, <2>1, SumExtends
  <2>4. k * n + k = k * (n + 1)
    BY <2>2
  <2> QED
    BY <1>1, <2>2, <2>3, <2>4
<1>4. S \in X
  BY <1>2, <1>3, FiniteInduction
<1> QED
  BY <1>1, <1>4

(* One value changes.                                                      *)
LEMMA SumChanges ==
  ASSUME NEW f, NEW g, NEW S, IsFiniteSet(S), NEW x \in S, NEW d \in Int,
         \A y \in S : f[y] \in Int,
         g[x] = f[x] + d, \A y \in S \ {x} : g[y] = f[y]
  PROVE  Sum(g, S) = Sum(f, S) + d
<1>1. \A y \in S : g[y] \in Int
  OBVIOUS
<1>2. /\ Sum(f, S) = f[x] + Sum(f, S \ {x})
      /\ Sum(g, S) = g[x] + Sum(g, S \ {x})
  BY <1>1, SumRemoves
<1>3. IsFiniteSet(S \ {x})
  BY FS_RemoveElement
<1>4. Sum(f, S \ {x}) = Sum(g, S \ {x}) /\ Sum(f, S \ {x}) \in Int
  BY <1>3, SumSame, SumRemoves
<1> QED
  BY <1>2, <1>4

----------------------------------------------------------------------------
(* Sorting.                                                                *)

\* R orders S in a line.
Total(R, S) ==
  /\ \A x, y \in S : x # y => <<x, y>> \in R \/ <<y, x>> \in R
  /\ \A x, y \in S : <<x, y>> \in R => <<y, x>> \notin R
  /\ \A x, y, z \in S : <<x, y>> \in R /\ <<y, z>> \in R => <<x, z>> \in R

\* R orders S in ranks.
Weak(R, S) ==
  /\ \A x, y \in S : <<x, y>> \in R => <<y, x>> \notin R
  /\ \A x, y, z \in S : <<x, y>> \in R => <<x, z>> \in R \/ <<z, y>> \in R

\* s has the members of S, each once, in the order R.
Arranges(s, S, R) ==
  /\ s \in Seq(S) /\ Len(s) = Cardinality(S)
  /\ IsInjective(s) /\ Range(s) = S
  /\ \A i, j \in 1 .. Len(s) : i < j => <<s[i], s[j]>> \in R

(* An injection of a finite set into one of the same size reaches all.     *)
LEMMA AllReached ==
  ASSUME NEW S, NEW T, IsFiniteSet(T), Cardinality(S) = Cardinality(T), NEW f \in Injection(S, T)
  PROVE  f \in Surjection(S, T)
BY FS_Injection

(* A finite set that is ordered in a line has an arrangement: the place of *)
(* a member is the number of those before it.                              *)
LEMMA InOrderArranges ==
  ASSUME NEW S, IsFiniteSet(S), NEW R, Total(R, S)
  PROVE  Arranges(InOrder(S, R), S, R)
<1>1. PICK n : n = Cardinality(S)
  OBVIOUS
<1>2. n \in Nat /\ IsFiniteSet(1 .. n) /\ Cardinality(1 .. n) = n
  BY <1>1, FS_CardinalityType, FS_Interval
<1> DEFINE Below(x) == {y \in S : <<y, x>> \in R}
<1>3. PICK place : place = [x \in S |-> Cardinality(Below(x)) + 1]
  OBVIOUS
<1>4. ASSUME NEW x \in S
      PROVE  IsFiniteSet(Below(x)) /\ Cardinality(Below(x)) \in Nat /\ Cardinality(Below(x)) < n
  <2>1. IsFiniteSet(S \ {x}) /\ Cardinality(S \ {x}) = n - 1
    BY <1>1, FS_RemoveElement
  <2>2. Below(x) \in SUBSET (S \ {x})
    BY DEF Total
  <2>3. IsFiniteSet(Below(x)) /\ Cardinality(Below(x)) <= n - 1
    BY <2>1, <2>2, FS_Subset
  <2> HIDE DEF Below
  <2> QED
    BY <1>2, <2>3, FS_CardinalityType
<1>5. ASSUME NEW x \in S, NEW y \in S, <<x, y>> \in R
      PROVE  Cardinality(Below(x)) < Cardinality(Below(y))
  <2>1. Below(x) \in SUBSET Below(y) /\ x \in Below(y) /\ x \notin Below(x)
    BY <1>5 DEF Total
  <2>2. Below(x) # Below(y)
    BY <2>1
  <2> HIDE DEF Below
  <2>3. /\ Cardinality(Below(x)) <= Cardinality(Below(y))
        /\ Cardinality(Below(y)) # Cardinality(Below(x))
    BY <1>4, <2>1, <2>2, FS_Subset
  <2> QED
    BY <1>4, <2>3
<1> HIDE DEF Below
<1>6. place \in [S -> 1 .. n]
  BY <1>2, <1>3, <1>4
<1>7. \A x, y \in S : <<x, y>> \in R => place[x] < place[y]
  BY <1>3, <1>4, <1>5
<1>8. IsInjective(place)
  <2>1. ASSUME NEW x \in S, NEW y \in S, x # y PROVE place[x] # place[y]
    <3>1. place[x] < place[y] \/ place[y] < place[x]
      BY <1>7, <2>1 DEF Total
    <3>2. place[x] \in Int /\ place[y] \in Int
      BY <1>2, <1>6
    <3> QED
      BY <3>1, <3>2
  <2> QED
    BY <1>6, <2>1 DEF IsInjective
<1>9. \A i \in 1 .. n : \E x \in S : place[x] = i
  <2>1. place \in Injection(S, 1 .. n)
    BY <1>6, <1>8 DEF Injection
  <2>2. place \in Surjection(S, 1 .. n)
    BY <1>1, <1>2, <2>1, AllReached
  <2> QED
    BY <2>2 DEF Surjection
<1>10. \E s \in [1 .. n -> S] : \A i, j \in 1 .. n : i < j => <<s[i], s[j]>> \in R
  <2>1. PICK s : s = [i \in 1 .. n |-> CHOOSE x \in S : place[x] = i]
    OBVIOUS
  <2>2. \A i \in 1 .. n : s[i] \in S /\ place[s[i]] = i
    BY <1>9, <2>1
  <2>3. ASSUME NEW i \in 1 .. n, NEW j \in 1 .. n, i < j PROVE <<s[i], s[j]>> \in R
    <3>1. i \in Int /\ j \in Int
      BY <1>2
    <3>2. place[s[i]] < place[s[j]] /\ ~(place[s[j]] < place[s[i]])
      BY <2>2, <2>3, <3>1
    <3>3. s[i] # s[j] /\ <<s[j], s[i]>> \notin R
      BY <1>7, <2>2, <2>3, <3>1, <3>2
    <3> QED
      BY <2>2, <3>3 DEF Total
  <2>4. s \in [1 .. n -> S]
    BY <2>1, <2>2
  <2> QED
    BY <2>3, <2>4
<1>11. PICK s : s = InOrder(S, R)
  OBVIOUS
<1>12. s \in [1 .. n -> S] /\ \A i, j \in 1 .. n : i < j => <<s[i], s[j]>> \in R
  BY <1>1, <1>10, <1>11 DEF InOrder
<1>13. IsInjective(s)
  <2>1. ASSUME NEW i \in 1 .. n, NEW j \in 1 .. n, i < j PROVE s[i] # s[j]
    BY <1>12, <2>1 DEF Total
  <2>2. ASSUME NEW i \in 1 .. n, NEW j \in 1 .. n, i # j PROVE s[i] # s[j]
    <3>1. i < j \/ j < i
      BY <1>2, <2>2
    <3> QED
      BY <2>1, <3>1
  <2> QED
    BY <1>12, <2>2 DEF IsInjective
<1>14. Range(s) = S
  <2>1. s \in Injection(1 .. n, S)
    BY <1>12, <1>13 DEF Injection
  <2>2. s \in Surjection(1 .. n, S)
    BY <1>1, <1>2, <2>1, AllReached
  <2> QED
    BY <1>12, <2>2 DEF Range, Surjection
<1>15. s \in Seq(S) /\ Len(s) = n
  BY <1>2, <1>12
<1> QED
  BY <1>1, <1>11, <1>12, <1>13, <1>14, <1>15 DEF Arranges

\* A list of candidates without repetition.
Lists(s) == s \in Seq(Candidates) /\ IsInjective(s)

(* Every member of a list has one position.                                *)
LEMMA PositionIs ==
  ASSUME NEW s, Lists(s)
  PROVE  /\ \A c \in Range(s) : Position(s, c) \in 1 .. Len(s) /\ s[Position(s, c)] = c
         /\ \A i \in 1 .. Len(s) : s[i] \in Range(s) /\ s[i] \in Candidates /\ Position(s, s[i]) = i
         /\ Range(s) \subseteq Candidates
         /\ IsFiniteSet(Range(s)) /\ Cardinality(Range(s)) = Len(s)
         /\ Len(s) \in Nat
<1>1. /\ s \in Seq(Candidates) /\ DOMAIN s = 1 .. Len(s) /\ Len(s) \in Nat
      /\ \A i \in 1 .. Len(s) : s[i] \in Candidates
      /\ s \in [1 .. Len(s) -> Candidates]
  BY DEF Lists
<1>2. \A i \in 1 .. Len(s) : s[i] \in Range(s)
  BY <1>1 DEF Range
<1>3. \A c \in Range(s) : Position(s, c) \in 1 .. Len(s) /\ s[Position(s, c)] = c
  BY <1>1 DEF Range, Position
<1>4. \A i \in 1 .. Len(s) : Position(s, s[i]) = i
  BY <1>1, <1>2, <1>3 DEF Lists, IsInjective
<1>5. Range(s) \subseteq Candidates
  BY <1>1 DEF Range
<1>6. /\ IsFiniteSet(1 .. Len(s)) /\ Cardinality(1 .. Len(s)) = Len(s)
  <2>1. PICK n : n = Len(s)
    OBVIOUS
  <2>2. n \in Nat
    BY <1>1, <2>1
  <2>3. IsFiniteSet(1 .. n) /\ Cardinality(1 .. n) = n
    BY <2>2, FS_Interval
  <2> QED
    BY <2>1, <2>3
<1>7. s \in Surjection(1 .. Len(s), Range(s)) /\ s \in Injection(1 .. Len(s), Range(s))
  <2>1. s \in [1 .. Len(s) -> Range(s)]
    BY <1>1, <1>2
  <2>2. \A c \in Range(s) : \E i \in 1 .. Len(s) : s[i] = c
    BY <1>3
  <2> QED
    BY <2>1, <2>2 DEF Surjection, Injection, Lists
<1>8. IsFiniteSet(Range(s)) /\ Cardinality(Range(s)) = Len(s)
  BY <1>6, <1>7, FS_Surjection
<1> QED
  BY <1>1, <1>2, <1>3, <1>4, <1>5, <1>8

(* An arrangement of candidates is a list.                                 *)
LEMMA ArrangesLists ==
  ASSUME NEW S \in SUBSET Candidates, NEW R, NEW s, Arranges(s, S, R)
  PROVE  Lists(s)
<1>1. s \in Seq(S) /\ IsInjective(s)
  BY DEF Arranges
<1>2. s \in Seq(Candidates)
  BY <1>1
<1> QED
  BY <1>1, <1>2 DEF Lists

(* What is kept of a list is in the order of the list.                     *)
LEMMA KeptArranges ==
  ASSUME NEW s, Lists(s), NEW S
  PROVE  /\ Arranges(Kept(s, S), Range(s) \cap S, Listed(s))
         /\ Lists(Kept(s, S))
         /\ Total(Listed(s), Range(s) \cap S)
<1>1. IsFiniteSet(Range(s) \cap S)
  BY PositionIs, FS_Subset
<1>2. \A c \in Range(s) : Position(s, c) \in Int /\ s[Position(s, c)] = c
  BY PositionIs
<1>3. Total(Listed(s), Range(s) \cap S)
  BY <1>2 DEF Total, Listed
<1>4. Arranges(Kept(s, S), Range(s) \cap S, Listed(s))
  BY <1>1, <1>3, InOrderArranges DEF Kept
<1>5. Range(s) \cap S \in SUBSET Candidates
  BY PositionIs
<1> QED
  BY <1>3, <1>4, <1>5, ArrangesLists

\* The order of the members of s after sorting.
Stable(s, before) ==
  {p \in Range(s) \X Range(s) :
     \/ p \in before
     \/ <<p[2], p[1]>> \notin before /\ Position(s, p[1]) < Position(s, p[2])}

(* A sorted list has the members of the list in the order of the relation. *)
LEMMA SortedArranges ==
  ASSUME NEW s, Lists(s), NEW before, Weak(before, Range(s))
  PROVE  /\ Arranges(Sorted(s, before), Range(s), Stable(s, before))
         /\ Lists(Sorted(s, before))
         /\ Total(Stable(s, before), Range(s))
<1>1. \A c \in Range(s) : Position(s, c) \in Int /\ s[Position(s, c)] = c
  BY PositionIs
<1>2. \A x, y \in Range(s) :
        <<x, y>> \in Stable(s, before) <=>
          \/ <<x, y>> \in before
          \/ <<y, x>> \notin before /\ Position(s, x) < Position(s, y)
  BY DEF Stable
<1>3. Total(Stable(s, before), Range(s))
  <2>1. \A x, y \in Range(s) : x # y => Position(s, x) # Position(s, y)
    BY <1>1
  <2>2. ASSUME NEW x \in Range(s), NEW y \in Range(s), x # y
        PROVE  <<x, y>> \in Stable(s, before) \/ <<y, x>> \in Stable(s, before)
    BY <1>1, <1>2, <2>1, <2>2
  <2>3. ASSUME NEW x \in Range(s), NEW y \in Range(s), <<x, y>> \in Stable(s, before)
        PROVE  <<y, x>> \notin Stable(s, before)
    BY <1>1, <1>2, <2>3 DEF Weak
  <2>4. ASSUME NEW x \in Range(s), NEW y \in Range(s), NEW z \in Range(s),
               <<x, y>> \in Stable(s, before), <<y, z>> \in Stable(s, before)
        PROVE  <<x, z>> \in Stable(s, before)
    <3>1. CASE <<x, y>> \in before
      <4>1. <<x, z>> \in before \/ <<z, y>> \in before
        BY <3>1 DEF Weak
      <4>2. <<z, y>> \notin before
        BY <1>2, <2>4 DEF Weak
      <4> QED
        BY <1>2, <4>1, <4>2
    <3>2. CASE <<x, y>> \notin before /\ <<y, z>> \in before
      <4>1. <<y, x>> \notin before
        BY <1>2, <2>4, <3>2
      <4>2. <<x, z>> \in before
        BY <3>2, <4>1 DEF Weak
      <4> QED
        BY <1>2, <4>2
    <3>3. CASE <<x, y>> \notin before /\ <<y, z>> \notin before
      <4>1. /\ <<y, x>> \notin before /\ <<z, y>> \notin before
            /\ Position(s, x) < Position(s, y) /\ Position(s, y) < Position(s, z)
        BY <1>2, <2>4, <3>3
      <4>2. Position(s, x) < Position(s, z)
        BY <1>1, <4>1
      <4>3. <<z, x>> \notin before
        BY <4>1 DEF Weak
      <4> QED
        BY <1>2, <4>2, <4>3
    <3> QED
      BY <3>1, <3>2, <3>3
  <2> QED
    BY <2>2, <2>3, <2>4 DEF Total
<1>4. Arranges(Sorted(s, before), Range(s), Stable(s, before))
  BY <1>3, InOrderArranges, PositionIs DEF Sorted, Stable
<1> QED
  BY <1>3, <1>4, ArrangesLists, PositionIs

(* No member comes before one that the relation puts in front of it.       *)
LEMMA SortedRespects ==
  ASSUME NEW s, Lists(s), NEW before, Weak(before, Range(s)),
         NEW i \in 1 .. Len(Sorted(s, before)), NEW j \in 1 .. Len(Sorted(s, before)), i < j
  PROVE  <<Sorted(s, before)[j], Sorted(s, before)[i]>> \notin before
<1>1. PICK t : t = Sorted(s, before)
  OBVIOUS
<1>2. Arranges(t, Range(s), Stable(s, before))
  BY <1>1, SortedArranges
<1>3. <<t[i], t[j]>> \in Stable(s, before)
  BY <1>1, <1>2 DEF Arranges
<1> QED
  BY <1>1, <1>3 DEF Stable, Weak

----------------------------------------------------------------------------
(* The relations of the strategies.                                        *)

LEMMA RuleTypes ==
  ASSUME NEW q \in Rules
  PROVE  /\ Lists(q.list)
         /\ q.weight \in [Candidates -> Nat \ {0}] /\ q.priority \in [Candidates -> Int]
         /\ q.strategy \in Strategies
BY RankingAssumption DEF Rule, Lists

LEMMA WeakInside ==
  ASSUME NEW R, NEW S, NEW T, Weak(R, S), T \subseteq S
  PROVE  Weak(R, T)
BY DEF Weak

LEMMA HeavierWeak ==
  ASSUME NEW q \in Rules
  PROVE  Weak(Heavier(q), Candidates)
<1>1. \A c \in Candidates : q.weight[c] \in Int
  BY RuleTypes
<1>2. \A c, d \in Candidates : <<c, d>> \in Heavier(q) <=> q.weight[c] > q.weight[d]
  BY DEF Heavier, Pairs
<1> QED
  BY <1>1, <1>2 DEF Weak

LEMMA PriorityThenWeak ==
  ASSUME NEW q \in Rules, NEW R, Weak(R, Candidates)
  PROVE  Weak(PriorityThen(q, R), Candidates)
<1>1. \A c \in Candidates : q.priority[c] \in Int
  BY RuleTypes
<1>2. PICK P : P = PriorityThen(q, R)
  OBVIOUS
<1>3. \A c, d \in Candidates :
        <<c, d>> \in P <=>
          \/ q.priority[c] > q.priority[d]
          \/ q.priority[c] = q.priority[d] /\ <<c, d>> \in R
  BY <1>2 DEF PriorityThen, Pairs
<1>4. ASSUME NEW x \in Candidates, NEW y \in Candidates, <<x, y>> \in P PROVE <<y, x>> \notin P
  BY <1>1, <1>3, <1>4 DEF Weak
<1>5. ASSUME NEW x \in Candidates, NEW y \in Candidates, NEW z \in Candidates, <<x, y>> \in P
      PROVE  <<x, z>> \in P \/ <<z, y>> \in P
  <2>1. PICK a, b, c : a = q.priority[x] /\ b = q.priority[y] /\ c = q.priority[z]
    OBVIOUS
  <2>2. a \in Int /\ b \in Int /\ c \in Int /\ (a > b \/ (a = b /\ <<x, y>> \in R))
    BY <1>1, <1>3, <1>5, <2>1
  <2>3. CASE a > c
    BY <1>3, <2>1, <2>3
  <2>4. CASE c > b
    BY <1>3, <2>1, <2>4
  <2>5. CASE ~(a > c) /\ ~(c > b)
    <3>1. a = b /\ a = c /\ <<x, y>> \in R
      BY <2>2, <2>5
    <3>2. <<x, z>> \in R \/ <<z, y>> \in R
      BY <3>1 DEF Weak
    <3> QED
      BY <1>3, <2>1, <3>1, <3>2
  <2> QED
    BY <2>3, <2>4, <2>5
<1> QED
  BY <1>2, <1>4, <1>5 DEF Weak

(* Quotients are compared by their cross products.                         *)
LEMMA CrossProducts ==
  ASSUME NEW a \in Nat, NEW b \in Nat, NEW c \in Nat,
         NEW u \in Nat \ {0}, NEW v \in Nat \ {0}, NEW w \in Nat \ {0},
         c * u <= a * w, b * w <= c * v
  PROVE  b * u <= a * v
<1>1. (c * u) * v <= (a * w) * v /\ (b * w) * u <= (c * v) * u
  <2>1. \A x, y \in Nat : \A z \in Nat : x <= y => x * z <= y * z
    OBVIOUS
  <2> QED
    BY <2>1
<1>2. (b * u) * w <= (a * v) * w
  <2>1. /\ (b * w) * u = (b * u) * w /\ (c * v) * u = (c * u) * v
        /\ (a * w) * v = (a * v) * w
    OBVIOUS
  <2> QED
    BY <1>1, <2>1
<1>3. \A x, y \in Nat : x * w <= y * w => x <= y
  <2>1. \A x, y \in Nat : x >= y + 1 => x * w >= y * w + w
    <3>1. \A x, y \in Nat : x >= y + 1 => x * w >= (y + 1) * w
      OBVIOUS
    <3> QED
      BY <3>1
  <2> QED
    BY <2>1
<1>4. b * u \in Nat /\ a * v \in Nat
  OBVIOUS
<1> QED
  BY <1>2, <1>3, <1>4

LEMMA NearerWeak ==
  ASSUME NEW q \in Rules, NEW k \in StickyKeys
  PROVE  Weak(Nearer(q, k), Candidates)
<1>1. \A c \in Candidates : q.weight[c] \in Nat \ {0} /\ Distance[k][c] \in Nat
  BY RuleTypes, RankingAssumption
<1>2. \A c, d \in Candidates :
        <<c, d>> \in Nearer(q, k) <=> Distance[k][c] * q.weight[d] < Distance[k][d] * q.weight[c]
  BY DEF Nearer, Pairs
<1>3. \A m, n \in Nat \ {0} : \A a, b \in Nat : a * m \in Int /\ b * n \in Int
  OBVIOUS
<1>4. ASSUME NEW x \in Candidates, NEW y \in Candidates, <<x, y>> \in Nearer(q, k)
      PROVE  <<y, x>> \notin Nearer(q, k)
  BY <1>1, <1>2, <1>3, <1>4
<1>5. ASSUME NEW x \in Candidates, NEW y \in Candidates, NEW z \in Candidates,
             <<x, y>> \in Nearer(q, k)
      PROVE  <<x, z>> \in Nearer(q, k) \/ <<z, y>> \in Nearer(q, k)
  <2>1. PICK a, b, c, u, v, w :
          /\ a = Distance[k][x] /\ b = Distance[k][y] /\ c = Distance[k][z]
          /\ u = q.weight[x] /\ v = q.weight[y] /\ w = q.weight[z]
    OBVIOUS
  <2>2. /\ a \in Nat /\ b \in Nat /\ c \in Nat
        /\ u \in Nat \ {0} /\ v \in Nat \ {0} /\ w \in Nat \ {0}
    BY <1>1, <2>1
  <2>3. a * v < b * u
    BY <1>2, <1>5, <2>1
  <2>4. a * w < c * u \/ c * v < b * w
    <3>1. /\ a * w \in Int /\ c * u \in Int /\ c * v \in Int /\ b * w \in Int
          /\ a * v \in Int /\ b * u \in Int
      BY <2>2
    <3>2. c * u <= a * w /\ b * w <= c * v => b * u <= a * v
      BY <2>2, CrossProducts
    <3> QED
      BY <2>3, <3>1, <3>2
  <2> QED
    BY <1>2, <2>1, <2>4
<1> QED
  BY <1>4, <1>5 DEF Weak

----------------------------------------------------------------------------
(* The lists of the strategies.                                            *)

(* What the client affinity admits of a rule, in the order of the rule.    *)
LEMMA EligibleIs ==
  ASSUME NEW q \in Rules
  PROVE  /\ Lists(Eligible[q])
         /\ Range(Eligible[q]) = Range(q.list) \cap Admitted(q)
         /\ Arranges(Eligible[q], Range(q.list) \cap Admitted(q), Listed(q.list))
<1>1. Eligible[q] = Kept(q.list, Admitted(q))
  BY DEF Eligible
<1>2. Lists(q.list)
  BY RuleTypes
<1> QED
  BY <1>1, <1>2, KeptArranges DEF Arranges

(* A finite set has a member with the greatest value.                      *)
LEMMA Greatest ==
  ASSUME NEW S, IsFiniteSet(S), S # {}, NEW f, \A x \in S : f[x] \in Int
  PROVE  \E x \in S : \A y \in S : f[y] <= f[x]
<1>1. PICK X : X = {T \in SUBSET S : T # {} => \E x \in T : \A y \in T : f[y] <= f[x]}
  OBVIOUS
<1>2. {} \in X
  BY <1>1
<1>3. ASSUME NEW T \in SUBSET S, NEW x \in S \ T, T \in X PROVE T \cup {x} \in X
  <2>1. CASE T = {}
    BY <1>1, <2>1
  <2>2. CASE T # {}
    <3>1. PICK z \in T : \A y \in T : f[y] <= f[z]
      BY <1>1, <1>3, <2>2
    <3>2. CASE f[x] <= f[z]
      <4>1. \A y \in T \cup {x} : f[y] <= f[z]
        BY <3>1, <3>2
      <4> QED
        BY <1>1, <4>1
    <3>3. CASE ~(f[x] <= f[z])
      <4>1. \A y \in T \cup {x} : f[y] <= f[x]
        BY <3>1, <3>3
      <4> QED
        BY <1>1, <4>1
    <3> QED
      BY <3>2, <3>3
  <2> QED
    BY <2>1, <2>2
<1>4. S \in X
  BY <1>2, <1>3, FiniteInduction
<1> QED
  BY <1>1, <1>4

LEMMA TopPriorityIs ==
  ASSUME NEW q \in Rules, Range(Eligible[q]) # {}
  PROVE  /\ \E c \in Range(Eligible[q]) : q.priority[c] = TopPriority(q)
         /\ \A c \in Range(Eligible[q]) : q.priority[c] <= TopPriority(q)
<1>1. \A c \in Range(Eligible[q]) : q.priority[c] \in Int
  BY EligibleIs, PositionIs, RuleTypes
<1>2. IsFiniteSet(Range(Eligible[q]))
  BY EligibleIs, PositionIs
<1>3. \E c \in Range(Eligible[q]) : \A d \in Range(Eligible[q]) : q.priority[d] <= q.priority[c]
  BY <1>1, <1>2, Greatest
<1>4. PICK P : P = {q.priority[c] : c \in Range(Eligible[q])}
  OBVIOUS
<1>5. \E x \in P : \A y \in P : x >= y
  BY <1>1, <1>3, <1>4
<1>6. TopPriority(q) \in P /\ \A y \in P : TopPriority(q) >= y
  BY <1>4, <1>5 DEF TopPriority, Max
<1> QED
  BY <1>1, <1>4, <1>6

(* The candidates among which the first one is chosen.                     *)
LEMMA GroupIs ==
  ASSUME NEW q \in Rules, Range(Eligible[q]) # {}
  PROVE  /\ Lists(Group[q])
         /\ Range(Group[q]) \subseteq Range(Eligible[q]) /\ Range(Group[q]) # {}
         /\ q.strategy = "priority-weighted" =>
              \A c \in Range(Group[q]) : \A d \in Range(Eligible[q]) :
                q.priority[d] <= q.priority[c]
         /\ q.strategy # "priority-weighted" => Group[q] = Eligible[q]
<1>1. CASE q.strategy = "priority-weighted"
  <2>1. PICK s, T : /\ s = Sorted(Eligible[q], PriorThenHeavier(q))
                    /\ T = {c \in Candidates : q.priority[c] = TopPriority(q)}
    OBVIOUS
  <2>2. Weak(PriorThenHeavier(q), Candidates)
    BY HeavierWeak, PriorityThenWeak DEF PriorThenHeavier
  <2>3. Weak(PriorThenHeavier(q), Range(Eligible[q]))
    BY <2>2, EligibleIs, PositionIs, WeakInside
  <2>4. Lists(s) /\ Range(s) = Range(Eligible[q])
    BY <2>1, <2>3, EligibleIs, SortedArranges DEF Arranges
  <2>5. Group[q] = Kept(s, T)
    BY <1>1, <2>1 DEF Group
  <2>6. Lists(Group[q]) /\ Range(Group[q]) = Range(Eligible[q]) \cap T
    <3>1. Lists(Kept(s, T)) /\ Arranges(Kept(s, T), Range(s) \cap T, Listed(s))
      BY <2>4, KeptArranges
    <3>2. Range(Kept(s, T)) = Range(s) \cap T
      BY <3>1 DEF Arranges
    <3> QED
      BY <2>4, <2>5, <3>1, <3>2
  <2>7. Range(Eligible[q]) \subseteq Candidates
    BY EligibleIs, PositionIs
  <2>8. \A c \in Range(Group[q]) : q.priority[c] = TopPriority(q)
    BY <2>1, <2>6
  <2>9. \E c \in Range(Eligible[q]) : q.priority[c] = TopPriority(q)
    BY TopPriorityIs
  <2>10. Range(Group[q]) # {}
    BY <2>1, <2>6, <2>7, <2>9
  <2>11. \A d \in Range(Eligible[q]) : q.priority[d] <= TopPriority(q)
    BY TopPriorityIs
  <2> QED
    BY <1>1, <2>6, <2>8, <2>10, <2>11
<1>2. CASE q.strategy # "priority-weighted"
  BY <1>2, EligibleIs DEF Group
<1> QED
  BY <1>1, <1>2

(* Lists with two members or more are not empty.                           *)
LEMMA SomeEligible ==
  ASSUME NEW q \in Rules, Len(Eligible[q]) >= 2
  PROVE  Range(Eligible[q]) # {}
<1>1. Lists(Eligible[q])
  BY EligibleIs
<1>2. 1 \in 1 .. Len(Eligible[q])
  BY <1>1, PositionIs
<1> QED
  BY <1>1, <1>2, PositionIs

\* The weights of all groups.
Smooth == smooth \in [GroupKeys -> [Candidates -> Int]]

LEMMA GroupKeyTypes ==
  ASSUME NEW q \in Rules, Range(Eligible[q]) # {}
  PROVE  GroupKey(q) \in GroupKeys
<1>1. PICK c \in Range(Eligible[q]) : q.priority[c] = TopPriority(q)
  BY TopPriorityIs
<1>2. c \in Candidates
  BY EligibleIs, PositionIs
<1> QED
  BY <1>1, <1>2 DEF GroupKey, GroupKeys

LEMMA GainedTypes ==
  ASSUME Smooth, NEW q \in Rules, Range(Eligible[q]) # {}
  PROVE  Gained(q) \in [Candidates -> Int]
<1>1. smooth[GroupKey(q)] \in [Candidates -> Int]
  BY GroupKeyTypes DEF Smooth
<1> QED
  BY <1>1, RuleTypes DEF Gained

(* A richest member of the group leads.                                    *)
LEMMA LeaderIs ==
  ASSUME Smooth, NEW q \in Rules, Range(Eligible[q]) # {}
  PROVE  /\ SmoothLeader(q) \in Range(Group[q])
         /\ \A c \in Range(Group[q]) : Gained(q)[c] <= Gained(q)[SmoothLeader(q)]
<1>1. PICK s, g : s = Group[q] /\ g = Gained(q)
  OBVIOUS
<1>2. Lists(s) /\ Range(s) # {} /\ g \in [Candidates -> Int]
  BY <1>1, GroupIs, GainedTypes
<1>3. /\ DOMAIN s = 1 .. Len(s) /\ Len(s) \in Nat
      /\ \A i \in 1 .. Len(s) : s[i] \in Range(s) /\ g[s[i]] \in Int
      /\ \A c \in Range(s) : \E i \in 1 .. Len(s) : s[i] = c
      /\ \A c \in Range(s) : g[c] \in Int
      /\ IsFiniteSet(Range(s))
  BY <1>2, PositionIs DEF Lists
<1>4. PICK richest : richest = {i \in DOMAIN s : \A j \in DOMAIN s : g[s[j]] <= g[s[i]]}
  OBVIOUS
<1>5. richest # {} /\ richest \subseteq 1 .. Len(s)
  <2>1. PICK c \in Range(s) : \A d \in Range(s) : g[d] <= g[c]
    BY <1>2, <1>3, Greatest
  <2> QED
    BY <1>3, <1>4, <2>1
<1>6. \E i \in richest : \A j \in richest : i <= j
  <2>1. PICK minus : minus = [i \in richest |-> -i]
    OBVIOUS
  <2>2. IsFiniteSet(richest)
    <3>1. PICK n : n = Len(s)
      OBVIOUS
    <3>2. n \in Int
      BY <1>3, <3>1
    <3>3. IsFiniteSet(1 .. n)
      BY <3>2, FS_Interval
    <3> QED
      BY <1>5, <3>1, <3>3, FS_Subset
  <2>3. \A i \in richest : minus[i] \in Int /\ minus[i] = -i /\ i \in Int
    BY <1>3, <1>5, <2>1
  <2>4. PICK i \in richest : \A j \in richest : minus[j] <= minus[i]
    BY <1>5, <2>2, <2>3, Greatest
  <2> QED
    BY <2>3, <2>4
<1>7. Min(richest) \in richest
  BY <1>6 DEF Min
<1>8. SmoothLeader(q) = s[Min(richest)]
  BY <1>1, <1>4 DEF SmoothLeader
<1> QED
  BY <1>1, <1>3, <1>4, <1>5, <1>7, <1>8

(* A candidate put before the sorted rest of its list.                     *)
LEMMA RemainderIs ==
  ASSUME NEW s, Lists(s), NEW first \in Range(s), NEW before, Weak(before, Candidates)
  PROVE  LET r == Remainder(first, s, before)
         IN  /\ Lists(r) /\ Range(r) = Range(s) /\ Len(r) \in Nat /\ r[1] = first
             /\ \A i, j \in 1 .. Len(r) : 1 < i /\ i < j => <<r[j], r[i]>> \notin before
<1>1. PICK t : t = Kept(s, Candidates \ {first})
  OBVIOUS
<1>2. Lists(t) /\ Range(t) = Range(s) \cap (Candidates \ {first})
  <2>1. /\ Lists(Kept(s, Candidates \ {first}))
        /\ Arranges(Kept(s, Candidates \ {first}), Range(s) \cap (Candidates \ {first}), Listed(s))
    BY KeptArranges
  <2> QED
    BY <1>1, <2>1 DEF Arranges
<1>3. Range(s) \subseteq Candidates
  BY PositionIs
<1>4. Range(t) = Range(s) \ {first} /\ Range(t) \subseteq Candidates
  BY <1>2, <1>3
<1>5. Weak(before, Range(t))
  BY <1>4, WeakInside
<1>6. PICK u : u = Sorted(t, before)
  OBVIOUS
<1>7. Lists(u) /\ Range(u) = Range(s) \ {first}
  <2>1. Lists(Sorted(t, before)) /\ Arranges(Sorted(t, before), Range(t), Stable(t, before))
    BY <1>2, <1>5, SortedArranges
  <2> QED
    BY <1>4, <1>6, <2>1 DEF Arranges
<1>8. \A i, j \in 1 .. Len(u) : i < j => <<u[j], u[i]>> \notin before
  BY <1>2, <1>5, <1>6, SortedRespects
<1>9. PICK r : r = <<first>> \o u
  OBVIOUS
<1>10. Remainder(first, s, before) = r
  BY <1>1, <1>6, <1>9 DEF Remainder
<1>11. u \in Seq(Candidates) /\ IsInjective(u) /\ first \in Candidates
  BY <1>3, <1>7 DEF Lists
<1>12. /\ r \in Seq(Candidates) /\ Len(r) = Len(u) + 1 /\ Len(u) \in Nat
       /\ r[1] = first /\ \A i \in 2 .. Len(r) : r[i] = u[i - 1] /\ i - 1 \in 1 .. Len(u)
  BY <1>9, <1>11
<1>13. DOMAIN r = 1 .. Len(r) /\ DOMAIN u = 1 .. Len(u)
  BY <1>11, <1>12
<1>14. \A i \in 1 .. Len(r) : i = 1 \/ i \in 2 .. Len(r)
  BY <1>12
<1>15. \A i \in 2 .. Len(r) : r[i] \in Range(s) \ {first}
  BY <1>7, <1>12, PositionIs
<1>16. IsInjective(r)
  <2>1. SUFFICES ASSUME NEW i \in 1 .. Len(r), NEW j \in 1 .. Len(r), r[i] = r[j]
                 PROVE  i = j
    BY <1>13 DEF IsInjective
  <2>2. CASE i = 1 \/ j = 1
    BY <1>12, <1>14, <1>15, <2>1, <2>2
  <2>3. CASE i \in 2 .. Len(r) /\ j \in 2 .. Len(r)
    <3>1. u[i - 1] = u[j - 1] /\ i - 1 \in DOMAIN u /\ j - 1 \in DOMAIN u
      BY <1>12, <1>13, <2>1, <2>3
    <3>2. i - 1 = j - 1
      BY <1>11, <3>1 DEF IsInjective
    <3> QED
      BY <1>12, <2>3, <3>2
  <2> QED
    BY <1>14, <2>2, <2>3
<1>17. Range(r) = Range(s)
  <2>1. Range(r) = {r[i] : i \in 1 .. Len(r)}
    BY <1>13 DEF Range
  <2>2. \A i \in 1 .. Len(r) : r[i] \in Range(s)
    BY <1>12, <1>14, <1>15
  <2>3. ASSUME NEW c \in Range(s) PROVE \E i \in 1 .. Len(r) : r[i] = c
    <3>1. CASE c = first
      BY <1>12, <3>1
    <3>2. CASE c # first
      <4>1. PICK i \in 1 .. Len(u) : u[i] = c
        BY <1>7, <3>2, PositionIs
      <4>2. i + 1 \in 2 .. Len(r) /\ i + 1 \in 1 .. Len(r) /\ (i + 1) - 1 = i
        BY <1>12
      <4>3. r[i + 1] = c
        BY <1>12, <4>1, <4>2
      <4> QED
        BY <4>2, <4>3
    <3> QED
      BY <3>1, <3>2
  <2> QED
    BY <2>1, <2>2, <2>3
<1>18. ASSUME NEW i \in 1 .. Len(r), NEW j \in 1 .. Len(r), 1 < i, i < j
       PROVE  <<r[j], r[i]>> \notin before
  <2>1. i \in 2 .. Len(r) /\ j \in 2 .. Len(r) /\ i - 1 < j - 1
    BY <1>12, <1>18
  <2>2. r[i] = u[i - 1] /\ r[j] = u[j - 1] /\ i - 1 \in 1 .. Len(u) /\ j - 1 \in 1 .. Len(u)
    BY <1>12, <2>1
  <2> QED
    BY <1>8, <2>1, <2>2
<1>19. Lists(r) /\ Len(r) \in Nat
  BY <1>12, <1>16 DEF Lists
<1> QED
  BY <1>10, <1>12, <1>17, <1>18, <1>19

(* A list turned so that another member comes first.                       *)
LEMMA RotatedIs ==
  ASSUME NEW s, Lists(s), Len(s) > 0, NEW n \in Nat
  PROVE  LET r == Rotated(s, n)
         IN  /\ Lists(r) /\ Range(r) = Range(s)
             /\ (n % Len(s)) + 1 \in 1 .. Len(s)
             /\ r[1] = s[(n % Len(s)) + 1]
<1>1. PICK m : m = Len(s)
  OBVIOUS
<1>2. m \in Nat \ {0} /\ s \in Seq(Candidates) /\ IsInjective(s)
  BY <1>1 DEF Lists
<1>3. PICK b : b = n % m
  OBVIOUS
<1>4. b \in 0 .. m - 1
  BY <1>2, <1>3
<1>5. PICK r, u, v : r = u \o v /\ u = SubSeq(s, b + 1, m) /\ v = SubSeq(s, 1, b)
  OBVIOUS
<1>6. Rotated(s, n) = r
  BY <1>1, <1>3, <1>5 DEF Rotated
<1>7. /\ u \in Seq(Candidates) /\ Len(u) = m - b
      /\ \A i \in 1 .. m - b : u[i] = s[b + i]
  <2>1. b + 1 \in 1 .. m + 1 /\ m \in b + 1 - 1 .. m
    BY <1>2, <1>4
  <2> QED
    BY <1>1, <1>2, <1>4, <1>5, SubSeqProperties
<1>8. /\ v \in Seq(Candidates) /\ Len(v) = b
      /\ \A i \in 1 .. b : v[i] = s[i]
  BY <1>1, <1>2, <1>4, <1>5, SubSeqProperties
<1>9. /\ r \in Seq(Candidates) /\ Len(r) = m
      /\ \A i \in 1 .. m : r[i] = IF i <= m - b THEN u[i] ELSE v[i - (m - b)]
  BY <1>2, <1>4, <1>5, <1>7, <1>8, ConcatProperties
<1>10. \A i \in 1 .. m : r[i] = s[IF i <= m - b THEN b + i ELSE i - (m - b)]
  <2>1. ASSUME NEW i \in 1 .. m, i <= m - b PROVE r[i] = s[b + i]
    BY <1>2, <1>4, <1>7, <1>9, <2>1
  <2>2. ASSUME NEW i \in 1 .. m, ~(i <= m - b) PROVE r[i] = s[i - (m - b)]
    <3>1. i - (m - b) \in 1 .. b
      BY <1>2, <1>4, <2>2
    <3> QED
      BY <1>8, <1>9, <2>2, <3>1
  <2> QED
    BY <2>1, <2>2
<1>11. PICK at : at = [i \in 1 .. m |-> IF i <= m - b THEN b + i ELSE i - (m - b)]
  OBVIOUS
<1>12. /\ \A i \in 1 .. m : at[i] \in 1 .. m /\ r[i] = s[at[i]]
       /\ \A i, j \in 1 .. m : at[i] = at[j] => i = j
  BY <1>2, <1>4, <1>10, <1>11
<1>13. DOMAIN r = 1 .. m /\ DOMAIN s = 1 .. m
  BY <1>1, <1>2, <1>9
<1>14. IsInjective(r)
  <2>1. SUFFICES ASSUME NEW i \in 1 .. m, NEW j \in 1 .. m, r[i] = r[j]
                 PROVE  i = j
    BY <1>13 DEF IsInjective
  <2>2. at[i] = at[j]
    BY <1>2, <1>12, <1>13, <2>1 DEF IsInjective
  <2> QED
    BY <1>12, <2>2
<1>15. Range(r) = Range(s)
  <2>1. Range(r) = {r[i] : i \in 1 .. m} /\ Range(s) = {s[i] : i \in 1 .. m}
    BY <1>13 DEF Range
  <2>2. ASSUME NEW i \in 1 .. m PROVE \E j \in 1 .. m : at[j] = i
    <3>1. CASE i > b
      <4>1. i - b \in 1 .. m /\ at[i - b] = i
        BY <1>2, <1>4, <1>11, <3>1
      <4> QED
        BY <4>1
    <3>2. CASE ~(i > b)
      <4>1. i + (m - b) \in 1 .. m /\ at[i + (m - b)] = i
        BY <1>2, <1>4, <1>11, <3>2
      <4> QED
        BY <4>1
    <3> QED
      BY <3>1, <3>2
  <2>3. \A i \in 1 .. m : \E j \in 1 .. m : r[j] = s[i]
    BY <1>12, <2>2
  <2>4. \A i \in 1 .. m : \E j \in 1 .. m : r[i] = s[j]
    BY <1>12
  <2> QED
    BY <2>1, <2>3, <2>4
<1>16. b + 1 \in 1 .. m /\ r[1] = s[b + 1]
  <2>1. 1 \in 1 .. m /\ 1 <= m - b /\ b + 1 \in 1 .. m
    BY <1>2, <1>4
  <2> QED
    BY <1>10, <2>1
<1> QED
  BY <1>1, <1>3, <1>6, <1>9, <1>14, <1>15, <1>16 DEF Lists

(* Whatever the shared state, an order has every eligible candidate once,  *)
(* and in the order of the priorities where the strategy has some.         *)
LEMMA OrderIs ==
  ASSUME Smooth, rr \in Nat, NEW q \in Rules, NEW k \in StickyKeys
  PROVE  LET o == Order(q, k)
         IN  /\ Lists(o) /\ Range(o) = Range(Eligible[q]) /\ Len(o) \in Nat
             /\ q.strategy \in {"priority-weighted", "sticky"} =>
                  \A i, j \in 1 .. Len(o) : i < j => q.priority[o[i]] >= q.priority[o[j]]
<1>1. PICK s : s = Eligible[q]
  OBVIOUS
<1>2. Lists(s) /\ Len(s) \in Nat /\ Range(s) \subseteq Candidates
  BY <1>1, EligibleIs, PositionIs
<1>3. q.strategy \in Strategies /\ q.priority \in [Candidates -> Int]
  BY RuleTypes
<1>4. PICK o : o = Order(q, k)
  OBVIOUS
<1>5. SUFFICES /\ Lists(o) /\ Range(o) = Range(s)
               /\ q.strategy \in {"priority-weighted", "sticky"} =>
                    \A i, j \in 1 .. Len(o) : i < j => q.priority[o[i]] >= q.priority[o[j]]
  BY <1>1, <1>4, PositionIs
<1>6. CASE Len(s) < 2 \/ q.strategy = "ordered"
  <2>1. o = s
    <3>1. Len(s) < 2 => ~(Len(s) >= 2)
      BY <1>2
    <3> QED
      BY <1>1, <1>4, <1>6, <3>1 DEF Order
  <2>2. Len(s) < 2 => \A i, j \in 1 .. Len(s) : ~(i < j)
    BY <1>2
  <2> QED
    BY <1>2, <1>6, <2>1, <2>2
<1>7. CASE Len(s) >= 2 /\ q.strategy = "round-robin"
  <2>1. o = Rotated(s, rr)
    BY <1>1, <1>2, <1>4, <1>7 DEF Order
  <2>2. Len(s) > 0
    BY <1>2, <1>7
  <2>3. Lists(Rotated(s, rr)) /\ Range(Rotated(s, rr)) = Range(s)
    BY <1>2, <2>2, RotatedIs
  <2> QED
    BY <1>7, <2>1, <2>3
<1>8. ASSUME Len(s) >= 2, Weighted(q)
      PROVE  /\ SmoothLeader(q) \in Range(Group[q]) /\ SmoothLeader(q) \in Range(s)
             /\ q.strategy = "priority-weighted" =>
                  \A d \in Range(s) : q.priority[d] <= q.priority[SmoothLeader(q)]
  <2>1. Range(Eligible[q]) # {}
    BY <1>1, <1>8, SomeEligible
  <2> QED
    BY <1>1, <2>1, GroupIs, LeaderIs
<1>9. CASE Len(s) >= 2 /\ q.strategy = "weighted-round-robin"
  <2>1. o = Remainder(SmoothLeader(q), s, Heavier(q))
    BY <1>1, <1>2, <1>4, <1>9 DEF Order
  <2>2. SmoothLeader(q) \in Range(s)
    BY <1>8, <1>9 DEF Weighted
  <2>3. Lists(o) /\ Range(o) = Range(s)
    BY <1>2, <2>1, <2>2, HeavierWeak, RemainderIs
  <2> QED
    BY <1>9, <2>3
<1>10. CASE Len(s) >= 2 /\ q.strategy = "priority-weighted"
  <2>1. PICK leader : leader = SmoothLeader(q)
    OBVIOUS
  <2>2. o = Remainder(leader, s, PriorThenHeavier(q))
    BY <1>1, <1>2, <1>4, <1>10, <2>1 DEF Order
  <2>3. /\ leader \in Range(s)
        /\ \A d \in Range(s) : q.priority[d] <= q.priority[leader]
    BY <1>8, <1>10, <2>1 DEF Weighted
  <2>4. Weak(PriorThenHeavier(q), Candidates)
    BY HeavierWeak, PriorityThenWeak DEF PriorThenHeavier
  <2>5. /\ Lists(o) /\ Range(o) = Range(s) /\ Len(o) \in Nat /\ o[1] = leader
        /\ \A i, j \in 1 .. Len(o) : 1 < i /\ i < j => <<o[j], o[i]>> \notin PriorThenHeavier(q)
    BY <1>2, <2>2, <2>3, <2>4, RemainderIs
  <2>6. \A i \in 1 .. Len(o) : o[i] \in Range(s) /\ o[i] \in Candidates /\ q.priority[o[i]] \in Int
    BY <1>3, <2>5, PositionIs
  <2>7. ASSUME NEW i \in 1 .. Len(o), NEW j \in 1 .. Len(o), i < j
        PROVE  q.priority[o[i]] >= q.priority[o[j]]
    <3>1. CASE i = 1
      BY <2>3, <2>5, <2>6, <3>1
    <3>2. CASE i # 1
      <4>1. 1 < i
        BY <2>5, <3>2
      <4>2. <<o[j], o[i]>> \notin PriorThenHeavier(q)
        BY <2>5, <2>7, <4>1
      <4>3. ~(q.priority[o[j]] > q.priority[o[i]])
        BY <2>6, <4>2 DEF PriorThenHeavier, PriorityThen, Pairs
      <4> QED
        BY <2>6, <4>3
    <3> QED
      BY <3>1, <3>2
  <2> QED
    BY <2>5, <2>7
<1>11. CASE Len(s) >= 2 /\ q.strategy = "sticky"
  <2>1. PICK R : R = PriorityThen(q, Nearer(q, k))
    OBVIOUS
  <2>2. o = Sorted(s, R)
    <3>1. StickyOrder[q][k] = Sorted(s, R)
      BY <1>1, <2>1 DEF StickyOrder
    <3>2. ~(Len(s) < 2)
      BY <1>2, <1>11
    <3> QED
      BY <1>1, <1>4, <1>11, <3>1, <3>2 DEF Order
  <2>3. Weak(R, Range(s))
    BY <1>2, <2>1, NearerWeak, PriorityThenWeak, WeakInside
  <2>4. Lists(o) /\ Range(o) = Range(s)
    <3>1. Lists(Sorted(s, R)) /\ Arranges(Sorted(s, R), Range(s), Stable(s, R))
      BY <1>2, <2>3, SortedArranges
    <3> QED
      BY <2>2, <3>1 DEF Arranges
  <2>5. ASSUME NEW i \in 1 .. Len(o), NEW j \in 1 .. Len(o), i < j
        PROVE  q.priority[o[i]] >= q.priority[o[j]]
    <3>1. <<o[j], o[i]>> \notin R
      BY <1>2, <2>2, <2>3, <2>5, SortedRespects
    <3>2. o[i] \in Candidates /\ o[j] \in Candidates
      BY <2>4, PositionIs
    <3>3. q.priority[o[i]] \in Int /\ q.priority[o[j]] \in Int
      BY <1>3, <3>2
    <3>4. ~(q.priority[o[j]] > q.priority[o[i]])
      BY <2>1, <3>1, <3>2 DEF PriorityThen, Pairs
    <3> QED
      BY <3>3, <3>4
  <2> QED
    BY <2>4, <2>5
<1> QED
  BY <1>2, <1>3, <1>6, <1>7, <1>9, <1>10, <1>11 DEF Strategies

----------------------------------------------------------------------------
(* The types of the state.                                                 *)

RankingTypes ==
  /\ rule \in Rules
  /\ rr \in Nat
  /\ Smooth
  /\ copy \in [Requests -> Rules \cup {None}]

(* What a turn of the smooth weights leaves.                               *)
LEMMA PaidTypes ==
  ASSUME Smooth, NEW q \in Rules, Range(Eligible[q]) # {}
  PROVE  /\ TotalWeight(q) \in Int
         /\ Paid(q) = [c \in Candidates |->
              IF c = SmoothLeader(q) THEN Gained(q)[c] - TotalWeight(q) ELSE Gained(q)[c]]
         /\ Paid(q) \in [Candidates -> Int]
<1>1. Lists(Group[q]) /\ Range(Group[q]) \subseteq Range(Eligible[q])
  BY GroupIs
<1>2. IsFiniteSet(Range(Group[q])) /\ Range(Group[q]) \subseteq Candidates
  BY <1>1, PositionIs
<1>3. \A c \in Range(Group[q]) : q.weight[c] \in Int
  BY <1>2, RuleTypes
<1>4. TotalWeight(q) \in Int
  BY <1>2, <1>3, SumRemoves DEF TotalWeight
<1>5. Gained(q) \in [Candidates -> Int]
  BY GainedTypes
<1>6. Paid(q) = [c \in Candidates |->
              IF c = SmoothLeader(q) THEN Gained(q)[c] - TotalWeight(q) ELSE Gained(q)[c]]
  BY <1>5 DEF Paid
<1> QED
  BY <1>4, <1>5, <1>6

LEMMA InitTypes == Init => RankingTypes
  BY DEF Init, RankingTypes, Smooth

LEMMA NextTypes == RankingTypes /\ [Next]_vars => RankingTypes'
<1>1. SUFFICES ASSUME RankingTypes, [Next]_vars PROVE RankingTypes'
  OBVIOUS
<1>2. CounterSize \in Nat \ {0} /\ None \notin Rules
  BY RankingAssumption
<1>3. ASSUME NEW r \in Requests, Plan(r) PROVE RankingTypes'
  BY <1>1, <1>3 DEF Plan, RankingTypes, Smooth
<1>4. ASSUME NEW r \in Requests, Rank(r) PROVE RankingTypes'
  <2>1. PICK q : q = copy[r]
    OBVIOUS
  <2>2. PICK k \in StickyKeys :
          /\ q # None
          /\ copy' = [copy EXCEPT ![r] = None]
          /\ rr' = IF q.strategy = "round-robin" /\ Len(Eligible[q]) >= 2 THEN NextTurn ELSE rr
          /\ smooth' = IF Weighted(q) /\ Len(Eligible[q]) >= 2
                         THEN [smooth EXCEPT ![GroupKey(q)] = Paid(q)]
                         ELSE smooth
          /\ UNCHANGED rule
    BY <1>4, <2>1 DEF Rank
  <2>3. q \in Rules
    BY <1>1, <2>1, <2>2 DEF RankingTypes
  <2>4. rr' \in Nat
    <3>1. NextTurn \in Nat
      BY <1>1, <1>2 DEF NextTurn, RankingTypes
    <3> QED
      BY <1>1, <2>2, <3>1 DEF RankingTypes
  <2>5. Smooth'
    <3>1. CASE Weighted(q) /\ Len(Eligible[q]) >= 2
      <4>1. Range(Eligible[q]) # {}
        BY <2>3, <3>1, SomeEligible
      <4>2. Paid(q) \in [Candidates -> Int]
        BY <1>1, <2>3, <4>1, PaidTypes DEF RankingTypes
      <4> QED
        BY <1>1, <2>2, <3>1, <4>2 DEF RankingTypes, Smooth
    <3>2. CASE ~(Weighted(q) /\ Len(Eligible[q]) >= 2)
      BY <1>1, <2>2, <3>2 DEF RankingTypes, Smooth
    <3> QED
      BY <3>1, <3>2
  <2>6. copy' \in [Requests -> Rules \cup {None}]
    BY <1>1, <2>2 DEF RankingTypes
  <2> QED
    BY <1>1, <2>2, <2>4, <2>5, <2>6 DEF RankingTypes
<1>5. ASSUME NEW new \in Rules, Edit(new) PROVE RankingTypes'
  BY <1>1, <1>5 DEF Edit, RankingTypes, Smooth
<1>6. ASSUME NEW new \in Rules, Reload(new) PROVE RankingTypes'
  BY <1>1, <1>6 DEF Reload, RankingTypes, Smooth
<1>7. CASE UNCHANGED vars
  BY <1>1, <1>7 DEF vars, RankingTypes, Smooth
<1> QED
  BY <1>1, <1>3, <1>4, <1>5, <1>6, <1>7 DEF Next

----------------------------------------------------------------------------

(* What rankCandidatesV4 returns is an order of exactly the candidates the *)
(* affinity admits, each once, and under priority-weighted and sticky      *)
(* never a candidate before one of a higher priority, whatever requests    *)
(* and edits left in the shared state.                                     *)
THEOREM OrdersAreSound == Spec => []SoundOrder
<1>1. Init => SoundOrder
  BY DEF Init, SoundOrder, RanksEachOnce, PriorityFirst
<1>2. RankingTypes /\ SoundOrder /\ [Next]_vars => SoundOrder'
  <2>1. SUFFICES ASSUME RankingTypes, SoundOrder, [Next]_vars PROVE SoundOrder'
    OBVIOUS
  <2>2. CASE UNCHANGED last
    BY <2>1, <2>2 DEF SoundOrder, RanksEachOnce, PriorityFirst
  <2>3. ASSUME NEW r \in Requests, Rank(r) PROVE SoundOrder'
    <3>1. PICK q : q = copy[r]
      OBVIOUS
    <3>2. PICK k \in StickyKeys : q # None /\ last' = [rule |-> q, order |-> Order(q, k)]
      BY <2>3, <3>1 DEF Rank
    <3>3. q \in Rules /\ Smooth /\ rr \in Nat
      BY <2>1, <3>1, <3>2 DEF RankingTypes
    <3>4. PICK o : o = Order(q, k)
      OBVIOUS
    <3>5. /\ Lists(o) /\ Range(o) = Range(Eligible[q]) /\ Len(o) \in Nat
          /\ q.strategy \in {"priority-weighted", "sticky"} =>
               \A i, j \in 1 .. Len(o) : i < j => q.priority[o[i]] >= q.priority[o[j]]
      BY <3>3, <3>4, OrderIs
    <3>6. DOMAIN o = 1 .. Len(o) /\ IsInjective(o)
      BY <3>5 DEF Lists
    <3>7. last'.rule = q /\ last'.order = o
      BY <3>2, <3>4
    <3>8. RanksEachOnce'
      BY <3>5, <3>6, <3>7 DEF RanksEachOnce
    <3>9. PriorityFirst'
      BY <3>5, <3>6, <3>7 DEF PriorityFirst
    <3> QED
      BY <3>8, <3>9 DEF SoundOrder
  <2> QED
    BY <2>1, <2>2, <2>3 DEF Next, Plan, Edit, Reload, vars
<1> QED
  BY <1>1, <1>2, InitTypes, NextTypes, PTL DEF Spec

----------------------------------------------------------------------------
(* Sessions and edits.                                                     *)

(* To come before in a list is to have an earlier position.                *)
LEMMA PositionPrecedes ==
  ASSUME NEW s, Lists(s), NEW c \in Range(s), NEW d \in Range(s)
  PROVE  Precedes(s, c, d) <=> Position(s, c) < Position(s, d)
<1>1. /\ DOMAIN s = 1 .. Len(s)
      /\ Position(s, c) \in 1 .. Len(s) /\ s[Position(s, c)] = c
      /\ Position(s, d) \in 1 .. Len(s) /\ s[Position(s, d)] = d
      /\ \A i \in 1 .. Len(s) : Position(s, s[i]) = i
  BY PositionIs DEF Lists
<1> QED
  BY <1>1 DEF Precedes

(* Of two members of an arrangement, the relation tells which comes first. *)
LEMMA ArrangedPrecedes ==
  ASSUME NEW S, NEW R, Total(R, S), NEW s, Lists(s), Arranges(s, S, R),
         NEW c \in S, NEW d \in S
  PROVE  Precedes(s, c, d) <=> <<c, d>> \in R
<1>1. /\ DOMAIN s = 1 .. Len(s) /\ Len(s) \in Nat
      /\ \A x \in S : Position(s, x) \in 1 .. Len(s) /\ s[Position(s, x)] = x
      /\ \A i, j \in 1 .. Len(s) : i < j => <<s[i], s[j]>> \in R
  BY PositionIs DEF Lists, Arranges
<1>2. ASSUME Precedes(s, c, d) PROVE <<c, d>> \in R
  BY <1>1, <1>2 DEF Precedes
<1>3. ASSUME <<c, d>> \in R PROVE Precedes(s, c, d)
  <2>1. PICK i \in 1 .. Len(s), j \in 1 .. Len(s) : s[i] = c /\ s[j] = d
    BY <1>1
  <2>2. <<d, c>> \notin R
    BY <1>3 DEF Total
  <2>3. ~(i = j)
    BY <1>3, <2>1, <2>2
  <2>4. ~(j < i)
    BY <1>1, <2>1, <2>2
  <2>5. i < j
    BY <1>1, <2>3, <2>4
  <2> QED
    BY <1>1, <2>1, <2>5 DEF Precedes
<1> QED
  BY <1>2, <1>3

(* The order of a session: the nearer one first and, between equals, the   *)
(* one earlier in the rule.                                                *)
LEMMA StickyPrecedes ==
  ASSUME NEW q \in Rules, NEW k \in StickyKeys,
         NEW c \in Range(Eligible[q]), NEW d \in Range(Eligible[q])
  PROVE  Precedes(StickyOrder[q][k], c, d) <=>
           \/ <<c, d>> \in PriorityThen(q, Nearer(q, k))
           \/ /\ <<d, c>> \notin PriorityThen(q, Nearer(q, k))
              /\ Precedes(q.list, c, d)
<1>1. PICK s, R, l : /\ s = Eligible[q] /\ R = PriorityThen(q, Nearer(q, k))
                     /\ l = q.list
  OBVIOUS
<1>2. /\ Lists(s) /\ Lists(l)
      /\ Range(s) = Range(l) \cap Admitted(q) /\ Arranges(s, Range(s), Listed(l))
      /\ Range(s) \subseteq Candidates
  BY <1>1, EligibleIs, RuleTypes, PositionIs
<1>3. Weak(R, Range(s))
  BY <1>1, <1>2, NearerWeak, PriorityThenWeak, WeakInside
<1>4. PICK o : o = Sorted(s, R)
  OBVIOUS
<1>5. StickyOrder[q][k] = o
  BY <1>1, <1>4 DEF StickyOrder
<1>6. Lists(o) /\ Arranges(o, Range(s), Stable(s, R)) /\ Total(Stable(s, R), Range(s))
  BY <1>2, <1>3, <1>4, SortedArranges
<1>7. Precedes(o, c, d) <=> <<c, d>> \in Stable(s, R)
  BY <1>1, <1>6, ArrangedPrecedes
<1>8. <<c, d>> \in Stable(s, R) <=>
        \/ <<c, d>> \in R
        \/ <<d, c>> \notin R /\ Position(s, c) < Position(s, d)
  BY <1>1 DEF Stable
<1>9. Total(Listed(l), Range(s))
  BY <1>2, KeptArranges
<1>10. Position(s, c) < Position(s, d) <=> Precedes(s, c, d)
  BY <1>1, <1>2, PositionPrecedes
<1>11. Precedes(s, c, d) <=> <<c, d>> \in Listed(l)
  BY <1>1, <1>2, <1>9, ArrangedPrecedes
<1>12. c \in Range(l) /\ d \in Range(l)
  BY <1>1, <1>2
<1>13. <<c, d>> \in Listed(l) <=> Position(l, c) < Position(l, d)
  BY <1>12 DEF Listed
<1>14. Precedes(l, c, d) <=> Position(l, c) < Position(l, d)
  BY <1>2, <1>12, PositionPrecedes
<1> QED
  BY <1>1, <1>5, <1>7, <1>8, <1>10, <1>11, <1>13, <1>14

(* What places two candidates of a session is theirs alone.                *)
LEMMA SamePlaces ==
  ASSUME NEW q \in Rules, NEW p \in Rules, NEW k \in StickyKeys,
         NEW c \in Candidates, NEW d \in Candidates,
         q.weight[c] = p.weight[c], q.priority[c] = p.priority[c],
         q.weight[d] = p.weight[d], q.priority[d] = p.priority[d]
  PROVE  <<c, d>> \in PriorityThen(q, Nearer(q, k)) <=>
           <<c, d>> \in PriorityThen(p, Nearer(p, k))
<1>1. <<c, d>> \in Nearer(q, k) <=> <<c, d>> \in Nearer(p, k)
  BY DEF Nearer, Pairs
<1> QED
  BY <1>1 DEF PriorityThen, Pairs

(* An edit of a sticky rule moves only sessions of the candidates it       *)
(* touches: for every session the others stay in the order they had.       *)
THEOREM EditsMoveLittle == Spec => StickyMovesLittle
<1>1. ASSUME NEW q \in Rules, NEW p \in Rules PROVE MovesLittle(q, p)
  <2>1. SUFFICES ASSUME NEW k \in StickyKeys,
                        NEW c \in Untouched(q, p), NEW d \in Untouched(q, p),
                        Precedes(StickyOrder[q][k], c, d), Settled(q, p, k, c, d)
                 PROVE  Precedes(StickyOrder[p][k], c, d)
    BY DEF MovesLittle
  <2>2. PICK R, T : R = PriorityThen(q, Nearer(q, k)) /\ T = PriorityThen(p, Nearer(p, k))
    OBVIOUS
  <2>3. /\ c \in Range(Eligible[q]) /\ c \in Range(Eligible[p])
        /\ d \in Range(Eligible[q]) /\ d \in Range(Eligible[p])
        /\ q.weight[c] = p.weight[c] /\ q.priority[c] = p.priority[c]
        /\ q.weight[d] = p.weight[d] /\ q.priority[d] = p.priority[d]
    BY DEF Untouched
  <2>4. c \in Candidates /\ d \in Candidates
    BY <2>3, EligibleIs, PositionIs
  <2>5. (<<c, d>> \in R <=> <<c, d>> \in T) /\ (<<d, c>> \in R <=> <<d, c>> \in T)
    BY <2>2, <2>3, <2>4, SamePlaces
  <2>6. <<c, d>> \in R \/ (<<d, c>> \notin R /\ Precedes(q.list, c, d))
    BY <2>1, <2>2, <2>3, StickyPrecedes
  <2>7. <<c, d>> \in T \/ (<<d, c>> \notin T /\ Precedes(p.list, c, d))
    BY <2>1, <2>2, <2>5, <2>6 DEF Settled
  <2> QED
    BY <2>2, <2>3, <2>7, StickyPrecedes
<1>2. RankingTypes /\ RankingTypes' => rule \in Rules /\ rule' \in Rules
  BY DEF RankingTypes
<1>3. RankingTypes /\ [Next]_vars =>
        [rule.strategy = "sticky" /\ rule'.strategy = "sticky" => MovesLittle(rule, rule')]_vars
  BY <1>1, <1>2, NextTypes
<1> QED
  BY <1>3, InitTypes, NextTypes, PTL DEF Spec, StickyMovesLittle

----------------------------------------------------------------------------
(* Turns of a list of n.                                                   *)

LEMMA Remainders ==
  ASSUME NEW a \in Nat, NEW n \in Nat \ {0}
  PROVE  \E m \in Nat, r \in 0 .. n - 1 : a = m * n + r /\ a % n = r
<1>1. PICK X : X = {b \in Nat : \E m \in Nat, r \in 0 .. n - 1 : b = m * n + r}
  OBVIOUS
<1>2. 0 \in X
  <2>1. 0 * n = 0 /\ 0 \in 0 .. n - 1
    OBVIOUS
  <2> QED
    BY <1>1, <2>1
<1>3. ASSUME NEW b \in Nat, b \in X PROVE b + 1 \in X
  <2>1. PICK m \in Nat, r \in 0 .. n - 1 : b = m * n + r
    BY <1>1, <1>3
  <2>2. CASE r = n - 1
    <3>1. PICK w, z : w = m + 1 /\ z = 0
      OBVIOUS
    <3>2. b + 1 = w * n + z /\ w \in Nat /\ z \in 0 .. n - 1
      BY <2>1, <2>2, <3>1
    <3> QED
      BY <1>1, <3>2
  <2>3. CASE r # n - 1
    <3>1. r + 1 \in 0 .. n - 1
      BY <2>3
    <3>2. PICK p : p = m * n
      OBVIOUS
    <3>3. p \in Int
      BY <3>2
    <3>4. b + 1 = p + (r + 1)
      BY <2>1, <3>2, <3>3
    <3> QED
      BY <1>1, <3>1, <3>2, <3>4
  <2> QED
    BY <2>2, <2>3
<1>4. a \in X
  BY <1>2, <1>3, SetInduction
<1>5. PICK m \in Nat, r \in 0 .. n - 1 : a = m * n + r
  BY <1>1, <1>4
<1>6. (m * n + r) % n = r
  <2>1. \A x \in Nat : (x * n + r) % n = r
    OBVIOUS
  <2> QED
    BY <2>1
<1>7. a % n = r
  BY <1>5, <1>6
<1> QED
  BY <1>5, <1>7

(* Two turns of the same member are a round apart.                         *)
LEMMA RoundApart ==
  ASSUME NEW n \in Nat \ {0}, NEW a \in Nat, NEW b \in Nat, a < b, a % n = b % n
  PROVE  b - a >= n
<1>1. PICK x \in Nat, r \in 0 .. n - 1 : a = x * n + r /\ a % n = r
  BY Remainders
<1>2. PICK y \in Nat, z \in 0 .. n - 1 : b = y * n + z /\ b % n = z
  BY Remainders
<1>3. z = r
  BY <1>1, <1>2
<1>4. r \in Int /\ a = x * n + r /\ b = y * n + r
  BY <1>1, <1>2, <1>3
<1>5. PICK d \in Int : d = y - x
  OBVIOUS
<1>6. b - a = d * n
  BY <1>4, <1>5
<1>7. d >= 1
  <2>1. \A e \in Int : e <= 0 => e * n <= 0
    OBVIOUS
  <2> QED
    BY <1>5, <1>6, <2>1
<1>8. \A e \in Int : e >= 1 => e * n >= n
  OBVIOUS
<1> QED
  BY <1>5, <1>6, <1>7, <1>8

(* In a round every member has its turn.                                   *)
LEMMA RoundComplete ==
  ASSUME NEW n \in Nat \ {0}, NEW a \in Nat, NEW i \in 0 .. n - 1
  PROVE  \E turn \in a .. a + n - 1 : turn % n = i
<1>1. PICK x \in Nat, r \in 0 .. n - 1 : a = x * n + r
  BY Remainders
<1>2. \A m \in Nat : (m * n + i) % n = i
  OBVIOUS
<1>3. CASE r <= i
  <2>1. PICK t : t = x * n + i
    OBVIOUS
  <2>2. t \in a .. a + n - 1
    BY <1>1, <1>3, <2>1
  <2> QED
    BY <1>2, <2>1, <2>2
<1>4. CASE ~(r <= i)
  <2>1. PICK t : t = (x + 1) * n + i
    OBVIOUS
  <2>2. (x + 1) * n = x * n + n
    OBVIOUS
  <2>3. t \in a .. a + n - 1
    BY <1>1, <1>4, <2>1, <2>2
  <2>4. x + 1 \in Nat
    BY <1>1
  <2> QED
    BY <1>2, <2>1, <2>3, <2>4
<1> QED
  BY <1>3, <1>4

----------------------------------------------------------------------------
(* Smooth weights: v is what the members of G stand at, w their weights.   *)

\* Nobody owes a whole turn, and what some are owed the others owe.
Balanced(v, w, G) ==
  /\ \A c \in G : v[c] > -Sum(w, G)
  /\ Sum(v, G) = 0

LEMMA SumZero ==
  ASSUME NEW G, IsFiniteSet(G)
  PROVE  Sum([c \in G |-> 0], G) = 0
<1>1. PICK zero, n : zero = [c \in G |-> 0] /\ n = Cardinality(G)
  OBVIOUS
<1>2. \A c \in G : zero[c] = 0
  BY <1>1
<1>3. n \in Int
  BY <1>1, FS_CardinalityType
<1>4. Sum(zero, G) = 0 * n
  BY <1>1, <1>2, SumConstant
<1> QED
  BY <1>1, <1>3, <1>4

(* The weights of a group that has a member add up to something.           *)
LEMMA SumPositive ==
  ASSUME NEW G, IsFiniteSet(G), NEW w, \A c \in G : w[c] \in Nat \ {0}, G # {}
  PROVE  Sum(w, G) \in Int /\ Sum(w, G) > 0
<1>1. PICK W, zero : W = Sum(w, G) /\ zero = [c \in G |-> 0]
  OBVIOUS
<1>2. \A c \in G : zero[c] \in Int /\ w[c] \in Int /\ zero[c] <= w[c] /\ zero[c] # w[c]
  BY <1>1
<1>3. W \in Int
  BY <1>1, <1>2, SumRemoves
<1>4. Sum(zero, G) = 0
  BY <1>1, SumZero
<1>5. 0 <= W /\ (0 = W => \A c \in G : zero[c] = w[c])
  BY <1>1, <1>2, <1>4, SumAtMost
<1> QED
  BY <1>1, <1>2, <1>3, <1>5

(* A turn: all gain their weight, one that stands highest pays for all.    *)
LEMMA TurnBalances ==
  ASSUME NEW G, IsFiniteSet(G), NEW v, NEW w, NEW g, NEW p, NEW first \in G,
         \A c \in G : v[c] \in Int, \A c \in G : w[c] \in Nat \ {0},
         Balanced(v, w, G),
         \A c \in G : g[c] = v[c] + w[c],
         \A c \in G : g[c] <= g[first],
         p[first] = g[first] - Sum(w, G), \A c \in G \ {first} : p[c] = g[c]
  PROVE  Balanced(p, w, G)
<1>1. PICK W : W = Sum(w, G)
  OBVIOUS
<1>2. \A c \in G : w[c] \in Int
  OBVIOUS
<1>3. W \in Int
  BY <1>1, <1>2, SumRemoves
<1>4. Sum(v, G) = 0 /\ \A c \in G : v[c] > -W
  BY <1>1 DEF Balanced
<1>5. \A c \in G : g[c] \in Int
  OBVIOUS
<1>6. Sum(g, G) = W
  <2>1. \A c \in G : v[c] \in Int /\ w[c] \in Int /\ g[c] = v[c] + w[c]
    OBVIOUS
  <2>2. Sum(g, G) = Sum(v, G) + Sum(w, G)
    BY <2>1, SumAdds
  <2> QED
    BY <1>1, <1>3, <1>4, <2>2
<1>7. PICK zero : zero = [c \in G |-> 0]
  OBVIOUS
<1>8. Sum(zero, G) = 0
  BY <1>7, SumZero
<1>9. W > 0
  BY <1>1, SumPositive
<1>10. g[first] > 0
  <2>1. SUFFICES ASSUME g[first] <= 0 PROVE FALSE
    BY <1>5
  <2>2. \A c \in G : g[c] \in Int /\ zero[c] \in Int /\ g[c] <= zero[c]
    BY <1>5, <1>7, <2>1
  <2>3. Sum(g, G) <= Sum(zero, G)
    BY <2>2, SumAtMost
  <2> QED
    BY <1>3, <1>6, <1>8, <1>9, <2>3
<1>11. \A c \in G : p[c] > -W
  <2>1. ASSUME NEW c \in G, c # first PROVE p[c] > -W
    <3>1. p[c] = v[c] + w[c] /\ v[c] \in Int /\ w[c] \in Nat /\ v[c] > -W
      BY <1>4, <2>1
    <3> QED
      BY <1>3, <3>1
  <2>2. p[first] > -W
    BY <1>1, <1>3, <1>5, <1>10
  <2> QED
    BY <2>1, <2>2
<1>12. Sum(p, G) = 0
  <2>1. PICK d : d = -W
    OBVIOUS
  <2>2. d \in Int /\ p[first] = g[first] + d
    BY <1>1, <1>3, <1>5, <2>1
  <2>3. Sum(p, G) = Sum(g, G) + d
    BY <1>5, <2>2, SumChanges
  <2> QED
    BY <1>3, <1>6, <2>1, <2>3
<1> QED
  BY <1>1, <1>11, <1>12 DEF Balanced

(* What one member is owed, the others owe: at most a turn each.           *)
LEMMA OwedAtMost ==
  ASSUME NEW G, IsFiniteSet(G), NEW v, NEW w, NEW c \in G,
         \A x \in G : v[x] \in Int, \A x \in G : w[x] \in Nat \ {0},
         Balanced(v, w, G)
  PROVE  v[c] <= (Cardinality(G) - 1) * Sum(w, G)
<1>1. PICK W : W = Sum(w, G)
  OBVIOUS
<1>2. \A x \in G : w[x] \in Int
  OBVIOUS
<1>3. W \in Int
  BY <1>1, <1>2, SumRemoves
<1>4. Sum(v, G) = 0 /\ \A x \in G : v[x] > -W
  BY <1>1 DEF Balanced
<1>5. PICK H : H = G \ {c}
  OBVIOUS
<1>6. IsFiniteSet(H) /\ Cardinality(H) = Cardinality(G) - 1 /\ Cardinality(G) \in Nat
  BY <1>5, FS_RemoveElement, FS_CardinalityType
<1>7. PICK low : low = [x \in H |-> -W]
  OBVIOUS
<1>8. \A x \in H : low[x] \in Int /\ v[x] \in Int /\ low[x] <= v[x]
  BY <1>3, <1>4, <1>5, <1>7
<1>9. Sum(low, H) <= Sum(v, H)
  BY <1>6, <1>8, SumAtMost
<1>10. PICK k, n : k = -W /\ n = Cardinality(H)
  OBVIOUS
<1>11. k \in Int /\ \A x \in H : low[x] = k
  BY <1>3, <1>7, <1>10
<1>12. Sum(low, H) = k * n
  BY <1>6, <1>10, <1>11, SumConstant
<1>13. Sum(v, G) = v[c] + Sum(v, H)
  BY <1>5, SumRemoves
<1>14. Sum(v, H) \in Int
  BY <1>6, <1>8, SumRemoves
<1>15. n \in Int /\ v[c] \in Int
  BY <1>6, <1>10
<1>16. k * n = -(n * W)
  BY <1>3, <1>10, <1>15
<1>17. PICK m : m = n * W
  OBVIOUS
<1>18. m \in Int
  BY <1>3, <1>15, <1>17
<1>19. v[c] <= m
  BY <1>4, <1>9, <1>12, <1>13, <1>14, <1>15, <1>16, <1>17, <1>18
<1> QED
  BY <1>1, <1>6, <1>10, <1>17, <1>19

(* When everyone owes whole turns, nobody owes anything.                   *)
LEMMA BalancedWhole ==
  ASSUME NEW G, IsFiniteSet(G), NEW v, NEW w, NEW t,
         \A x \in G : v[x] \in Int, \A x \in G : w[x] \in Nat \ {0},
         Balanced(v, w, G),
         \A x \in G : t[x] \in Int /\ v[x] = Sum(w, G) * t[x]
  PROVE  \A x \in G : v[x] = 0 /\ t[x] = 0
<1>1. PICK W : W = Sum(w, G)
  OBVIOUS
<1>2. \A x \in G : w[x] \in Int
  OBVIOUS
<1>3. W \in Int
  BY <1>1, <1>2, SumRemoves
<1>4. /\ Sum(v, G) = 0
      /\ \A x \in G : v[x] > -W /\ v[x] = W * t[x] /\ t[x] \in Int /\ v[x] \in Int
  BY <1>1 DEF Balanced
<1>5. PICK zero : zero = [x \in G |-> 0]
  OBVIOUS
<1>6. Sum(zero, G) = 0
  BY <1>5, SumZero
<1>7. ASSUME NEW x \in G PROVE W > 0
  BY <1>1, SumPositive
<1>8. ASSUME NEW x \in G PROVE v[x] >= 0
  <2>1. PICK e : e = t[x]
    OBVIOUS
  <2>2. e \in Int /\ W * e > -W /\ W > 0
    BY <1>4, <1>7, <2>1
  <2>3. e >= 0
    <3>1. \A y \in Int : y <= -1 => W * y <= -W
      BY <1>3, <2>2
    <3> QED
      BY <1>3, <2>2, <3>1
  <2>4. W * e >= 0
    BY <1>3, <2>2, <2>3
  <2> QED
    BY <1>4, <2>1, <2>4
<1>9. \A x \in G : zero[x] \in Int /\ v[x] \in Int /\ zero[x] <= v[x]
  BY <1>4, <1>5, <1>8
<1>10. \A x \in G : zero[x] = v[x]
  BY <1>4, <1>6, <1>9, SumAtMost
<1>11. ASSUME NEW x \in G PROVE v[x] = 0 /\ t[x] = 0
  <2>1. v[x] = 0
    BY <1>5, <1>10
  <2>2. PICK e : e = t[x]
    OBVIOUS
  <2>3. e \in Int /\ W * e = 0 /\ W > 0
    BY <1>4, <1>7, <2>1, <2>2
  <2>4. e = 0
    BY <1>3, <2>3
  <2> QED
    BY <2>1, <2>2, <2>4
<1> QED
  BY <1>11

----------------------------------------------------------------------------
(* The shares.                                                             *)

(* While the saved rule alone uses the weights, each candidate of the      *)
(* group stands at what it gained in the cycle less what it paid.          *)
Owed ==
  steady /\ Weighted(rule) /\ Len(Eligible[rule]) >= 2 =>
    LET v == smooth[GroupKey(rule)]
        G == Range(Group[rule])
        W == Sum(rule.weight, G)
    IN  /\ Balanced(v, rule.weight, G)
        /\ tally.picks <= W
        /\ \A c \in G : v[c] = tally.picks * rule.weight[c] - W * tally.served[c]

(* Those who led in the round are those whose turn it was.                 *)
Turned ==
  rule.strategy = "round-robin" /\ Len(Eligible[rule]) >= 2 =>
    LET s == Eligible[rule]
    IN  /\ tally.picks <= Len(s) /\ tally.picks <= rr
        /\ \A c \in Range(s) :
             tally.served[c] =
               IF \E turn \in (rr - tally.picks) .. (rr - 1) : s[(turn % Len(s)) + 1] = c
                 THEN 1 ELSE 0

FairInv ==
  /\ RankingTypes
  /\ rr < CounterSize
  /\ tally \in [picks : Nat, served : [Candidates -> Nat]]
  /\ Owed
  /\ Turned

(* The candidates of a group and their weights.                            *)
LEMMA GroupTypes ==
  ASSUME NEW q \in Rules, Len(Eligible[q]) >= 2
  PROVE  /\ Range(Group[q]) \subseteq Candidates /\ IsFiniteSet(Range(Group[q]))
         /\ Range(Eligible[q]) # {} /\ Range(Group[q]) # {}
         /\ Cardinality(Range(Group[q])) = Len(Group[q]) /\ Len(Group[q]) \in Nat
         /\ \A c \in Range(Group[q]) : q.weight[c] \in Nat \ {0}
         /\ Sum(q.weight, Range(Group[q])) \in Int
<1>1. Range(Eligible[q]) # {}
  BY SomeEligible
<1>2. Lists(Group[q]) /\ Range(Group[q]) # {}
  BY <1>1, GroupIs
<1>3. /\ Range(Group[q]) \subseteq Candidates /\ IsFiniteSet(Range(Group[q]))
      /\ Cardinality(Range(Group[q])) = Len(Group[q]) /\ Len(Group[q]) \in Nat
  BY <1>2, PositionIs
<1>4. \A c \in Range(Group[q]) : q.weight[c] \in Nat \ {0}
  BY <1>3, RuleTypes
<1>5. \A c \in Range(Group[q]) : q.weight[c] \in Int
  BY <1>4
<1> QED
  BY <1>1, <1>2, <1>3, <1>4, <1>5, SumRemoves

(* The length of a cycle of the round-robin.                               *)
LEMMA RoundTypes ==
  ASSUME NEW q \in Rules, q.strategy = "round-robin"
  PROVE  /\ Group[q] = Eligible[q] /\ Share(q) = [c \in Candidates |-> 1]
         /\ Cycle(q) = Len(Eligible[q])
<1>1. PICK s, one : s = Eligible[q] /\ one = [c \in Candidates |-> 1]
  OBVIOUS
<1>2. Group[q] = s /\ Share(q) = one
  BY <1>1 DEF Group, Share, Weighted
<1>3. /\ IsFiniteSet(Range(s)) /\ Cardinality(Range(s)) = Len(s) /\ Len(s) \in Nat
      /\ Range(s) \subseteq Candidates
  BY <1>1, EligibleIs, PositionIs
<1>4. \A c \in Range(s) : one[c] = 1
  BY <1>1, <1>3
<1>5. Sum(one, Range(s)) = 1 * Cardinality(Range(s))
  BY <1>3, <1>4, SumConstant
<1> QED
  BY <1>1, <1>2, <1>3, <1>5 DEF Cycle

(* The terms of FairShare are numbers.                                     *)
LEMMA CycleTypes ==
  ASSUME NEW q \in Rules, Len(Eligible[q]) >= 2, Shares(q)
  PROVE  Cycle(q) \in Int /\ Len(Group[q]) \in Int
<1>1. Len(Group[q]) \in Nat /\ Sum(q.weight, Range(Group[q])) \in Int
  BY GroupTypes
<1>2. CASE Weighted(q)
  BY <1>1, <1>2 DEF Cycle, Share
<1>3. CASE q.strategy = "round-robin"
  BY <1>1, <1>3, RoundTypes
<1> QED
  BY <1>1, <1>2, <1>3 DEF Shares

(* Who comes first.                                                        *)
LEMMA FirstIs ==
  ASSUME Smooth, rr \in Nat, NEW q \in Rules, NEW k \in StickyKeys, Len(Eligible[q]) >= 2
  PROVE  /\ Weighted(q) => Order(q, k)[1] = SmoothLeader(q)
         /\ q.strategy = "round-robin" =>
              Order(q, k)[1] = Eligible[q][(rr % Len(Eligible[q])) + 1]
<1>1. PICK s : s = Eligible[q]
  OBVIOUS
<1>2. Lists(s) /\ Len(s) \in Nat
  BY <1>1, EligibleIs, PositionIs
<1>3. ~(Len(s) < 2) /\ Len(s) > 0 /\ Len(s) >= 2
  BY <1>1, <1>2
<1>4. ASSUME Weighted(q) PROVE Order(q, k)[1] = SmoothLeader(q)
  <2>1. SmoothLeader(q) \in Range(s)
    BY <1>1, SomeEligible, GroupIs, LeaderIs
  <2>2. CASE q.strategy = "weighted-round-robin"
    <3>1. Order(q, k) = Remainder(SmoothLeader(q), s, Heavier(q))
      BY <1>1, <1>3, <2>2 DEF Order
    <3> QED
      BY <1>2, <2>1, <3>1, HeavierWeak, RemainderIs
  <2>3. CASE q.strategy = "priority-weighted"
    <3>1. Order(q, k) = Remainder(SmoothLeader(q), s, PriorThenHeavier(q))
      BY <1>1, <1>3, <2>3 DEF Order
    <3>2. Weak(PriorThenHeavier(q), Candidates)
      BY HeavierWeak, PriorityThenWeak DEF PriorThenHeavier
    <3> QED
      BY <1>2, <2>1, <3>1, <3>2, RemainderIs
  <2> QED
    BY <1>4, <2>2, <2>3 DEF Weighted
<1>5. ASSUME q.strategy = "round-robin"
      PROVE  Order(q, k)[1] = s[(rr % Len(s)) + 1]
  <2>1. Order(q, k) = Rotated(s, rr)
    BY <1>1, <1>3, <1>5 DEF Order
  <2> QED
    BY <1>2, <1>3, <2>1, RotatedIs
<1> QED
  BY <1>1, <1>4, <1>5

(* After a whole cycle everyone has paid for exactly what it gained.       *)
LEMMA CycleSettles ==
  ASSUME NEW G, IsFiniteSet(G), NEW v, NEW w, NEW n,
         \A c \in G : v[c] \in Int, \A c \in G : w[c] \in Nat \ {0},
         \A c \in G : n[c] \in Nat,
         Balanced(v, w, G),
         \A c \in G : v[c] = Sum(w, G) * w[c] - Sum(w, G) * n[c]
  PROVE  \A c \in G : v[c] = 0 /\ n[c] = w[c]
<1>1. PICK W : W = Sum(w, G)
  OBVIOUS
<1>2. W \in Int
  <2>1. \A c \in G : w[c] \in Int
    OBVIOUS
  <2> QED
    BY <1>1, <2>1, SumRemoves
<1>3. PICK t : t = [c \in G |-> w[c] - n[c]]
  OBVIOUS
<1>4. ASSUME NEW c \in G PROVE t[c] \in Int /\ v[c] = W * t[c]
  <2>1. PICK a, b : a = w[c] /\ b = n[c]
    OBVIOUS
  <2>2. a \in Int /\ b \in Int /\ v[c] = W * a - W * b /\ t[c] = a - b
    BY <1>1, <1>3, <2>1
  <2>3. W * (a - b) = W * a - W * b
    BY <1>2, <2>2
  <2> QED
    BY <2>2, <2>3
<1>5. \A c \in G : t[c] \in Int /\ v[c] = Sum(w, G) * t[c]
  BY <1>1, <1>4
<1>6. \A c \in G : v[c] = 0 /\ t[c] = 0
  BY <1>5, BalancedWhole
<1>7. ASSUME NEW c \in G PROVE n[c] = w[c]
  BY <1>3, <1>6
<1> QED
  BY <1>6, <1>7

(* A turn of the weights, counted.                                         *)
LEMMA RankPays ==
  ASSUME FairInv, NEW r \in Requests, Rank(r)
  PROVE  Owed'
<1>1. PICK q : q = copy[r]
  OBVIOUS
<1>2. PICK k \in StickyKeys :
        /\ q # None
        /\ last' = [rule |-> q, order |-> Order(q, k)]
        /\ smooth' = IF Weighted(q) /\ Len(Eligible[q]) >= 2
                       THEN [smooth EXCEPT ![GroupKey(q)] = Paid(q)]
                       ELSE smooth
        /\ steady' = (steady /\ (q = rule \/ ~Weighted(rule)))
        /\ tally' = IF q # rule \/ (q.strategy = "round-robin" /\ NextTurn = 0) THEN NoTally
                    ELSE IF Shares(q) THEN Counted(q, last'.order[1])
                    ELSE tally
        /\ rule' = rule
  BY <1>1 DEF Rank
<1>3. SUFFICES ASSUME steady', Weighted(rule'), Len(Eligible[rule']) >= 2
               PROVE  LET v == smooth'[GroupKey(rule')]
                          G == Range(Group[rule'])
                          W == Sum(rule'.weight, G)
                      IN  /\ Balanced(v, rule'.weight, G)
                          /\ tally'.picks <= W
                          /\ \A c \in G :
                               v[c] = tally'.picks * rule'.weight[c] - W * tally'.served[c]
  BY DEF Owed
<1>4. q = rule /\ rule' = q /\ steady /\ Weighted(q) /\ Len(Eligible[q]) >= 2
  BY <1>2, <1>3
<1>5. q \in Rules /\ Smooth /\ rr \in Nat
  BY <1>4 DEF FairInv, RankingTypes
<1>6. PICK v, w, G, W : /\ v = smooth[GroupKey(q)] /\ w = q.weight
                        /\ G = Range(Group[q]) /\ W = Sum(w, G)
  OBVIOUS
<1>7. /\ G \subseteq Candidates /\ IsFiniteSet(G) /\ Range(Eligible[q]) # {}
      /\ \A c \in G : w[c] \in Nat \ {0}
      /\ W \in Int
  BY <1>4, <1>5, <1>6, GroupTypes
<1>8. GroupKey(q) \in GroupKeys /\ v \in [Candidates -> Int]
  BY <1>5, <1>6, <1>7, GroupKeyTypes DEF Smooth
<1>9. PICK picks, served : picks = tally.picks /\ served = tally.served
  OBVIOUS
<1>10. /\ Balanced(v, w, G) /\ picks <= W
       /\ \A c \in G : v[c] = picks * w[c] - W * served[c]
  BY <1>4, <1>6, <1>9 DEF FairInv, Owed
<1>11. picks \in Nat /\ served \in [Candidates -> Nat]
  BY <1>9 DEF FairInv
<1>12. PICK first, g, p : first = SmoothLeader(q) /\ g = Gained(q) /\ p = Paid(q)
  OBVIOUS
<1>13. first \in G /\ \A c \in G : g[c] <= g[first]
  BY <1>5, <1>6, <1>7, <1>12, LeaderIs
<1>14. \A c \in G : g[c] = v[c] + w[c]
  BY <1>6, <1>7, <1>12 DEF Gained
<1>15. p = [c \in Candidates |-> IF c = first THEN g[c] - W ELSE g[c]]
  BY <1>5, <1>6, <1>7, <1>12, PaidTypes DEF TotalWeight
<1>16. \A c \in G : v[c] \in Int /\ served[c] \in Nat
  BY <1>7, <1>8, <1>11
<1>17. Balanced(p, w, G)
  <2>1. p[first] = g[first] - Sum(w, G) /\ \A c \in G \ {first} : p[c] = g[c]
    BY <1>6, <1>7, <1>13, <1>15
  <2> QED
    BY <1>7, <1>10, <1>13, <1>14, <1>16, <2>1, TurnBalances
<1>18. smooth'[GroupKey(rule')] = p /\ rule'.weight = w /\ Range(Group[rule']) = G
  BY <1>2, <1>4, <1>5, <1>6, <1>8, <1>12 DEF Smooth
<1>19. tally' = Counted(q, first)
  <2>1. last'.order[1] = first
    BY <1>2, <1>4, <1>5, <1>12, FirstIs
  <2>2. Shares(q) /\ q.strategy # "round-robin"
    BY <1>4 DEF Shares, Weighted
  <2> QED
    BY <1>2, <1>4, <2>1, <2>2
<1>20. Cycle(q) = W
  BY <1>4, <1>6 DEF Cycle, Share
<1>21. PICK m, n : /\ m = (IF picks = W THEN 0 ELSE picks)
                   /\ n = (IF picks = W THEN [c \in Candidates |-> 0] ELSE served)
  OBVIOUS
<1>22. m \in Nat /\ m + 1 <= W /\ n \in [Candidates -> Nat]
  <2>1. W > 0
    BY <1>6, <1>7, <1>13, <1>16, SumPositive
  <2> QED
    BY <1>7, <1>10, <1>11, <1>21, <2>1
<1>23. \A c \in G : v[c] = m * w[c] - W * n[c]
  <2>1. CASE picks = W
    <3>1. \A c \in G : v[c] = Sum(w, G) * w[c] - Sum(w, G) * served[c]
      BY <1>6, <1>10, <2>1
    <3>2. \A c \in G : v[c] = 0
      BY <1>7, <1>10, <1>16, <3>1, CycleSettles
    <3>3. ASSUME NEW c \in G PROVE v[c] = m * w[c] - W * n[c]
      <4>1. m = 0 /\ n[c] = 0 /\ v[c] = 0
        BY <1>7, <1>21, <2>1, <3>2
      <4>2. PICK a : a = w[c]
        OBVIOUS
      <4>3. a \in Int
        BY <1>7, <4>2
      <4>4. 0 * a = 0 /\ W * 0 = 0
        BY <1>7, <4>3
      <4> QED
        BY <4>1, <4>2, <4>4
    <3> QED
      BY <3>3
  <2>2. CASE picks # W
    BY <1>10, <1>21, <2>2
  <2> QED
    BY <2>1, <2>2
<1>24. tally'.picks = m + 1 /\ tally'.served = [n EXCEPT ![first] = @ + 1]
  BY <1>9, <1>19, <1>20, <1>21 DEF Counted, NoTally
<1>25. ASSUME NEW c \in G PROVE p[c] = (m + 1) * w[c] - W * tally'.served[c]
  <2>1. PICK a, b, d : a = w[c] /\ b = n[c] /\ d = v[c]
    OBVIOUS
  <2>2. a \in Int /\ b \in Int /\ d \in Int /\ d = m * a - W * b /\ g[c] = d + a /\ c \in Candidates
    BY <1>7, <1>14, <1>16, <1>22, <1>23, <2>1
  <2>3. (m + 1) * a = m * a + a /\ W * (b + 1) = W * b + W
    BY <1>7, <1>22, <2>2
  <2>4. PICK x, y : x = m * a /\ y = W * b
    OBVIOUS
  <2>5. x \in Int /\ y \in Int
    BY <1>7, <1>22, <2>2, <2>4
  <2>6. CASE c = first
    <3>1. p[c] = d + a - W
      BY <1>7, <1>15, <2>2, <2>6
    <3>2. tally'.served[c] = b + 1
      BY <1>22, <1>24, <2>1, <2>2, <2>6
    <3> QED
      BY <1>7, <2>1, <2>2, <2>3, <2>4, <2>5, <3>1, <3>2
  <2>7. CASE c # first
    <3>1. p[c] = d + a /\ tally'.served[c] = b
      BY <1>15, <1>22, <1>24, <2>1, <2>2, <2>7
    <3> QED
      BY <1>7, <2>1, <2>2, <2>3, <2>4, <2>5, <3>1
  <2> QED
    BY <2>6, <2>7
<1> QED
  BY <1>6, <1>17, <1>18, <1>22, <1>24, <1>25

(* A turn of the counter, counted.                                         *)
LEMMA RankTurns ==
  ASSUME FairInv, NEW r \in Requests, Rank(r)
  PROVE  Turned'
<1>1. PICK q : q = copy[r]
  OBVIOUS
<1>2. PICK k \in StickyKeys :
        /\ q # None
        /\ last' = [rule |-> q, order |-> Order(q, k)]
        /\ rr' = IF q.strategy = "round-robin" /\ Len(Eligible[q]) >= 2 THEN NextTurn ELSE rr
        /\ tally' = IF q # rule \/ (q.strategy = "round-robin" /\ NextTurn = 0) THEN NoTally
                    ELSE IF Shares(q) THEN Counted(q, last'.order[1])
                    ELSE tally
        /\ rule' = rule
  BY <1>1 DEF Rank
<1>3. SUFFICES ASSUME rule'.strategy = "round-robin", Len(Eligible[rule']) >= 2
               PROVE  LET s == Eligible[rule']
                      IN  /\ tally'.picks <= Len(s) /\ tally'.picks <= rr'
                          /\ \A c \in Range(s) :
                               tally'.served[c] =
                                 IF \E turn \in (rr' - tally'.picks) .. (rr' - 1) :
                                      s[(turn % Len(s)) + 1] = c
                                   THEN 1 ELSE 0
  BY DEF Turned
<1>4. /\ q \in Rules /\ rule \in Rules /\ rule' = rule /\ Smooth
      /\ rr \in Nat /\ rr < CounterSize /\ CounterSize \in Nat \ {0}
  BY <1>1, <1>2, RankingAssumption DEF FairInv, RankingTypes
<1>5. PICK s, n : s = Eligible[rule] /\ n = Len(s)
  OBVIOUS
<1>6. /\ Lists(s) /\ n \in Nat /\ n >= 2 /\ Range(s) \subseteq Candidates
      /\ rule.strategy = "round-robin"
  BY <1>3, <1>4, <1>5, EligibleIs, PositionIs
<1>7. rr' \in Nat
  BY <1>2, <1>4 DEF NextTurn
<1>8. CASE q # rule \/ NextTurn = 0
  <2>1. tally' = NoTally
    <3>1. q = rule => q.strategy = "round-robin"
      BY <1>6
    <3> QED
      BY <1>2, <1>8, <3>1
  <2>2. tally'.picks = 0 /\ \A c \in Range(s) : tally'.served[c] = 0
    BY <1>6, <2>1 DEF NoTally
  <2>3. PICK now : now = rr'
    OBVIOUS
  <2>4. now \in Nat
    BY <1>7, <2>3
  <2>5. \A turn \in (now - 0) .. (now - 1) : FALSE
    BY <2>4
  <2> QED
    <3>1. \A turn \in (rr' - tally'.picks) .. (rr' - 1) : FALSE
      BY <2>2, <2>3, <2>5
    <3>2. tally'.picks <= n /\ tally'.picks <= rr'
      BY <1>6, <1>7, <2>2
    <3> QED
      BY <1>4, <1>5, <2>2, <3>1, <3>2
<1>9. CASE q = rule /\ NextTurn # 0
  <2>1. rr' = rr + 1
    <3>1. rr' = NextTurn
      BY <1>2, <1>5, <1>6, <1>9
    <3>2. rr + 1 = CounterSize => NextTurn = 0
      BY <1>4 DEF NextTurn
    <3>3. rr + 1 < CounterSize => NextTurn = rr + 1
      BY <1>4 DEF NextTurn
    <3> QED
      BY <1>4, <1>9, <3>1, <3>2, <3>3
  <2>2. PICK first : first = s[(rr % n) + 1]
    OBVIOUS
  <2>3. tally' = Counted(q, first)
    <3>1. last'.order[1] = first
      BY <1>2, <1>4, <1>5, <1>6, <1>9, <2>2, FirstIs
    <3>2. Shares(q)
      BY <1>5, <1>6, <1>9 DEF Shares
    <3> QED
      BY <1>2, <1>9, <3>1, <3>2
  <2>4. Cycle(q) = n
    BY <1>4, <1>5, <1>6, <1>9, RoundTypes
  <2>5. PICK picks, served : picks = tally.picks /\ served = tally.served
    OBVIOUS
  <2>6. /\ picks \in Nat /\ served \in [Candidates -> Nat] /\ picks <= n /\ picks <= rr
        /\ \A c \in Range(s) :
             served[c] = IF \E turn \in (rr - picks) .. (rr - 1) : s[(turn % n) + 1] = c
                           THEN 1 ELSE 0
    BY <1>5, <1>6, <2>5 DEF FairInv, Turned
  <2>7. PICK m, t : /\ m = (IF picks = n THEN 0 ELSE picks)
                    /\ t = (IF picks = n THEN [c \in Candidates |-> 0] ELSE served)
    OBVIOUS
  <2>8. m \in Nat /\ m + 1 <= n /\ m <= rr /\ t \in [Candidates -> Nat]
    BY <1>4, <1>6, <2>6, <2>7
  <2>9. \A c \in Range(s) :
          t[c] = IF \E turn \in (rr - m) .. (rr - 1) : s[(turn % n) + 1] = c THEN 1 ELSE 0
    <3>1. CASE picks = n
      <4>1. m = 0 /\ \A c \in Range(s) : t[c] = 0
        BY <1>6, <2>7, <3>1
      <4>2. \A turn \in (rr - 0) .. (rr - 1) : FALSE
        BY <1>4
      <4> QED
        BY <4>1, <4>2
    <3>2. CASE picks # n
      BY <2>6, <2>7, <3>2
    <3> QED
      BY <3>1, <3>2
  <2>10. tally'.picks = m + 1 /\ tally'.served = [t EXCEPT ![first] = @ + 1]
    BY <2>3, <2>4, <2>5, <2>7 DEF Counted, NoTally
  <2>11. \A turn \in Nat : (turn % n) + 1 \in 1 .. n
    BY <1>6
  <2>12. first \in Range(s)
    BY <1>4, <1>5, <1>6, <2>2, <2>11, PositionIs
  <2>13. \A turn \in (rr - m) .. (rr - 1) : s[(turn % n) + 1] # first
    <3>1. SUFFICES ASSUME NEW turn \in (rr - m) .. (rr - 1), s[(turn % n) + 1] = first
                   PROVE  FALSE
      OBVIOUS
    <3>2. turn \in Nat /\ turn < rr /\ rr - turn < n
      BY <1>4, <1>6, <2>8
    <3>3. PICK i, j : i = (turn % n) + 1 /\ j = (rr % n) + 1
      OBVIOUS
    <3>4. i \in 1 .. n /\ j \in 1 .. n /\ s[i] = s[j]
      BY <1>4, <2>2, <2>11, <3>1, <3>2, <3>3
    <3>5. i = j
      BY <1>5, <1>6, <3>4, PositionIs
    <3>6. turn % n = rr % n
      <4>1. turn % n \in Int /\ rr % n \in Int
        BY <1>4, <1>6, <3>2
      <4> QED
        BY <3>3, <3>5, <4>1
    <3>7. rr - turn >= n
      <4>1. n \in Nat \ {0}
        BY <1>6
      <4> QED
        BY <1>4, <3>2, <3>6, <4>1, RoundApart
    <3> QED
      BY <1>4, <1>6, <3>2, <3>7
  <2>14. ASSUME NEW c \in Range(s)
         PROVE  tally'.served[c] =
                  IF \E turn \in (rr - m) .. rr : s[(turn % n) + 1] = c THEN 1 ELSE 0
    <3>1. c \in Candidates /\ first \in Candidates
      BY <1>6, <2>12
    <3>2. \A turn \in (rr - m) .. rr : turn = rr \/ turn \in (rr - m) .. (rr - 1)
      BY <1>4, <2>8
    <3>3. rr \in (rr - m) .. rr
      BY <1>4, <2>8
    <3>4. \A turn \in (rr - m) .. (rr - 1) : turn \in (rr - m) .. rr
      BY <1>4, <2>8
    <3>5. CASE c = first
      <4>1. t[c] = 0
        BY <2>9, <2>13, <3>5
      <4>2. tally'.served[c] = 1
        BY <2>8, <2>10, <3>1, <3>5, <4>1
      <4> QED
        BY <2>2, <3>3, <3>5, <4>2
    <3>6. CASE c # first
      <4>1. tally'.served[c] = t[c]
        BY <2>8, <2>10, <3>1, <3>6
      <4>2. (\E turn \in (rr - m) .. rr : s[(turn % n) + 1] = c) <=>
              (\E turn \in (rr - m) .. (rr - 1) : s[(turn % n) + 1] = c)
        BY <2>2, <3>2, <3>4, <3>6
      <4> QED
        BY <2>9, <4>1, <4>2
    <3> QED
      BY <3>5, <3>6
  <2>15. rr' - tally'.picks = rr - m /\ rr' - 1 = rr /\ tally'.picks <= rr' /\ tally'.picks <= n
    BY <1>4, <2>1, <2>8, <2>10
  <2> QED
    BY <1>4, <1>5, <2>14, <2>15
<1> QED
  BY <1>8, <1>9

(* Cleared weights owe nothing, a cleared history has no turns.            *)
NewCycle == rule \in Rules /\ rr \in Nat /\ tally = NoTally

Cleared == NewCycle /\ smooth = [g \in GroupKeys |-> [c \in Candidates |-> 0]]

LEMMA ClearedOwes == Cleared => Owed
<1> SUFFICES ASSUME rule \in Rules, tally = NoTally,
                    smooth = [g \in GroupKeys |-> [c \in Candidates |-> 0]]
             PROVE  Owed
  BY DEF Cleared, NewCycle
<1>1. SUFFICES ASSUME Len(Eligible[rule]) >= 2
               PROVE  LET v == smooth[GroupKey(rule)]
                          G == Range(Group[rule])
                          W == Sum(rule.weight, G)
                      IN  /\ Balanced(v, rule.weight, G)
                          /\ tally.picks <= W
                          /\ \A c \in G : v[c] = tally.picks * rule.weight[c] - W * tally.served[c]
  BY DEF Owed
<1>2. PICK v, w, G, W : /\ v = smooth[GroupKey(rule)] /\ w = rule.weight
                        /\ G = Range(Group[rule]) /\ W = Sum(w, G)
  OBVIOUS
<1>3. /\ G \subseteq Candidates /\ IsFiniteSet(G) /\ Range(Eligible[rule]) # {} /\ G # {}
      /\ \A c \in G : w[c] \in Nat \ {0}
  BY <1>1, <1>2, GroupTypes
<1>4. GroupKey(rule) \in GroupKeys
  BY <1>3, GroupKeyTypes
<1>5. \A c \in G : v[c] = 0
  BY <1>2, <1>3, <1>4
<1>6. W \in Int /\ W > 0
  BY <1>2, <1>3, SumPositive
<1>7. Sum(v, G) = 0
  <2>1. PICK n : n = Cardinality(G)
    OBVIOUS
  <2>2. n \in Int
    BY <1>3, <2>1, FS_CardinalityType
  <2>3. Sum(v, G) = 0 * n
    BY <1>3, <1>5, <2>1, SumConstant
  <2> QED
    BY <2>2, <2>3
<1>8. Balanced(v, w, G)
  BY <1>2, <1>5, <1>6, <1>7 DEF Balanced
<1>9. tally.picks = 0 /\ \A c \in G : tally.served[c] = 0
  BY <1>3 DEF NoTally
<1>10. ASSUME NEW c \in G PROVE v[c] = tally.picks * w[c] - W * tally.served[c]
  <2>1. PICK a : a = w[c]
    OBVIOUS
  <2>2. a \in Int
    BY <1>3, <2>1
  <2>3. 0 * a = 0 /\ W * 0 = 0
    BY <1>6, <2>2
  <2> QED
    BY <1>5, <1>9, <2>1, <2>3
<1> QED
  BY <1>2, <1>6, <1>8, <1>9, <1>10

LEMMA ClearedTurns == NewCycle => Turned
<1> SUFFICES ASSUME rule \in Rules, rr \in Nat, tally = NoTally PROVE Turned
  BY DEF NewCycle
<1>1. PICK s : s = Eligible[rule]
  OBVIOUS
<1>2. Len(s) \in Nat /\ Range(s) \subseteq Candidates
  BY <1>1, EligibleIs, PositionIs
<1>3. tally.picks = 0 /\ \A c \in Range(s) : tally.served[c] = 0
  BY <1>2 DEF NoTally
<1>4. \A turn \in (rr - 0) .. (rr - 1) : FALSE
  OBVIOUS
<1>5. \A turn \in (rr - tally.picks) .. (rr - 1) : FALSE
  BY <1>3, <1>4
<1>6. tally.picks <= Len(s) /\ tally.picks <= rr
  BY <1>2, <1>3
<1> QED
  BY <1>1, <1>3, <1>5, <1>6 DEF Turned

LEMMA ClearedNext == (Cleared' => Owed') /\ (NewCycle' => Turned')
  BY ClearedOwes, ClearedTurns, PTL

LEMMA InitShares == Init => FairInv
<1>1. SUFFICES ASSUME Init PROVE FairInv
  OBVIOUS
<1>2. RankingTypes /\ rule \in Rules /\ rr = 0 /\ rr \in Nat
  BY <1>1, InitTypes DEF Init
<1>3. rr < CounterSize
  BY <1>2, RankingAssumption
<1>4. tally \in [picks : Nat, served : [Candidates -> Nat]] /\ tally = NoTally
  BY <1>1 DEF Init, NoTally
<1>5. Owed
  BY <1>1, <1>2, <1>4, ClearedOwes DEF Init, Cleared, NewCycle
<1>6. Turned
  BY <1>2, <1>4, ClearedTurns DEF NewCycle
<1> QED
  BY <1>2, <1>3, <1>4, <1>5, <1>6 DEF FairInv

LEMMA NextShares == FairInv /\ [Next]_vars => FairInv'
<1>1. SUFFICES ASSUME FairInv, [Next]_vars PROVE FairInv'
  OBVIOUS
<1>2. RankingTypes'
  BY <1>1, NextTypes DEF FairInv
<1>3. CounterSize \in Nat \ {0} /\ rr \in Nat /\ rr < CounterSize
  BY <1>1, RankingAssumption DEF FairInv, RankingTypes
<1>4. NoTally \in [picks : Nat, served : [Candidates -> Nat]]
  BY DEF NoTally
<1>5. CASE UNCHANGED <<rule, rr, smooth, steady, tally>>
  BY <1>1, <1>2, <1>5 DEF FairInv, Owed, Turned
<1>6. ASSUME NEW r \in Requests, Rank(r) PROVE FairInv'
  <2>1. PICK q : q = copy[r]
    OBVIOUS
  <2>2. PICK first :
          /\ rr' = IF q.strategy = "round-robin" /\ Len(Eligible[q]) >= 2 THEN NextTurn ELSE rr
          /\ tally' = IF q # rule \/ (q.strategy = "round-robin" /\ NextTurn = 0) THEN NoTally
                      ELSE IF Shares(q) THEN Counted(q, first)
                      ELSE tally
    BY <1>6, <2>1 DEF Rank
  <2>3. rr' < CounterSize
    BY <1>3, <2>2 DEF NextTurn
  <2>4. tally \in [picks : Nat, served : [Candidates -> Nat]]
    BY <1>1 DEF FairInv
  <2>5. Counted(q, first) \in [picks : Nat, served : [Candidates -> Nat]]
    <3>1. PICK t : t = (IF tally.picks = Cycle(q) THEN NoTally ELSE tally)
      OBVIOUS
    <3>2. t.picks \in Nat /\ t.served \in [Candidates -> Nat]
      BY <1>4, <2>4, <3>1
    <3>3. [t.served EXCEPT ![first] = @ + 1] \in [Candidates -> Nat]
      <4>1. PICK u : u = t.served
        OBVIOUS
      <4>2. u \in [Candidates -> Nat]
        BY <3>2, <4>1
      <4>3. \A c \in Candidates : u[c] + 1 \in Nat
        BY <4>2
      <4>4. [u EXCEPT ![first] = @ + 1] \in [Candidates -> Nat]
        BY <4>2, <4>3
      <4> QED
        BY <4>1, <4>4
    <3>4. Counted(q, first) =
            [picks |-> t.picks + 1, served |-> [t.served EXCEPT ![first] = @ + 1]]
      BY <3>1 DEF Counted
    <3> QED
      BY <3>2, <3>3, <3>4
  <2>6. tally' \in [picks : Nat, served : [Candidates -> Nat]]
    BY <1>4, <2>2, <2>4, <2>5
  <2> QED
    BY <1>1, <1>2, <1>6, <2>3, <2>6, RankPays, RankTurns DEF FairInv
<1>7. ASSUME NEW new \in Rules, Edit(new) PROVE FairInv'
  <2>1. rule' = new /\ rr' = rr /\ steady' = ~Weighted(new) /\ tally' = NoTally
    BY <1>7 DEF Edit
  <2>2. Owed'
    BY <2>1 DEF Owed
  <2>3. Turned'
    BY <1>3, <2>1, ClearedNext DEF NewCycle
  <2> QED
    BY <1>2, <1>3, <1>4, <2>1, <2>2, <2>3 DEF FairInv
<1>8. ASSUME NEW new \in Rules, Reload(new) PROVE FairInv'
  <2>1. /\ rule' = new /\ rr' = 0 /\ tally' = NoTally
        /\ smooth' = [g \in GroupKeys |-> [c \in Candidates |-> 0]]
    BY <1>8 DEF Reload
  <2>2. Owed'
    BY <2>1, ClearedNext DEF Cleared, NewCycle
  <2>3. Turned'
    BY <2>1, ClearedNext DEF NewCycle
  <2> QED
    BY <1>2, <1>3, <1>4, <2>1, <2>2, <2>3 DEF FairInv
<1> QED
  BY <1>1, <1>5, <1>6, <1>7, <1>8 DEF Next, Plan, vars

(* The invariant bounds what a candidate can be ahead or behind.           *)
LEMMA SharesAreFair == FairInv => FairShare
<1>1. SUFFICES ASSUME FairInv, steady, Shares(rule), NEW c \in Range(Group[rule])
               PROVE  LET ahead == Cycle(rule) * tally.served[c] - tally.picks * Share(rule)[c]
                      IN  /\ ahead < Cycle(rule)
                          /\ ahead >= -((Len(Group[rule]) - 1) * Cycle(rule))
                          /\ tally.picks = Cycle(rule) => tally.served[c] = Share(rule)[c]
  <2>1. ASSUME NEW a \in Int, NEW b \in Int PROVE -(a - 1) * b = -((a - 1) * b)
    OBVIOUS
  <2> QED
    BY CycleTypes, <2>1 DEF FairShare, FairInv, RankingTypes, Shares
<1>2. rule \in Rules /\ Smooth /\ Len(Eligible[rule]) >= 2 /\ rr \in Nat
  BY <1>1 DEF FairInv, RankingTypes, Shares
<1>3. tally.picks \in Nat /\ tally.served \in [Candidates -> Nat]
  BY <1>1 DEF FairInv
<1>4. /\ Range(Group[rule]) \subseteq Candidates /\ IsFiniteSet(Range(Group[rule]))
      /\ Range(Eligible[rule]) # {}
      /\ Cardinality(Range(Group[rule])) = Len(Group[rule]) /\ Len(Group[rule]) \in Nat
      /\ \A x \in Range(Group[rule]) : rule.weight[x] \in Nat \ {0}
  BY <1>2, GroupTypes
<1>5. CASE Weighted(rule)
  <2>1. PICK v, w, G, W, n : /\ v = smooth[GroupKey(rule)] /\ w = rule.weight
                             /\ G = Range(Group[rule]) /\ W = Sum(w, G)
                             /\ n = tally.served
    OBVIOUS
  <2>2. Cycle(rule) = W /\ Share(rule) = w
    BY <1>5, <2>1 DEF Cycle, Share
  <2>3. /\ Balanced(v, w, G)
        /\ \A x \in G : v[x] = tally.picks * w[x] - W * n[x]
    BY <1>1, <1>2, <1>5, <2>1 DEF FairInv, Owed
  <2>4. GroupKey(rule) \in GroupKeys
    BY <1>2, <1>4, GroupKeyTypes
  <2>5. \A x \in G : v[x] \in Int /\ w[x] \in Nat \ {0} /\ n[x] \in Nat
    BY <1>2, <1>3, <1>4, <2>1, <2>4 DEF Smooth
  <2>6. W \in Int
    BY <1>2, <2>1, GroupTypes
  <2>7. v[c] > -W
    BY <1>1, <2>1, <2>3 DEF Balanced
  <2>8. v[c] <= (Len(Group[rule]) - 1) * W
    BY <1>1, <1>4, <2>1, <2>3, <2>5, OwedAtMost
  <2>9. PICK a, x, y : a = (Len(Group[rule]) - 1) * W /\ x = W * n[c] /\ y = tally.picks * w[c]
    OBVIOUS
  <2>10. a \in Int /\ x \in Int /\ y \in Int /\ v[c] = y - x
    <3>1. PICK d, e, l : d = n[c] /\ e = w[c] /\ l = Len(Group[rule]) - 1
      OBVIOUS
    <3>2. d \in Int /\ e \in Int /\ l \in Int
      BY <1>1, <1>4, <2>1, <2>5, <3>1
    <3>3. a \in Int /\ x \in Int /\ y \in Int
      BY <1>3, <2>6, <2>9, <3>1, <3>2
    <3> QED
      BY <1>1, <2>1, <2>3, <2>9, <3>3
  <2>11. x - y < W /\ x - y >= -a
    BY <2>6, <2>7, <2>8, <2>9, <2>10
  <2>12. tally.picks = W => n[c] = w[c]
    <3>1. SUFFICES ASSUME tally.picks = W PROVE n[c] = w[c]
      OBVIOUS
    <3>2. \A z \in G : v[z] = Sum(w, G) * w[z] - Sum(w, G) * n[z]
      BY <2>1, <2>3, <3>1
    <3> QED
      BY <1>1, <1>4, <2>1, <2>3, <2>5, <3>2, CycleSettles
  <2> QED
    BY <2>1, <2>2, <2>9, <2>11, <2>12
<1>6. CASE rule.strategy = "round-robin"
  <2>1. PICK s, n, picks, served : /\ s = Eligible[rule] /\ n = Len(s)
                                   /\ picks = tally.picks /\ served = tally.served
    OBVIOUS
  <2>2. Group[rule] = s /\ Share(rule) = [x \in Candidates |-> 1] /\ Cycle(rule) = n
    BY <1>2, <1>6, <2>1, RoundTypes
  <2>3. /\ Lists(s) /\ n \in Nat /\ n >= 2 /\ c \in Range(s) /\ c \in Candidates
        /\ picks \in Nat /\ served \in [Candidates -> Nat]
    <3>1. Lists(s) /\ n >= 2
      BY <1>2, <2>1, EligibleIs
    <3>2. n \in Nat /\ Range(s) \subseteq Candidates
      BY <2>1, <3>1, PositionIs
    <3> QED
      BY <1>1, <1>3, <2>1, <2>2, <3>1, <3>2
  <2>4. /\ picks <= n /\ picks <= rr
        /\ served[c] = IF \E turn \in (rr - picks) .. (rr - 1) : s[(turn % n) + 1] = c
                         THEN 1 ELSE 0
    BY <1>1, <1>2, <1>6, <2>1, <2>3 DEF FairInv, Turned
  <2>5. Share(rule)[c] = 1
    BY <2>2, <2>3
  <2>6. picks = n => served[c] = 1
    <3>1. SUFFICES ASSUME picks = n
                   PROVE  \E turn \in (rr - picks) .. (rr - 1) : s[(turn % n) + 1] = c
      BY <2>4
    <3>2. PICK i \in 1 .. n : s[i] = c
      BY <2>1, <2>3, PositionIs
    <3>3. n \in Nat \ {0} /\ rr - n \in Nat /\ i - 1 \in 0 .. n - 1
      BY <1>2, <2>3, <2>4, <3>1
    <3>4. PICK turn \in rr - n .. rr - n + n - 1 : turn % n = i - 1
      BY <3>3, RoundComplete
    <3>5. turn \in (rr - picks) .. (rr - 1) /\ (turn % n) + 1 = i
      BY <1>2, <2>3, <3>1, <3>2, <3>4
    <3> QED
      BY <3>2, <3>5
  <2>7. PICK x, a : x = n * served[c] /\ a = (n - 1) * n
    OBVIOUS
  <2>8. a \in Int /\ a >= n
    <3>1. \A m \in Int : m >= 1 => m * n >= n
      BY <2>3
    <3> QED
      BY <2>3, <2>7, <3>1
  <2>9. x - picks < n /\ x - picks >= -a /\ x \in Int
    <3>1. CASE \E turn \in (rr - picks) .. (rr - 1) : s[(turn % n) + 1] = c
      <4>1. served[c] = 1
        BY <2>4, <3>1
      <4>2. picks >= 1
        BY <1>2, <2>3, <3>1
      <4>3. x = n
        BY <2>3, <2>7, <4>1
      <4> QED
        BY <2>3, <2>4, <2>8, <4>2, <4>3
    <3>2. CASE ~\E turn \in (rr - picks) .. (rr - 1) : s[(turn % n) + 1] = c
      <4>1. served[c] = 0
        BY <2>4, <3>2
      <4>2. x = 0
        BY <2>3, <2>7, <4>1
      <4> QED
        BY <2>3, <2>4, <2>8, <4>2
    <3> QED
      BY <3>1, <3>2
  <2>10. picks * 1 = picks
    BY <2>3
  <2> QED
    BY <2>1, <2>2, <2>5, <2>6, <2>7, <2>9, <2>10
<1> QED
  BY <1>1, <1>5, <1>6 DEF Shares

(* Under the smooth weights no candidate is ever a whole turn ahead of its *)
(* exact share, nor more than a turn per other candidate behind it, and a  *)
(* whole cycle gives every one exactly its share; so it is with the turns  *)
(* of round-robin until its counter wraps: for any number of candidates    *)
(* and any weights, whatever copies of older rules are ranked in between.  *)
THEOREM SharesFair == Spec => []FairShare
<1> QED
  BY InitShares, NextShares, SharesAreFair, PTL DEF Spec
=============================================================================
