------------------------------ MODULE FoldFacts ------------------------------
(****************************************************************************)
(* Sums over a finite set, and functions that recur over numbers.  The sum  *)
(* of the library folds over a set in an order it chooses; what is shown    *)
(* here is that the order does not matter, and what follows from that.      *)
(* Induction is stated of a set: those numbers for which something holds.   *)
(****************************************************************************)
EXTENDS Integers, Functions, FiniteSetTheorems, WellFoundedInduction, TLAPS

\* A set of numbers that holds 0 and every successor of its members holds all.
LEMMA SetInduction ==
  ASSUME NEW S, 0 \in S, \A n \in Nat : n \in S => n + 1 \in S
  PROVE  Nat \subseteq S
  <1>1. SUFFICES ASSUME Nat \ S # {} PROVE FALSE
    OBVIOUS
  <1>2. PICK m \in Nat \ S : \A y \in Nat \ S : ~(<<y, m>> \in OpToRel(<, Nat))
    <2>1. IsWellFoundedOn(OpToRel(<, Nat), Nat)
      BY NatLessThanWellFounded
    <2> DEFINE R == OpToRel(<, Nat)
    <2>2. IsWellFoundedOn(R, Nat)
      BY <2>1
    <2> HIDE DEF R
    <2>3. \E m \in Nat \ S : \A y \in Nat \ S : ~(<<y, m>> \in R)
      BY <1>1, <2>2, WFMin, Zenon
    <2> QED
      BY <2>3 DEF R
  <1>3. \A y \in Nat : y < m => y \in S
    <2> SUFFICES ASSUME NEW y \in Nat, y < m, y \notin S PROVE FALSE
      OBVIOUS
    <2>1. <<y, m>> \in OpToRel(<, Nat)
      BY DEF OpToRel
    <2> QED
      BY <1>2, <2>1
  <1>4. m \in Nat /\ m \notin S
    OBVIOUS
  <1>5. m # 0
    BY <1>4
  <1>6. m - 1 \in Nat /\ m - 1 < m /\ (m - 1) + 1 = m
    BY <1>4, <1>5
  <1> QED
    BY <1>3, <1>4, <1>6

\* h[s] is the sum of v over s, whatever element is taken out of s first.
Additive(h, v, S) ==
  /\ h \in [SUBSET S -> Int]
  /\ h[{}] = 0
  /\ \A s \in SUBSET S : \A x \in s : h[s] = v[x] + h[s \ {x}]

\* The equation of the fold.
Folded(h, v, S) ==
  h = [s \in SUBSET S |->
        IF s = {} THEN 0
        ELSE v[CHOOSE x \in s : TRUE] + h[s \ {CHOOSE x \in s : TRUE}]]

LEMMA SmallerSubset ==
  ASSUME NEW S, IsFiniteSet(S), NEW s \in SUBSET S, NEW x \in s
  PROVE  /\ s \ {x} \in SUBSET S
         /\ IsFiniteSet(s)
         /\ Cardinality(s) \in Nat
         /\ Cardinality(s \ {x}) = Cardinality(s) - 1
  <1>1. IsFiniteSet(s)
    BY FS_Subset
  <1> QED
    BY <1>1, FS_CardinalityType, FS_RemoveElement

LEMMA FoldExists ==
  ASSUME NEW S, IsFiniteSet(S), NEW v, \A x \in S : v[x] \in Int
  PROVE  \E h \in [SUBSET S -> Int] : Folded(h, v, S)
  <1> DEFINE c(s) == CHOOSE x \in s : TRUE
             Next(h) == [s \in SUBSET S |->
                          IF s = {} THEN 0 ELSE v[c(s)] + h[s \ {c(s)}]]
             Small(n) == {s \in SUBSET S : Cardinality(s) <= n}
             Done == {n \in Nat : \E h \in [SUBSET S -> Int] :
                        \A s \in Small(n) : h[s] = Next(h)[s]}
  <1>1. \A s \in SUBSET S : s # {} => c(s) \in s
    OBVIOUS
  <1>2. \A h \in [SUBSET S -> Int] : Next(h) \in [SUBSET S -> Int]
    <2> SUFFICES ASSUME NEW h \in [SUBSET S -> Int], NEW s \in SUBSET S, s # {}
                 PROVE  v[c(s)] + h[s \ {c(s)}] \in Int
      OBVIOUS
    <2> HIDE DEF c
    <2> QED
      BY <1>1
  <1>3. 0 \in Done
    <2> DEFINE z == [s \in SUBSET S |-> 0]
    <2>1. z \in [SUBSET S -> Int]
      OBVIOUS
    <2>2. \A s \in Small(0) : s = {}
      <3> SUFFICES ASSUME NEW s \in SUBSET S, Cardinality(s) <= 0 PROVE s = {}
        OBVIOUS
      <3>1. IsFiniteSet(s)
        BY FS_Subset
      <3> QED
        BY <3>1, FS_CardinalityType, FS_EmptySet
    <2>3. \A s \in Small(0) : z[s] = Next(z)[s]
      BY <2>2
    <2> QED
      BY <2>1, <2>3
  <1>4. ASSUME NEW n \in Nat, n \in Done PROVE n + 1 \in Done
    <2>1. PICK h \in [SUBSET S -> Int] : \A s \in Small(n) : h[s] = Next(h)[s]
      BY <1>4
    <2> DEFINE g == Next(h)
    <2>2. g \in [SUBSET S -> Int]
      BY <1>2
    <2>3. ASSUME NEW s \in Small(n + 1) PROVE g[s] = Next(g)[s]
      <3>1. CASE s = {}
        BY <3>1
      <3>2. CASE s # {}
        <4>1. c(s) \in s
          BY <1>1, <3>2
        <4> HIDE DEF c
        <4>2. /\ s \ {c(s)} \in SUBSET S
              /\ Cardinality(s) \in Nat
              /\ Cardinality(s \ {c(s)}) = Cardinality(s) - 1
          BY <4>1, SmallerSubset
        <4>3. s \ {c(s)} \in Small(n)
          BY <4>2
        <4>4. h[s \ {c(s)}] = g[s \ {c(s)}]
          BY <2>1, <4>3
        <4> HIDE DEF g
        <4>5. Next(h)[s] = Next(g)[s]
          BY <4>4
        <4> QED
          BY <4>5 DEF g
      <3> QED
        BY <3>1, <3>2
    <2>4. n + 1 \in Nat
      OBVIOUS
    <2> HIDE DEF g, Next, Small
    <2> QED
      BY <2>2, <2>3, <2>4
  <1>5. Nat \subseteq Done
    <2> HIDE DEF Done
    <2> QED
      BY <1>3, <1>4, SetInduction
  <1>6. Cardinality(S) \in Nat
    BY FS_CardinalityType
  <1>7. PICK h \in [SUBSET S -> Int] : \A s \in Small(Cardinality(S)) : h[s] = Next(h)[s]
    BY <1>5, <1>6
  <1>8. ASSUME NEW s \in SUBSET S PROVE Cardinality(s) <= Cardinality(S)
    BY FS_Subset
  <1>9. h = Next(h)
    BY <1>7, <1>8
  <1> QED
    BY <1>9 DEF Folded

LEMMA FoldType ==
  ASSUME NEW S, IsFiniteSet(S), NEW v, \A x \in S : v[x] \in Int,
         NEW h, Folded(h, v, S)
  PROVE  h \in [SUBSET S -> Int]
  <1> DEFINE c(s) == CHOOSE x \in s : TRUE
             Done == {n \in Nat : \A s \in SUBSET S : Cardinality(s) = n => h[s] \in Int}
  <1>1. \A s \in SUBSET S : s # {} => c(s) \in s /\ h[s] = v[c(s)] + h[s \ {c(s)}]
    BY DEF Folded
  <1>2. h[{}] = 0
    BY DEF Folded
  <1> HIDE DEF c
  <1>3. 0 \in Done
    <2> SUFFICES ASSUME NEW s \in SUBSET S, Cardinality(s) = 0 PROVE s = {}
      BY <1>2
    <2>1. IsFiniteSet(s)
      BY FS_Subset
    <2> QED
      BY <2>1, FS_EmptySet
  <1>4. ASSUME NEW n \in Nat, n \in Done PROVE n + 1 \in Done
    <2> SUFFICES ASSUME NEW s \in SUBSET S, Cardinality(s) = n + 1, s # {}
                 PROVE  h[s] \in Int
      BY <1>2
    <2> DEFINE y == c(s)
    <2>1. y \in s /\ h[s] = v[y] + h[s \ {y}]
      BY <1>1
    <2> HIDE DEF y
    <2>2. Cardinality(s \ {y}) = n /\ s \ {y} \in SUBSET S
      BY <2>1, SmallerSubset
    <2> QED
      BY <1>4, <2>1, <2>2
  <1>5. Nat \subseteq Done
    <2> HIDE DEF Done
    <2> QED
      BY <1>3, <1>4, SetInduction
  <1>6. ASSUME NEW s \in SUBSET S PROVE h[s] \in Int
    <2>1. Cardinality(s) \in Nat
      BY FS_Subset, FS_CardinalityType
    <2> QED
      BY <1>5, <2>1
  <1>7. h = [s \in SUBSET S |-> h[s]]
    BY DEF Folded
  <1> QED
    BY <1>6, <1>7

LEMMA FoldIsAdditive ==
  ASSUME NEW S, IsFiniteSet(S), NEW v, \A x \in S : v[x] \in Int,
         NEW h \in [SUBSET S -> Int], Folded(h, v, S)
  PROVE  Additive(h, v, S)
  <1> DEFINE c(s) == CHOOSE x \in s : TRUE
             Done == {n \in Nat : \A s \in SUBSET S : Cardinality(s) = n =>
                        \A x \in s : h[s] = v[x] + h[s \ {x}]}
  <1>1. \A s \in SUBSET S : s # {} => c(s) \in s /\ h[s] = v[c(s)] + h[s \ {c(s)}]
    BY DEF Folded
  <1>2. h[{}] = 0
    BY DEF Folded
  <1> HIDE DEF c
  <1>3. 0 \in Done
    <2> SUFFICES ASSUME NEW s \in SUBSET S, Cardinality(s) = 0 PROVE s = {}
      OBVIOUS
    <2>1. IsFiniteSet(s)
      BY FS_Subset
    <2> QED
      BY <2>1, FS_EmptySet
  <1>4. ASSUME NEW n \in Nat, n \in Done PROVE n + 1 \in Done
    <2> SUFFICES ASSUME NEW s \in SUBSET S, Cardinality(s) = n + 1, NEW x \in s
                 PROVE  h[s] = v[x] + h[s \ {x}]
      OBVIOUS
    <2> DEFINE y == c(s)
    <2>1. y \in s /\ h[s] = v[y] + h[s \ {y}]
      BY <1>1
    <2>2. CASE x = y
      BY <2>1, <2>2
    <2>3. CASE x # y
      <3> HIDE DEF y
      <3>1. Cardinality(s \ {x}) = n /\ s \ {x} \in SUBSET S
        BY SmallerSubset
      <3>2. Cardinality(s \ {y}) = n /\ s \ {y} \in SUBSET S
        BY <2>1, SmallerSubset
      <3>3. h[s \ {x}] = v[y] + h[(s \ {x}) \ {y}]
        BY <1>4, <2>1, <2>3, <3>1
      <3>4. h[s \ {y}] = v[x] + h[(s \ {y}) \ {x}]
        BY <1>4, <2>1, <2>3, <3>2
      <3> DEFINE r == (s \ {x}) \ {y}
      <3>5. r \in SUBSET S /\ r = (s \ {y}) \ {x}
        OBVIOUS
      <3>6. h[s \ {x}] = v[y] + h[r] /\ h[s \ {y}] = v[x] + h[r]
        BY <3>3, <3>4, <3>5
      <3>7. h[r] \in Int /\ v[x] \in Int /\ v[y] \in Int
        BY <2>1, <3>5
      <3> HIDE DEF r
      <3> QED
        BY <2>1, <3>6, <3>7
    <2> QED
      BY <2>2, <2>3
  <1>5. Nat \subseteq Done
    <2> HIDE DEF Done
    <2> QED
      BY <1>3, <1>4, SetInduction
  <1>6. ASSUME NEW s \in SUBSET S, NEW x \in s PROVE h[s] = v[x] + h[s \ {x}]
    BY <1>5, SmallerSubset
  <1> QED
    BY <1>2, <1>6 DEF Additive

LEMMA AdditiveExists ==
  ASSUME NEW S, IsFiniteSet(S), NEW v, \A x \in S : v[x] \in Int
  PROVE  \E h : Additive(h, v, S)
  BY FoldExists, FoldIsAdditive

\* Two functions that add up the same values agree on the sets both are about.
LEMMA AdditiveUnique ==
  ASSUME NEW S, IsFiniteSet(S), NEW T, IsFiniteSet(T), NEW v,
         NEW g, Additive(g, v, S), NEW h, Additive(h, v, T)
  PROVE  \A s \in (SUBSET S) \cap (SUBSET T) : g[s] = h[s]
  <1> DEFINE Done == {n \in Nat : \A s \in (SUBSET S) \cap (SUBSET T) :
                        Cardinality(s) = n => g[s] = h[s]}
  <1>1. 0 \in Done
    <2> SUFFICES ASSUME NEW s \in SUBSET S, Cardinality(s) = 0 PROVE s = {}
      BY DEF Additive
    <2>1. IsFiniteSet(s)
      BY FS_Subset
    <2> QED
      BY <2>1, FS_EmptySet
  <1>2. ASSUME NEW n \in Nat, n \in Done PROVE n + 1 \in Done
    <2> SUFFICES ASSUME NEW s \in (SUBSET S) \cap (SUBSET T), Cardinality(s) = n + 1
                 PROVE  g[s] = h[s]
      OBVIOUS
    <2>1. IsFiniteSet(s)
      BY FS_Subset
    <2>2. s # {}
      BY <2>1, FS_EmptySet
    <2>3. PICK x \in s : TRUE
      BY <2>2
    <2>4. s \ {x} \in (SUBSET S) \cap (SUBSET T)
      OBVIOUS
    <2>5. Cardinality(s \ {x}) = n
      BY SmallerSubset
    <2>6. g[s \ {x}] = h[s \ {x}]
      BY <1>2, <2>4, <2>5
    <2> QED
      BY <2>6 DEF Additive
  <1>3. Nat \subseteq Done
    <2> HIDE DEF Done
    <2> QED
      BY <1>1, <1>2, SetInduction
  <1> QED
    <2> SUFFICES ASSUME NEW s \in (SUBSET S) \cap (SUBSET T) PROVE g[s] = h[s]
      OBVIOUS
    <2>1. Cardinality(s) \in Nat
      BY FS_Subset, FS_CardinalityType
    <2> QED
      BY <1>3, <2>1

\* The sum of the library is the fold.
LEMMA SumIsFold ==
  ASSUME NEW S, IsFiniteSet(S), NEW v, NEW h, Additive(h, v, S), \A x \in S : v[x] \in Int
  PROVE  SumFunctionOnSet(v, S) = h[S]
  <1> DEFINE it == CHOOSE g : g = [s \in SUBSET S |->
                     IF s = {} THEN 0
                     ELSE v[CHOOSE x \in s : TRUE] + g[s \ {CHOOSE x \in s : TRUE}]]
  <1>1. SumFunctionOnSet(v, S) = it[S]
    BY DEF SumFunctionOnSet, FoldFunctionOnSet, MapThenFoldSet
  <1>2. \E g : Folded(g, v, S)
    BY FoldExists
  <1>3. Folded(it, v, S)
    BY <1>2, Zenon DEF Folded
  <1> HIDE DEF it
  <1>4. Additive(it, v, S)
    BY <1>3, FoldType, FoldIsAdditive
  <1>5. it[S] = h[S]
    BY <1>4, AdditiveUnique
  <1> QED
    BY <1>1, <1>5

LEMMA SumOfNone ==
  ASSUME NEW v
  PROVE  SumFunctionOnSet(v, {}) = 0
  <1>1. IsFiniteSet({})
    BY FS_EmptySet
  <1>2. PICK h : Additive(h, v, {})
    BY <1>1, AdditiveExists
  <1> QED
    BY <1>1, <1>2, SumIsFold DEF Additive

LEMMA SumType ==
  ASSUME NEW S, IsFiniteSet(S), NEW v, \A x \in S : v[x] \in Int
  PROVE  SumFunctionOnSet(v, S) \in Int
  <1>1. PICK h : Additive(h, v, S)
    BY AdditiveExists
  <1>2. h[S] \in Int
    BY <1>1 DEF Additive
  <1> QED
    BY <1>1, <1>2, SumIsFold

\* The sum, one element at a time.
LEMMA SumTakeOut ==
  ASSUME NEW S, IsFiniteSet(S), NEW v, \A x \in S : v[x] \in Int, NEW x \in S
  PROVE  SumFunctionOnSet(v, S) = v[x] + SumFunctionOnSet(v, S \ {x})
  <1>1. PICK h : Additive(h, v, S)
    BY AdditiveExists
  <1>2. IsFiniteSet(S \ {x}) /\ S \ {x} \in SUBSET S
    BY FS_Subset
  <1>3. Additive([s \in SUBSET (S \ {x}) |-> h[s]], v, S \ {x})
    BY <1>1 DEF Additive
  <1>4. SumFunctionOnSet(v, S \ {x}) = h[S \ {x}]
    BY <1>2, <1>3, SumIsFold
  <1>5. SumFunctionOnSet(v, S) = h[S]
    BY <1>1, SumIsFold
  <1> QED
    BY <1>1, <1>4, <1>5 DEF Additive

LEMMA SumAddOne ==
  ASSUME NEW S, IsFiniteSet(S), NEW x, x \notin S, NEW v, \A y \in S \cup {x} : v[y] \in Int
  PROVE  SumFunctionOnSet(v, S \cup {x}) = SumFunctionOnSet(v, S) + v[x]
  <1>1. IsFiniteSet(S \cup {x})
    BY FS_AddElement
  <1>2. SumFunctionOnSet(v, S \cup {x}) = v[x] + SumFunctionOnSet(v, (S \cup {x}) \ {x})
    BY <1>1, SumTakeOut
  <1>3. (S \cup {x}) \ {x} = S
    OBVIOUS
  <1>4. SumFunctionOnSet(v, S) \in Int /\ v[x] \in Int
    BY SumType
  <1>5. SumFunctionOnSet(v, S \cup {x}) = v[x] + SumFunctionOnSet(v, S)
    BY <1>2, <1>3
  <1> DEFINE a == SumFunctionOnSet(v, S)
             b == SumFunctionOnSet(v, S \cup {x})
  <1>6. a \in Int /\ b = v[x] + a
    BY <1>4, <1>5
  <1> HIDE DEF a, b
  <1>7. b = a + v[x]
    BY <1>4, <1>6
  <1> QED
    BY <1>7 DEF a, b

\* A finite set is reached from the empty one by adding its elements.
LEMMA SetBySet ==
  ASSUME NEW S, IsFiniteSet(S), NEW D, {} \in D,
         \A T \in SUBSET S : \A x \in S \ T : T \in D => T \cup {x} \in D
  PROVE  S \in D
  <1> DEFINE Done == {n \in Nat : \A T \in SUBSET S : Cardinality(T) = n => T \in D}
  <1>1. 0 \in Done
    <2> SUFFICES ASSUME NEW T \in SUBSET S, Cardinality(T) = 0 PROVE T = {}
      OBVIOUS
    <2>1. IsFiniteSet(T)
      BY FS_Subset
    <2> QED
      BY <2>1, FS_EmptySet
  <1>2. ASSUME NEW n \in Nat, n \in Done PROVE n + 1 \in Done
    <2> SUFFICES ASSUME NEW T \in SUBSET S, Cardinality(T) = n + 1 PROVE T \in D
      OBVIOUS
    <2>1. IsFiniteSet(T)
      BY FS_Subset
    <2>2. PICK x \in T : TRUE
      BY <2>1, FS_EmptySet
    <2>3. T \ {x} \in SUBSET S /\ Cardinality(T \ {x}) = n
      BY SmallerSubset
    <2>4. T \ {x} \in D /\ x \in S \ (T \ {x})
      BY <1>2, <2>3
    <2>5. (T \ {x}) \cup {x} = T
      OBVIOUS
    <2>6. (T \ {x}) \cup {x} \in D
      BY <2>3, <2>4
    <2> QED
      BY <2>5, <2>6
  <1>3. Nat \subseteq Done
    <2> HIDE DEF Done
    <2> QED
      BY <1>1, <1>2, SetInduction
  <1> QED
    BY <1>3, FS_CardinalityType

LEMMA SumSame ==
  ASSUME NEW S, IsFiniteSet(S), NEW v, NEW w, \A x \in S : v[x] \in Int /\ w[x] = v[x]
  PROVE  SumFunctionOnSet(v, S) = SumFunctionOnSet(w, S)
  <1>1. PICK h : Additive(h, v, S)
    BY AdditiveExists
  <1>2. Additive(h, w, S)
    BY <1>1 DEF Additive
  <1> QED
    BY <1>1, <1>2, SumIsFold

LEMMA SumAtMost ==
  ASSUME NEW S, IsFiniteSet(S), NEW v, NEW w,
         \A x \in S : v[x] \in Int /\ w[x] \in Int /\ v[x] <= w[x]
  PROVE  SumFunctionOnSet(v, S) <= SumFunctionOnSet(w, S)
  <1> DEFINE D == {T \in SUBSET S : SumFunctionOnSet(v, T) <= SumFunctionOnSet(w, T)}
  <1>1. {} \in D
    BY SumOfNone
  <1>2. ASSUME NEW T \in SUBSET S, NEW x \in S \ T, T \in D PROVE T \cup {x} \in D
    <2>1. IsFiniteSet(T)
      BY FS_Subset
    <2>2. SumFunctionOnSet(v, T) \in Int /\ SumFunctionOnSet(w, T) \in Int
      BY <2>1, SumType
    <2>3. /\ SumFunctionOnSet(v, T \cup {x}) = SumFunctionOnSet(v, T) + v[x]
          /\ SumFunctionOnSet(w, T \cup {x}) = SumFunctionOnSet(w, T) + w[x]
      BY <2>1, SumAddOne
    <2>4. SumFunctionOnSet(v, T) <= SumFunctionOnSet(w, T)
      BY <1>2
    <2> QED
      BY <2>2, <2>3, <2>4
  <1>3. S \in D
    <2> HIDE DEF D
    <2> QED
      BY <1>1, <1>2, SetBySet
  <1> QED
    BY <1>3

\* Equal sums of values that are no larger one by one: they are the same values.
LEMMA SumTight ==
  ASSUME NEW S, IsFiniteSet(S), NEW v, NEW w,
         \A x \in S : v[x] \in Int /\ w[x] \in Int /\ v[x] <= w[x],
         SumFunctionOnSet(v, S) = SumFunctionOnSet(w, S)
  PROVE  \A x \in S : v[x] = w[x]
  <1> SUFFICES ASSUME NEW x \in S PROVE v[x] = w[x]
    OBVIOUS
  <1>1. IsFiniteSet(S \ {x})
    BY FS_Subset
  <1>2. SumFunctionOnSet(v, S \ {x}) <= SumFunctionOnSet(w, S \ {x})
    BY <1>1, SumAtMost
  <1>3. /\ SumFunctionOnSet(v, S) = v[x] + SumFunctionOnSet(v, S \ {x})
        /\ SumFunctionOnSet(w, S) = w[x] + SumFunctionOnSet(w, S \ {x})
    BY SumTakeOut
  <1>4. SumFunctionOnSet(v, S \ {x}) \in Int /\ SumFunctionOnSet(w, S \ {x}) \in Int
    BY <1>1, SumType
  <1>5. v[x] \in Int /\ w[x] \in Int /\ v[x] <= w[x]
    OBVIOUS
  <1> DEFINE a == SumFunctionOnSet(v, S \ {x})
             b == SumFunctionOnSet(w, S \ {x})
             p == v[x]
             q == w[x]
  <1>6. a \in Int /\ b \in Int /\ a <= b /\ p + a = q + b
    BY <1>2, <1>3, <1>4
  <1>7. p \in Int /\ q \in Int /\ p <= q
    BY <1>5
  <1> HIDE DEF a, b, p, q
  <1>8. p = q
    BY <1>6, <1>7
  <1> QED
    BY <1>8 DEF p, q

LEMMA SumOfUnion ==
  ASSUME NEW S, IsFiniteSet(S), NEW R, IsFiniteSet(R), S \cap R = {},
         NEW v, \A x \in S \cup R : v[x] \in Int
  PROVE  SumFunctionOnSet(v, S \cup R) = SumFunctionOnSet(v, S) + SumFunctionOnSet(v, R)
  <1> DEFINE D == {T \in SUBSET R : SumFunctionOnSet(v, S \cup T)
                     = SumFunctionOnSet(v, S) + SumFunctionOnSet(v, T)}
  <1>0. SumFunctionOnSet(v, S) \in Int
    BY SumType
  <1>1. {} \in D
    <2>1. S \cup {} = S
      OBVIOUS
    <2> QED
      BY <1>0, <2>1, SumOfNone
  <1>2. ASSUME NEW T \in SUBSET R, NEW x \in R \ T, T \in D PROVE T \cup {x} \in D
    <2>1. IsFiniteSet(T) /\ IsFiniteSet(S \cup T)
      BY FS_Subset, FS_Union
    <2>2. SumFunctionOnSet(v, T) \in Int /\ v[x] \in Int
      BY <2>1, SumType
    <2>3. SumFunctionOnSet(v, T \cup {x}) = SumFunctionOnSet(v, T) + v[x]
      BY <2>1, SumAddOne
    <2>4. SumFunctionOnSet(v, (S \cup T) \cup {x}) = SumFunctionOnSet(v, S \cup T) + v[x]
      BY <2>1, SumAddOne
    <2>5. (S \cup T) \cup {x} = S \cup (T \cup {x})
      OBVIOUS
    <2>6. SumFunctionOnSet(v, S \cup T) = SumFunctionOnSet(v, S) + SumFunctionOnSet(v, T)
      BY <1>2
    <2>7. SumFunctionOnSet(v, S \cup (T \cup {x}))
            = SumFunctionOnSet(v, S) + SumFunctionOnSet(v, T \cup {x})
      <3> DEFINE a == SumFunctionOnSet(v, S)
                 b == SumFunctionOnSet(v, T)
                 c == SumFunctionOnSet(v, S \cup T)
      <3>1. a \in Int /\ b \in Int /\ c = a + b
        BY <1>0, <2>2, <2>6
      <3>2. /\ SumFunctionOnSet(v, T \cup {x}) = b + v[x]
            /\ SumFunctionOnSet(v, S \cup (T \cup {x})) = c + v[x]
        BY <2>3, <2>4, <2>5
      <3> HIDE DEF a, b, c
      <3>3. c + v[x] = a + (b + v[x])
        BY <2>2, <3>1
      <3> QED
        BY <3>2, <3>3 DEF a
    <2> QED
      BY <2>7
  <1>3. R \in D
    <2> HIDE DEF D
    <2> QED
      BY <1>1, <1>2, SetBySet
  <1> QED
    BY <1>3

LEMMA SumNotNegative ==
  ASSUME NEW S, IsFiniteSet(S), NEW v, \A x \in S : v[x] \in Nat
  PROVE  SumFunctionOnSet(v, S) \in Nat
  <1> DEFINE D == {T \in SUBSET S : SumFunctionOnSet(v, T) \in Nat}
  <1>1. {} \in D
    BY SumOfNone
  <1>2. ASSUME NEW T \in SUBSET S, NEW x \in S \ T, T \in D PROVE T \cup {x} \in D
    <2>1. IsFiniteSet(T)
      BY FS_Subset
    <2>2. SumFunctionOnSet(v, T \cup {x}) = SumFunctionOnSet(v, T) + v[x]
      BY <2>1, SumAddOne
    <2> DEFINE a == SumFunctionOnSet(v, T)
    <2>3. a \in Nat /\ v[x] \in Nat
      BY <1>2
    <2> HIDE DEF a
    <2>4. a + v[x] \in Nat
      BY <2>3
    <2> QED
      BY <2>2, <2>4 DEF a
  <1>3. S \in D
    <2> HIDE DEF D
    <2> QED
      BY <1>1, <1>2, SetBySet
  <1> QED
    BY <1>3

LEMMA SumOfSums ==
  ASSUME NEW S, IsFiniteSet(S), NEW v, NEW w, \A x \in S : v[x] \in Int /\ w[x] \in Int
  PROVE  SumFunctionOnSet([x \in S |-> v[x] + w[x]], S)
           = SumFunctionOnSet(v, S) + SumFunctionOnSet(w, S)
  <1> DEFINE u == [x \in S |-> v[x] + w[x]]
  <1>1. PICK g : Additive(g, v, S)
    BY AdditiveExists
  <1>2. PICK h : Additive(h, w, S)
    BY AdditiveExists
  <1> DEFINE k == [s \in SUBSET S |-> g[s] + h[s]]
  <1>3. \A s \in SUBSET S : g[s] \in Int /\ h[s] \in Int /\ k[s] \in Int
    BY <1>1, <1>2 DEF Additive
  <1>4. ASSUME NEW s \in SUBSET S, NEW x \in s PROVE k[s] = u[x] + k[s \ {x}]
    <2> DEFINE r == s \ {x}
    <2>1. r \in SUBSET S /\ x \in S
      OBVIOUS
    <2>2. g[s] = v[x] + g[r] /\ h[s] = w[x] + h[r]
      BY <1>1, <1>2 DEF Additive
    <2> HIDE DEF r
    <2>3. k[s] = g[s] + h[s] /\ k[r] = g[r] + h[r] /\ u[x] = v[x] + w[x]
      BY <2>1
    <2>4. g[r] \in Int /\ h[r] \in Int /\ v[x] \in Int /\ w[x] \in Int
      BY <1>3, <2>1
    <2> HIDE DEF k, u
    <2>5. k[s] = u[x] + k[r]
      BY <2>2, <2>3, <2>4
    <2> QED
      BY <2>5 DEF r
  <1>5. k[{}] = 0
    BY <1>1, <1>2 DEF Additive
  <1>6. Additive(k, u, S)
    <2>1. k \in [SUBSET S -> Int]
      BY <1>3
    <2> HIDE DEF k, u
    <2> QED
      BY <1>4, <1>5, <2>1 DEF Additive
  <1>7. \A x \in S : u[x] \in Int
    OBVIOUS
  <1>8. k[S] = g[S] + h[S]
    OBVIOUS
  <1> HIDE DEF u, k
  <1>9. SumFunctionOnSet(u, S) = k[S]
    BY <1>6, <1>7, SumIsFold
  <1>10. SumFunctionOnSet(v, S) = g[S] /\ SumFunctionOnSet(w, S) = h[S]
    BY <1>1, <1>2, SumIsFold
  <1> QED
    BY <1>8, <1>9, <1>10 DEF u

\* A sum over a range is the same from its end.
LEMMA SumFromEnd ==
  ASSUME NEW N \in Nat, NEW f, \A n \in 1..N : f[n] \in Int
  PROVE  SumFunctionOnSet([n \in 1..N |-> f[N + 1 - n]], 1..N) = SumFunctionOnSet(f, 1..N)
  <1> DEFINE S == 1..N
             w == [n \in S |-> f[N + 1 - n]]
             Mirror(s) == {N + 1 - y : y \in s}
  <1>1. IsFiniteSet(S)
    BY FS_Interval
  <1>2. PICK h : Additive(h, f, S)
    BY <1>1, AdditiveExists
  <1> DEFINE k == [s \in SUBSET S |-> h[Mirror(s)]]
  <1>3. \A s \in SUBSET S : Mirror(s) \in SUBSET S
    OBVIOUS
  <1>4. Mirror({}) = {} /\ Mirror(S) = S
    <2>1. Mirror({}) = {}
      OBVIOUS
    <2>2. \A n \in S : n \in Mirror(S)
      <3> SUFFICES ASSUME NEW n \in S PROVE N + 1 - n \in S /\ N + 1 - (N + 1 - n) = n
        OBVIOUS
      <3> QED
        OBVIOUS
    <2> QED
      BY <1>3, <2>1, <2>2
  <1>5. ASSUME NEW s \in SUBSET S, NEW x \in s
        PROVE  k[s] = w[x] + k[s \ {x}]
    <2>1. Mirror(s \ {x}) = Mirror(s) \ {N + 1 - x}
      <3> SUFFICES ASSUME NEW y \in s
                   PROVE  N + 1 - y = N + 1 - x <=> y = x
        OBVIOUS
      <3>1. x \in Int /\ y \in Int
        OBVIOUS
      <3> QED
        BY <3>1
    <2>2. N + 1 - x \in Mirror(s) /\ Mirror(s) \in SUBSET S /\ s \ {x} \in SUBSET S
      BY <1>3
    <2>3. k[s] = h[Mirror(s)] /\ k[s \ {x}] = h[Mirror(s) \ {N + 1 - x}]
      BY <2>1, <2>2
    <2>4. w[x] = f[N + 1 - x]
      OBVIOUS
    <2> HIDE DEF k, w, Mirror
    <2> QED
      BY <1>2, <2>2, <2>3, <2>4 DEF Additive
  <1>6. Additive(k, w, S)
    <2>1. k \in [SUBSET S -> Int]
      BY <1>2, <1>3 DEF Additive
    <2>2. k[{}] = 0
      BY <1>2, <1>4 DEF Additive
    <2> HIDE DEF k, w, S
    <2> QED
      BY <1>5, <2>1, <2>2 DEF Additive
  <1>7. \A n \in S : w[n] \in Int
    <2> SUFFICES ASSUME NEW n \in S PROVE N + 1 - n \in S
      OBVIOUS
    <2> QED
      OBVIOUS
  <1>8. k[S] = h[S]
    BY <1>4
  <1>9. \A n \in S : f[n] \in Int
    OBVIOUS
  <1> HIDE DEF S, w, k
  <1>10. SumFunctionOnSet(w, S) = k[S] /\ SumFunctionOnSet(f, S) = h[S]
    BY <1>1, <1>2, <1>6, <1>7, <1>9, SumIsFold
  <1> QED
    BY <1>8, <1>10 DEF S, w

\* The differences of neighbours add up to the difference of the ends.
LEMMA SumTelescopes ==
  ASSUME NEW N \in Nat, NEW f, \A n \in 0..N : f[n] \in Int,
         NEW d, \A n \in 1..N : d[n] = f[n - 1] - f[n]
  PROVE  SumFunctionOnSet(d, 1..N) = f[0] - f[N]
  <1> DEFINE Done == {n \in Nat : n <= N => SumFunctionOnSet(d, 1..n) = f[0] - f[n]}
  <1>1. 0 \in Done
    <2>1. 1..0 = {}
      OBVIOUS
    <2>2. f[0] \in Int
      OBVIOUS
    <2> QED
      BY <2>1, <2>2, SumOfNone
  <1>2. ASSUME NEW n \in Nat, n \in Done PROVE n + 1 \in Done
    <2> SUFFICES ASSUME n + 1 <= N
                 PROVE  SumFunctionOnSet(d, 1..(n + 1)) = f[0] - f[n + 1]
      OBVIOUS
    <2>1. 1..(n + 1) = (1..n) \cup {n + 1} /\ n + 1 \notin 1..n
      OBVIOUS
    <2>2. \A y \in 1..(n + 1) : d[y] \in Int
      OBVIOUS
    <2>3. IsFiniteSet(1..n)
      BY FS_Interval
    <2>4. SumFunctionOnSet(d, 1..(n + 1)) = SumFunctionOnSet(d, 1..n) + d[n + 1]
      <3> DEFINE S == 1..n
                 x == n + 1
      <3>1. IsFiniteSet(S) /\ x \notin S /\ \A y \in S \cup {x} : d[y] \in Int
        BY <2>1, <2>2, <2>3
      <3> HIDE DEF S, x
      <3>2. SumFunctionOnSet(d, S \cup {x}) = SumFunctionOnSet(d, S) + d[x]
        BY <3>1, SumAddOne
      <3> QED
        BY <2>1, <3>2 DEF S, x
    <2>5. SumFunctionOnSet(d, 1..n) = f[0] - f[n]
      BY <1>2
    <2>6. f[0] \in Int /\ f[n] \in Int /\ f[n + 1] \in Int /\ d[n + 1] = f[n] - f[n + 1]
      OBVIOUS
    <2> QED
      BY <2>4, <2>5, <2>6
  <1>3. Nat \subseteq Done
    <2> HIDE DEF Done
    <2> QED
      BY <1>1, <1>2, SetInduction
  <1> QED
    BY <1>3

\* A function whose value at a number is computed from the value before exists.
Maps(g, N, V) == \A n \in 1..N : \A x \in V : g[n][x] \in V
Iterates(f, g, a, N) == f[0] = a /\ \A n \in 1..N : f[n] = g[n][f[n - 1]]

LEMMA RecursionExists ==
  ASSUME NEW N \in Nat, NEW V, NEW a \in V, NEW g, Maps(g, N, V)
  PROVE  \E f \in [0..N -> V] : Iterates(f, g, a, N)
  <1> DEFINE Next(f) == [n \in 0..N |-> IF n = 0 THEN a ELSE g[n][f[n - 1]]]
             Done == {k \in Nat : \E f \in [0..N -> V] :
                        \A n \in 0..N : n <= k => f[n] = Next(f)[n]}
  <1>1. \A f \in [0..N -> V] : Next(f) \in [0..N -> V]
    BY DEF Maps
  <1>2. 0 \in Done
    <2> DEFINE f == [n \in 0..N |-> a]
    <2>1. f \in [0..N -> V]
      OBVIOUS
    <2>2. ASSUME NEW n \in 0..N, n <= 0 PROVE f[n] = Next(f)[n]
      BY <2>2
    <2> HIDE DEF f, Next
    <2> QED
      BY <2>1, <2>2
  <1>3. ASSUME NEW k \in Nat, k \in Done PROVE k + 1 \in Done
    <2>1. PICK f \in [0..N -> V] : \A n \in 0..N : n <= k => f[n] = Next(f)[n]
      BY <1>3
    <2> DEFINE h == Next(f)
    <2>2. h \in [0..N -> V]
      BY <1>1
    <2>3. ASSUME NEW n \in 0..N, n <= k + 1 PROVE h[n] = Next(h)[n]
      <3>1. CASE n = 0
        BY <3>1
      <3>2. CASE n # 0
        <4>1. n - 1 \in 0..N /\ n - 1 <= k
          BY <2>3, <3>2
        <4>2. f[n - 1] = h[n - 1]
          BY <2>1, <4>1
        <4> HIDE DEF h
        <4>3. Next(f)[n] = Next(h)[n]
          BY <4>2
        <4> QED
          BY <4>3 DEF h
      <3> QED
        BY <3>1, <3>2
    <2> HIDE DEF h, Next
    <2>4. k + 1 \in Nat
      OBVIOUS
    <2> QED
      BY <2>2, <2>3, <2>4
  <1>4. Nat \subseteq Done
    <2> HIDE DEF Done
    <2> QED
      BY <1>2, <1>3, SetInduction
  <1>5. PICK f \in [0..N -> V] : \A n \in 0..N : n <= N => f[n] = Next(f)[n]
    BY <1>4
  <1>6. f = Next(f)
    BY <1>5
  <1>7. f[0] = a
    BY <1>6
  <1>8. ASSUME NEW n \in 1..N PROVE f[n] = g[n][f[n - 1]]
    <2>1. n \in 0..N /\ n # 0
      OBVIOUS
    <2>2. f[n] = Next(f)[n]
      BY <1>6
    <2> QED
      BY <2>1, <2>2
  <1> HIDE DEF Next
  <1> QED
    BY <1>7, <1>8 DEF Iterates
--------------------------------------------------------------------------------
\* A strict total order of a finite set puts it in one sequence.
Orders(R, S) ==
  /\ \A x \in S : <<x, x>> \notin R
  /\ \A x, y, z \in S : <<x, y>> \in R /\ <<y, z>> \in R => <<x, z>> \in R
  /\ \A x, y \in S : x # y => <<x, y>> \in R \/ <<y, x>> \in R

LEMMA SequenceOfSet ==
  ASSUME NEW S, IsFiniteSet(S), NEW R, Orders(R, S)
  PROVE  \E s \in [1..Cardinality(S) -> S] :
           \A i, j \in 1..Cardinality(S) : i < j => <<s[i], s[j]>> \in R
<1> DEFINE N == Cardinality(S)
           Upto(x) == {y \in S : y = x \/ <<y, x>> \in R}
           rank == [x \in S |-> Cardinality(Upto(x))]
<1>1. N \in Nat
  BY FS_CardinalityType
<1>2. ASSUME NEW x \in S PROVE IsFiniteSet(Upto(x)) /\ rank[x] \in 1..N
  <2>1. Upto(x) \in SUBSET S /\ x \in Upto(x)
    OBVIOUS
  <2> DEFINE U == Upto(x)
  <2>2. IsFiniteSet(U) /\ Cardinality(U) <= N
    BY <2>1, FS_Subset
  <2>3. Cardinality(U) \in Nat
    BY <2>2, FS_CardinalityType
  <2>4. Cardinality(U) # 0
    BY <2>1, <2>2, FS_EmptySet
  <2>5. rank[x] = Cardinality(U)
    OBVIOUS
  <2> QED
    BY <1>1, <2>2, <2>3, <2>4, <2>5
<1>3. ASSUME NEW x \in S, NEW y \in S, <<x, y>> \in R PROVE rank[x] < rank[y]
  <2> DEFINE A == Upto(x)
             B == Upto(y)
  <2>1. A \in SUBSET B
    BY <1>3 DEF Orders
  <2>2. y \in B /\ y \notin A
    BY <1>3 DEF Orders
  <2>3. IsFiniteSet(A) /\ IsFiniteSet(B)
    BY <1>2
  <2>4. Cardinality(A) \in Nat /\ Cardinality(B) \in Nat
    BY <2>3, FS_CardinalityType
  <2>5. rank[x] = Cardinality(A) /\ rank[y] = Cardinality(B)
    OBVIOUS
  <2> HIDE DEF A, B
  <2>6. Cardinality(A) <= Cardinality(B) /\ (Cardinality(A) = Cardinality(B) => A = B)
    BY <2>1, <2>3, FS_Subset
  <2> QED
    BY <2>2, <2>4, <2>5, <2>6
<1>4. rank \in [S -> 1..N]
  BY <1>2
<1> HIDE DEF rank
<1>5. \A x \in S : rank[x] \in Int
  BY <1>1, <1>4
<1>6. \A x, y \in S : rank[x] = rank[y] => x = y
  <2> SUFFICES ASSUME NEW x \in S, NEW y \in S, rank[x] = rank[y], x # y PROVE FALSE
    OBVIOUS
  <2>1. <<x, y>> \in R \/ <<y, x>> \in R
    BY DEF Orders
  <2>2. rank[x] < rank[y] \/ rank[y] < rank[x]
    BY <2>1, <1>3
  <2> QED
    BY <1>5, <2>2
<1>7. rank \in Injection(S, 1..N)
  BY <1>4, <1>6 DEF Injection, IsInjective
<1>8. rank \in Surjection(S, 1..N)
  <2>1. IsFiniteSet(1..N) /\ Cardinality(1..N) = N
    BY <1>1, FS_Interval
  <2> QED
    BY <1>7, <2>1, FS_Injection
<1>9. \A i \in 1..N : \E x \in S : rank[x] = i
  BY <1>8 DEF Surjection
<1> DEFINE s == [i \in 1..N |-> CHOOSE x \in S : rank[x] = i]
<1>10. \A i \in 1..N : s[i] \in S /\ rank[s[i]] = i
  BY <1>9
<1>11. s \in [1..N -> S]
  BY <1>10
<1> HIDE DEF s
<1>12. ASSUME NEW i \in 1..N, NEW j \in 1..N, i < j PROVE <<s[i], s[j]>> \in R
  <2>1. s[i] # s[j]
    BY <1>1, <1>10, <1>12
  <2>2. CASE <<s[j], s[i]>> \in R
    <3>1. rank[s[j]] < rank[s[i]]
      BY <1>3, <1>10, <2>2
    <3> QED
      BY <1>1, <1>10, <1>12, <3>1
  <2> QED
    BY <1>10, <2>1, <2>2 DEF Orders
<1> QED
  BY <1>11, <1>12
================================================================================
