------------------------------ MODULE SumLemmas ------------------------------
(***************************************************************************)
(* What the proofs need of integers and of sums over a finite set.         *)
(* MapThenSumSet adds its values up in an order CHOOSE fixes; SumOf is the *)
(* same sum of a function, and the lemmas say that it exists, that the     *)
(* order does not matter, and how it follows its terms. Induction is over  *)
(* a set of naturals or of subsets, never over a predicate: such a lemma   *)
(* can be cited by name.                                                   *)
(***************************************************************************)
EXTENDS Integers, FiniteSetsExt, FiniteSetTheorems, TLAPS

Pick(s) == CHOOSE x \in s : TRUE
(* The running sums of f over the subsets of S.                            *)
Adds(g, f, S) ==
  g = [s \in SUBSET S |-> IF s = {} THEN 0 ELSE f[Pick(s)] + g[s \ {Pick(s)}]]
SumOf(f, S) == (CHOOSE g : Adds(g, f, S))[S]
-----------------------------------------------------------------------------
(* A set of naturals has a least element.                                  *)
LEMMA LeastNatural ==
  ASSUME NEW T, T \subseteq Nat, T # {}
  PROVE  \E x \in T : \A y \in T : x <= y
<1> DEFINE R == OpToRel(<, Nat)
<1>1. IsWellFoundedOn(R, Nat)
  BY NatLessThanWellFounded
<1>2. PICK x \in T : \A y \in T : ~(<<y, x>> \in R)
  <2> HIDE DEF R
  <2> QED BY WFMin, <1>1
<1>3. \A y \in T : ~(y < x)
  BY <1>2 DEF OpToRel
<1> QED BY <1>3

(* A set of naturals that holds 0, and n + 1 with every n, holds them all. *)
LEMMA NatSetInduction ==
  ASSUME NEW P, 0 \in P, \A n \in Nat : n \in P => n + 1 \in P
  PROVE  Nat \subseteq P
<1> DEFINE T == {n \in Nat : n \notin P}
<1>1. CASE T # {}
  <2>1. PICK x \in T : \A y \in T : x <= y
    BY <1>1, LeastNatural
  <2>2. x - 1 \in T
    BY <2>1
  <2> QED BY <2>1, <2>2
<1> QED BY <1>1

(* What holds of a subset once it holds of it less any one element holds   *)
(* of the whole set.                                                       *)
LEMMA SubsetInduction ==
  ASSUME NEW S, IsFiniteSet(S), NEW P,
         \A s \in SUBSET S : (\A x \in s : s \ {x} \in P) => s \in P
  PROVE  S \in P
<1> DEFINE Small(n) == {s \in SUBSET S : Cardinality(s) <= n}
           Q == {n \in Nat : Small(n) \subseteq P}
<1>1. \A s \in SUBSET S : IsFiniteSet(s) /\ Cardinality(s) \in Nat
  BY FS_Subset, FS_CardinalityType
<1>2. 0 \in Q
  <2>1. \A s \in SUBSET S : Cardinality(s) <= 0 => s = {}
    BY <1>1, FS_EmptySet
  <2>2. {} \in P
    OBVIOUS
  <2> QED BY <2>1, <2>2
<1>3. ASSUME NEW n \in Nat, n \in Q
      PROVE  n + 1 \in Q
  <2>1. ASSUME NEW s \in SUBSET S, Cardinality(s) <= n + 1, NEW x \in s
        PROVE  s \ {x} \in P
    <3>1. Cardinality(s \ {x}) = Cardinality(s) - 1
      BY <1>1, FS_RemoveElement
    <3>2. Cardinality(s \ {x}) <= n
      BY <1>1, <2>1, <3>1
    <3> QED BY <1>3, <3>2
  <2> QED BY <2>1
<1>4. Nat \subseteq Q
  <2> HIDE DEF Q
  <2> QED BY <1>2, <1>3, NatSetInduction
<1> QED BY <1>1, <1>4

(* Quotient and remainder.                                                 *)
LEMMA Division ==
  ASSUME NEW n \in Nat, NEW d \in Nat \ {0}
  PROVE  n \div d \in Nat /\ n % d \in 0 .. d - 1 /\ n = d * (n \div d) + (n % d)
<1> DEFINE q == n \div d
           r == n % d
<1>1. q \in Nat /\ r \in Nat
  OBVIOUS
<1>2. n = d * q + r
  BY Z3
<1>3. d * q <= n /\ n < d * (q + 1)
  OBVIOUS
<1> HIDE DEF q, r
<1>4. d * (q + 1) = d * q + d
  BY <1>1
<1>5. r < d
  <2>1. d * q \in Nat
    BY <1>1
  <2> QED BY <1>1, <1>2, <1>3, <1>4, <2>1
<1>6. q \in Nat /\ r \in 0 .. d - 1 /\ n = d * q + r
  BY <1>1, <1>2, <1>5
<1> QED BY <1>6 DEF q, r

(* A finite set of integers has a greatest element and a least one.        *)
LEMMA MaxMinExist ==
  ASSUME NEW S, IsFiniteSet(S), S \subseteq Int, S # {}
  PROVE  /\ Max(S) \in S /\ \A y \in S : y <= Max(S)
         /\ Min(S) \in S /\ \A y \in S : Min(S) <= y
<1> DEFINE Top(s) == \E x \in s : \A y \in s : x >= y
           Bottom(s) == \E x \in s : \A y \in s : x <= y
           P == {s \in SUBSET S : s # {} => Top(s) /\ Bottom(s)}
<1>1. ASSUME NEW s \in SUBSET S, \A x \in s : s \ {x} \in P
      PROVE  s \in P
  <2> SUFFICES ASSUME s # {} PROVE Top(s) /\ Bottom(s)
    OBVIOUS
  <2>1. PICK a \in s : TRUE
    OBVIOUS
  <2>2. CASE s \ {a} = {}
    BY <2>1, <2>2
  <2>3. CASE s \ {a} # {}
    <3>1. Top(s \ {a}) /\ Bottom(s \ {a})
      BY <1>1, <2>1, <2>3
    <3>2. PICK x \in s \ {a} : \A y \in s \ {a} : x >= y
      BY <3>1
    <3>3. PICK z \in s \ {a} : \A y \in s \ {a} : z <= y
      BY <3>1
    <3>4. Top(s)
      BY <2>1, <3>2
    <3>5. Bottom(s)
      BY <2>1, <3>3
    <3> QED BY <3>4, <3>5
  <2> QED BY <2>2, <2>3
<1>2. S \in P
  <2> HIDE DEF P
  <2> QED BY <1>1, SubsetInduction
<1> QED BY <1>2 DEF Max, Min

(* The running sums exist.                                                 *)
LEMMA AddsExists ==
  ASSUME NEW S, IsFiniteSet(S), NEW f
  PROVE  \E g : Adds(g, f, S)
<1> DEFINE Small(n) == {s \in SUBSET S : Cardinality(s) <= n}
           Upto(g, n) == g = [s \in Small(n) |->
                               IF s = {} THEN 0 ELSE f[Pick(s)] + g[s \ {Pick(s)}]]
           Q == {n \in Nat : \E g : Upto(g, n)}
<1>1. \A s \in SUBSET S : IsFiniteSet(s) /\ Cardinality(s) \in Nat
  BY FS_Subset, FS_CardinalityType
<1>2. 0 \in Q
  <2>1. \A s \in Small(0) : s = {}
    BY <1>1, FS_EmptySet
  <2>2. Upto([s \in Small(0) |-> 0], 0)
    BY <2>1
  <2> QED BY <2>2
<1>3. ASSUME NEW n \in Nat, n \in Q
      PROVE  n + 1 \in Q
  <2>1. PICK g : Upto(g, n)
    BY <1>3
  <2> DEFINE h == [s \in Small(n + 1) |->
                     IF s = {} THEN 0 ELSE f[Pick(s)] + g[s \ {Pick(s)}]]
  <2>2. ASSUME NEW s \in Small(n)
        PROVE  s \in Small(n + 1) /\ h[s] = g[s]
    <3>1. s \in Small(n + 1)
      BY <1>1
    <3>2. g[s] = IF s = {} THEN 0 ELSE f[Pick(s)] + g[s \ {Pick(s)}]
      BY <2>1
    <3> QED BY <3>1, <3>2
  <2>3. ASSUME NEW s \in Small(n + 1), s # {}
        PROVE  s \ {Pick(s)} \in Small(n)
    <3>1. Pick(s) \in s
      BY <2>3 DEF Pick
    <3>2. Cardinality(s \ {Pick(s)}) = Cardinality(s) - 1
      BY <1>1, <3>1, FS_RemoveElement
    <3> QED BY <1>1, <3>2
  <2>4. \A s \in Small(n + 1) :
          h[s] = IF s = {} THEN 0 ELSE f[Pick(s)] + h[s \ {Pick(s)}]
    BY <2>2, <2>3
  <2>5. Upto(h, n + 1)
    BY <2>4
  <2> HIDE DEF h, Upto
  <2> QED BY <2>5
<1>4. Nat \subseteq Q
  <2> HIDE DEF Q
  <2> QED BY <1>2, <1>3, NatSetInduction
<1>5. Cardinality(S) \in Nat
  BY FS_CardinalityType
<1>6. Small(Cardinality(S)) = SUBSET S
  BY FS_Subset
<1>7. PICK g : Upto(g, Cardinality(S))
  BY <1>4, <1>5
<1> QED BY <1>6, <1>7 DEF Adds

(* There is one of them.                                                   *)
LEMMA AddsUnique ==
  ASSUME NEW S, IsFiniteSet(S), NEW f, NEW g, NEW h, Adds(g, f, S), Adds(h, f, S)
  PROVE  g = h
<1> DEFINE P == {s \in SUBSET S : g[s] = h[s]}
<1>1. ASSUME NEW s \in SUBSET S, \A x \in s : s \ {x} \in P
      PROVE  s \in P
  <2>1. CASE s = {}
    BY <2>1 DEF Adds
  <2>2. CASE s # {}
    <3>1. Pick(s) \in s
      BY <2>2 DEF Pick
    <3>2. g[s \ {Pick(s)}] = h[s \ {Pick(s)}]
      BY <1>1, <3>1
    <3>3. /\ g[s] = f[Pick(s)] + g[s \ {Pick(s)}]
          /\ h[s] = f[Pick(s)] + h[s \ {Pick(s)}]
      BY <2>2 DEF Adds
    <3> QED BY <3>2, <3>3
  <2> QED BY <2>1, <2>2
<1>2. \A t \in SUBSET S : t \in P
  <2> TAKE t \in SUBSET S
  <2>1. IsFiniteSet(t)
    BY FS_Subset
  <2>2. \A s \in SUBSET t : (\A x \in s : s \ {x} \in P) => s \in P
    BY <1>1
  <2> HIDE DEF P
  <2> QED BY <2>1, <2>2, SubsetInduction
<1>3. \A t \in SUBSET S : g[t] = h[t]
  BY <1>2
<1> QED BY <1>3 DEF Adds

(* The sum is the last of the running sums, and each of these is the sum   *)
(* over its subset.                                                        *)
LEMMA SumIsRunning ==
  ASSUME NEW S, IsFiniteSet(S), NEW f, NEW g, Adds(g, f, S), NEW T \in SUBSET S
  PROVE  SumOf(f, T) = g[T]
<1> DEFINE h == [s \in SUBSET T |-> g[s]]
           k == CHOOSE k : Adds(k, f, T)
<1>1. IsFiniteSet(T)
  BY FS_Subset
<1>2. Adds(h, f, T)
  <2>1. ASSUME NEW s \in SUBSET T
        PROVE  h[s] = IF s = {} THEN 0 ELSE f[Pick(s)] + h[s \ {Pick(s)}]
    BY DEF Adds
  <2>2. \A s \in SUBSET T : h[s] = IF s = {} THEN 0 ELSE f[Pick(s)] + h[s \ {Pick(s)}]
    BY <2>1
  <2> QED BY <2>2 DEF Adds
<1>3. Adds(k, f, T)
  <2> HIDE DEF h
  <2> QED BY <1>2
<1>4. k = h
  <2> HIDE DEF h, k
  <2> QED BY <1>1, <1>2, <1>3, AddsUnique
<1> QED BY <1>4 DEF SumOf

(* Nothing adds up to 0.                                                   *)
LEMMA SumEmpty ==
  ASSUME NEW f
  PROVE  SumOf(f, {}) = 0
<1>1. PICK g : Adds(g, f, {})
  BY FS_EmptySet, AddsExists
<1>2. SumOf(f, {}) = g[{}]
  BY <1>1, FS_EmptySet, SumIsRunning
<1> QED BY <1>1, <1>2 DEF Adds

(* A sum of integers is an integer, of naturals a natural.                 *)
LEMMA SumType ==
  ASSUME NEW S, IsFiniteSet(S), NEW f, \A x \in S : f[x] \in Int
  PROVE  /\ SumOf(f, S) \in Int
         /\ (\A x \in S : f[x] >= 0) => SumOf(f, S) >= 0
<1>1. PICK g : Adds(g, f, S)
  BY AddsExists
<1> DEFINE P == {s \in SUBSET S :
                   g[s] \in Int /\ ((\A x \in S : f[x] >= 0) => g[s] >= 0)}
<1>2. ASSUME NEW s \in SUBSET S, \A x \in s : s \ {x} \in P
      PROVE  s \in P
  <2>1. CASE s = {}
    BY <1>1, <2>1 DEF Adds
  <2>2. CASE s # {}
    <3>1. Pick(s) \in s
      BY <2>2 DEF Pick
    <3>2. g[s] = f[Pick(s)] + g[s \ {Pick(s)}]
      BY <1>1, <2>2 DEF Adds
    <3> QED BY <1>2, <3>1, <3>2
  <2> QED BY <2>1, <2>2
<1>3. S \in P
  <2> HIDE DEF P
  <2> QED BY <1>2, SubsetInduction
<1> QED BY <1>1, <1>3, SumIsRunning

(* The order of the terms does not matter: any of them may be the first.   *)
LEMMA SumStep ==
  ASSUME NEW S, IsFiniteSet(S), NEW f, \A x \in S : f[x] \in Int, NEW a \in S
  PROVE  SumOf(f, S) = f[a] + SumOf(f, S \ {a})
<1>1. PICK g : Adds(g, f, S)
  BY AddsExists
<1>2. \A s \in SUBSET S : SumOf(f, s) = g[s]
  BY <1>1, SumIsRunning
<1>3. \A s \in SUBSET S : g[s] \in Int
  BY <1>2, SumType, FS_Subset
<1> DEFINE Holds(s) == \A x \in s : g[s] = f[x] + g[s \ {x}]
           P == {s \in SUBSET S : Holds(s) /\ \A y \in s : Holds(s \ {y})}
<1>4. ASSUME NEW s \in SUBSET S, \A x \in s : s \ {x} \in P
      PROVE  s \in P
  <2>1. \A y \in s : Holds(s \ {y})
    BY <1>4
  <2>2. ASSUME NEW x \in s
        PROVE  g[s] = f[x] + g[s \ {x}]
    <3> DEFINE p == Pick(s)
    <3>1. p \in s
      BY <2>2 DEF Pick
    <3>2. g[s] = f[p] + g[s \ {p}]
      BY <1>1, <2>2 DEF Adds
    <3> HIDE DEF p
    <3>3. CASE x = p
      BY <3>2, <3>3
    <3>4. CASE x # p
      <4>1. g[s \ {p}] = f[x] + g[(s \ {p}) \ {x}]
        BY <2>1, <3>1, <3>4
      <4>2. g[s \ {x}] = f[p] + g[(s \ {x}) \ {p}]
        BY <2>1, <3>1, <3>4
      <4>3. g[s \ {x}] = f[p] + g[(s \ {p}) \ {x}]
        <5>1. (s \ {p}) \ {x} = (s \ {x}) \ {p}
          OBVIOUS
        <5> QED BY <4>2, <5>1
      <4>4. /\ f[x] \in Int /\ f[p] \in Int
            /\ g[(s \ {p}) \ {x}] \in Int
        BY <1>3, <3>1
      <4> QED BY <3>2, <4>1, <4>3, <4>4
    <3> QED BY <3>3, <3>4
  <2> QED BY <2>1, <2>2
<1>5. S \in P
  <2> HIDE DEF P
  <2> QED BY <1>4, SubsetInduction
<1>6. g[S] = f[a] + g[S \ {a}]
  BY <1>5
<1> QED BY <1>2, <1>6

(* Term by term: equal terms have equal sums, the sum of two terms each is *)
(* the sum of the sums, and smaller terms have a smaller sum.              *)
LEMMA SumTerms ==
  ASSUME NEW S, IsFiniteSet(S), NEW f, NEW g, NEW h,
         \A x \in S : f[x] \in Int /\ g[x] \in Int /\ h[x] \in Int
  PROVE  /\ (\A x \in S : f[x] = g[x]) => SumOf(f, S) = SumOf(g, S)
         /\ (\A x \in S : f[x] = g[x] + h[x]) => SumOf(f, S) = SumOf(g, S) + SumOf(h, S)
<1> DEFINE Same == \A x \in S : f[x] = g[x]
           Plus == \A x \in S : f[x] = g[x] + h[x]
           P == {s \in SUBSET S : /\ Same => SumOf(f, s) = SumOf(g, s)
                                  /\ Plus => SumOf(f, s) = SumOf(g, s) + SumOf(h, s)}
<1>1. \A s \in SUBSET S : SumOf(f, s) \in Int /\ SumOf(g, s) \in Int /\ SumOf(h, s) \in Int
  BY SumType, FS_Subset
<1>2. ASSUME NEW s \in SUBSET S, \A x \in s : s \ {x} \in P
      PROVE  s \in P
  <2>1. CASE s = {}
    BY <2>1, SumEmpty
  <2>2. CASE s # {}
    <3>1. PICK a \in s : TRUE
      BY <2>2
    <3>2. IsFiniteSet(s)
      BY FS_Subset
    <3>3. /\ SumOf(f, s) = f[a] + SumOf(f, s \ {a})
          /\ SumOf(g, s) = g[a] + SumOf(g, s \ {a})
          /\ SumOf(h, s) = h[a] + SumOf(h, s \ {a})
      BY <3>1, <3>2, SumStep
    <3>4. s \ {a} \in P
      BY <1>2, <3>1
    <3>5. /\ f[a] \in Int /\ g[a] \in Int /\ h[a] \in Int
          /\ SumOf(f, s \ {a}) \in Int /\ SumOf(g, s \ {a}) \in Int
          /\ SumOf(h, s \ {a}) \in Int
      BY <1>1, <3>1
    <3>6. /\ Same => f[a] = g[a]
          /\ Plus => f[a] = g[a] + h[a]
      BY <3>1
    <3> HIDE DEF Same, Plus
    <3> QED BY <3>3, <3>4, <3>5, <3>6
  <2> QED BY <2>1, <2>2
<1>3. S \in P
  <2> HIDE DEF P
  <2> QED BY <1>2, SubsetInduction
<1> QED BY <1>3

LEMMA SumSame ==
  ASSUME NEW S, IsFiniteSet(S), NEW f, NEW g, \A x \in S : f[x] \in Int /\ f[x] = g[x]
  PROVE  SumOf(f, S) = SumOf(g, S)
<1>1. \A x \in S : f[x] \in Int /\ g[x] \in Int /\ f[x] \in Int
  OBVIOUS
<1> QED BY <1>1, SumTerms

LEMMA SumPlus ==
  ASSUME NEW S, IsFiniteSet(S), NEW f, NEW g, NEW h,
         \A x \in S : g[x] \in Int /\ h[x] \in Int /\ f[x] = g[x] + h[x]
  PROVE  SumOf(f, S) = SumOf(g, S) + SumOf(h, S)
<1>1. \A x \in S : f[x] \in Int /\ g[x] \in Int /\ h[x] \in Int
  OBVIOUS
<1>2. \A x \in S : f[x] = g[x] + h[x]
  OBVIOUS
<1>3. (\A x \in S : f[x] = g[x] + h[x]) => SumOf(f, S) = SumOf(g, S) + SumOf(h, S)
  BY <1>1, SumTerms
<1> QED BY <1>2, <1>3

LEMMA SumLess ==
  ASSUME NEW S, IsFiniteSet(S), NEW f, NEW g,
         \A x \in S : f[x] \in Int /\ g[x] \in Int /\ f[x] <= g[x]
  PROVE  SumOf(f, S) <= SumOf(g, S)
<1> DEFINE d == [x \in S |-> g[x] - f[x]]
<1>1. \A x \in S : d[x] \in Int /\ d[x] >= 0 /\ f[x] \in Int /\ g[x] = f[x] + d[x]
  OBVIOUS
<1> HIDE DEF d
<1>2. SumOf(d, S) \in Int /\ SumOf(d, S) >= 0 /\ SumOf(f, S) \in Int
  BY <1>1, SumType
<1>3. SumOf(g, S) = SumOf(f, S) + SumOf(d, S)
  BY <1>1, SumPlus
<1> QED BY <1>2, <1>3

(* A term of 1 for each element of E counts them.                          *)
LEMMA SumCounts ==
  ASSUME NEW S, IsFiniteSet(S), NEW E \in SUBSET S, NEW f,
         \A x \in S : f[x] = IF x \in E THEN 1 ELSE 0
  PROVE  SumOf(f, S) = Cardinality(E)
<1> DEFINE P == {s \in SUBSET S : SumOf(f, s) = Cardinality(E \cap s)}
<1>1. ASSUME NEW s \in SUBSET S, \A x \in s : s \ {x} \in P
      PROVE  s \in P
  <2>1. CASE s = {}
    BY <2>1, SumEmpty, FS_EmptySet
  <2>2. CASE s # {}
    <3>1. PICK a \in s : TRUE
      BY <2>2
    <3>2. IsFiniteSet(s) /\ IsFiniteSet(E \cap s)
      BY FS_Subset
    <3>3. SumOf(f, s) = f[a] + SumOf(f, s \ {a})
      BY <3>1, <3>2, SumStep
    <3>4. SumOf(f, s \ {a}) = Cardinality(E \cap (s \ {a}))
      BY <1>1, <3>1
    <3>5. E \cap (s \ {a}) = (E \cap s) \ {a}
      OBVIOUS
    <3>6. /\ Cardinality(E \cap s) \in Nat
          /\ Cardinality((E \cap s) \ {a}) =
               IF a \in E \cap s THEN Cardinality(E \cap s) - 1 ELSE Cardinality(E \cap s)
      BY <3>2, FS_RemoveElement, FS_CardinalityType
    <3> QED BY <3>1, <3>3, <3>4, <3>5, <3>6
  <2> QED BY <2>1, <2>2
<1>2. S \in P
  <2> HIDE DEF P
  <2> QED BY <1>1, SubsetInduction
<1>3. E \cap S = E
  OBVIOUS
<1> QED BY <1>2, <1>3

(* Terms that are no smaller, and one that is larger, make a larger sum.   *)
LEMMA SumGrows ==
  ASSUME NEW S, IsFiniteSet(S), NEW f, NEW g, NEW a \in S,
         \A x \in S : f[x] \in Int /\ g[x] \in Int /\ f[x] <= g[x],
         f[a] + 1 <= g[a]
  PROVE  SumOf(f, S) + 1 <= SumOf(g, S)
<1>1. /\ SumOf(f, S) = f[a] + SumOf(f, S \ {a})
      /\ SumOf(g, S) = g[a] + SumOf(g, S \ {a})
  BY SumStep
<1>2. IsFiniteSet(S \ {a})
  BY FS_RemoveElement
<1>3. SumOf(f, S \ {a}) <= SumOf(g, S \ {a})
  BY <1>2, SumLess
<1>4. SumOf(f, S \ {a}) \in Int /\ SumOf(g, S \ {a}) \in Int
  BY <1>2, SumType
<1> QED BY <1>1, <1>3, <1>4
(* A set in two parts.                                                     *)
LEMMA SumUnion ==
  ASSUME NEW A, IsFiniteSet(A), NEW B, IsFiniteSet(B), A \cap B = {},
         NEW f, \A x \in A \cup B : f[x] \in Int
  PROVE  SumOf(f, A \cup B) = SumOf(f, A) + SumOf(f, B)
<1> DEFINE P == {s \in SUBSET B : SumOf(f, A \cup s) = SumOf(f, A) + SumOf(f, s)}
<1>1. ASSUME NEW s \in SUBSET B, \A x \in s : s \ {x} \in P
      PROVE  s \in P
  <2>1. CASE s = {}
    <3>1. SumOf(f, s) = 0 /\ SumOf(f, A) \in Int
      BY <2>1, SumEmpty, SumType
    <3>2. A \cup s = A
      BY <2>1
    <3>3. SumOf(f, A \cup s) = SumOf(f, A)
      BY <3>2
    <3>4. SumOf(f, A \cup s) = SumOf(f, A) + SumOf(f, s)
      BY <3>1, <3>3
    <3> QED BY <3>4
  <2>2. CASE s # {}
    <3>1. PICK a \in s : TRUE
      BY <2>2
    <3>2. IsFiniteSet(s) /\ IsFiniteSet(A \cup s) /\ IsFiniteSet(s \ {a})
      BY FS_Subset, FS_Union
    <3>3. SumOf(f, s) = f[a] + SumOf(f, s \ {a})
      BY <3>1, <3>2, SumStep
    <3>4. SumOf(f, A \cup s) = f[a] + SumOf(f, (A \cup s) \ {a})
      BY <3>1, <3>2, SumStep
    <3>5. (A \cup s) \ {a} = A \cup (s \ {a})
      BY <3>1
    <3>6. SumOf(f, A \cup (s \ {a})) = SumOf(f, A) + SumOf(f, s \ {a})
      BY <1>1, <3>1
    <3>7. SumOf(f, A) \in Int /\ SumOf(f, s \ {a}) \in Int /\ f[a] \in Int
      BY <3>1, <3>2, SumType
    <3>8. SumOf(f, A \cup s) = f[a] + (SumOf(f, A) + SumOf(f, s \ {a}))
      BY <3>4, <3>5, <3>6
    <3>9. SumOf(f, A \cup s) = SumOf(f, A) + SumOf(f, s)
      BY <3>3, <3>7, <3>8
    <3> QED BY <3>9
  <2> QED BY <2>1, <2>2
<1>2. B \in P
  <2> HIDE DEF P
  <2> QED BY <1>1, SubsetInduction
<1> QED BY <1>2

LEMMA SumSubset ==
  ASSUME NEW S, IsFiniteSet(S), NEW A \in SUBSET S, NEW f, \A x \in S : f[x] \in Int /\ f[x] >= 0
  PROVE  SumOf(f, A) <= SumOf(f, S)
<1> DEFINE B == S \ A
<1>1. IsFiniteSet(A) /\ IsFiniteSet(B) /\ A \cap B = {} /\ A \cup B = S
  BY FS_Subset
<1> HIDE DEF B
<1>2. SumOf(f, A \cup B) = SumOf(f, A) + SumOf(f, B)
  BY <1>1, SumUnion
<1>3. SumOf(f, A) \in Int /\ SumOf(f, B) \in Int /\ SumOf(f, B) >= 0
  BY <1>1, SumType
<1>4. SumOf(f, S) = SumOf(f, A) + SumOf(f, B)
  BY <1>1, <1>2
<1> QED BY <1>3, <1>4

(* The same terms under other names.                                       *)
LEMMA SumRenamed ==
  ASSUME NEW S, IsFiniteSet(S), NEW m, NEW f, NEW g,
         \A x, y \in S : m[x] = m[y] => x = y,
         \A x \in S : f[x] \in Int /\ g[m[x]] = f[x]
  PROVE  IsFiniteSet({m[x] : x \in S}) /\ SumOf(g, {m[x] : x \in S}) = SumOf(f, S)
<1> DEFINE R(s) == {m[x] : x \in s}
           P == {s \in SUBSET S : IsFiniteSet(R(s)) /\ SumOf(g, R(s)) = SumOf(f, s)}
<1>1. ASSUME NEW s \in SUBSET S, \A x \in s : s \ {x} \in P
      PROVE  s \in P
  <2>1. CASE s = {}
    BY <2>1, SumEmpty, FS_EmptySet
  <2>2. CASE s # {}
    <3>1. PICK a \in s : TRUE
      BY <2>2
    <3>0. IsFiniteSet(R(s \ {a})) /\ R(s) = R(s \ {a}) \cup {m[a]}
      <4>1. IsFiniteSet(R(s \ {a}))
        BY <1>1, <3>1
      <4>2. R(s) = R(s \ {a}) \cup {m[a]}
        BY <3>1
      <4> QED BY <4>1, <4>2
    <3>2. IsFiniteSet(s) /\ IsFiniteSet(R(s)) /\ m[a] \in R(s)
      <4> HIDE DEF R
      <4> QED BY <3>0, <3>1, FS_Subset, FS_AddElement
    <3>3. SumOf(f, s) = f[a] + SumOf(f, s \ {a})
      BY <3>1, <3>2, SumStep
    <3>4. \A y \in R(s) : g[y] \in Int
      OBVIOUS
    <3>5. SumOf(g, R(s)) = g[m[a]] + SumOf(g, R(s) \ {m[a]})
      <4> HIDE DEF R
      <4> QED BY <3>2, <3>4, SumStep
    <3>6. R(s) \ {m[a]} = R(s \ {a})
      BY <3>1
    <3>7. SumOf(g, R(s \ {a})) = SumOf(f, s \ {a})
      BY <1>1, <3>1
    <3> QED BY <3>1, <3>2, <3>3, <3>5, <3>6, <3>7
  <2> QED BY <2>1, <2>2
<1>2. S \in P
  <2> HIDE DEF P
  <2> QED BY <1>1, SubsetInduction
<1> QED BY <1>2
-----------------------------------------------------------------------------
(* MapThenSumSet, of a function.                                           *)
LEMMA MappedSum ==
  ASSUME NEW S, IsFiniteSet(S), NEW f
  PROVE  MapThenSumSet(LAMBDA x : f[x], S) = SumOf(f, S)
  BY DEF SumOf, MapThenSumSet, MapThenFoldSet, Adds, Pick
=============================================================================
