----------------------------- MODULE DataLemmas -----------------------------
(***************************************************************************)
(* What several of the proofs need of natural numbers and finite sets:     *)
(* induction, the largest and the smallest element, and sums.              *)
(*                                                                         *)
(* A statement about all natural numbers is proved as one about the set of *)
(* those it holds for.  The folds of the community modules are recursive   *)
(* functions on the subsets of a set; here they are shown to exist, not to *)
(* depend on the order of the elements, and what they add up to.           *)
(***************************************************************************)
EXTENDS Integers, Sequences, FiniteSets, SequencesExt, TLAPS, FiniteSetTheorems, WellFoundedInduction

\* Induction over the natural numbers, for a set of them.
LEMMA SetOfNaturals ==
    ASSUME NEW K \in SUBSET Nat, 0 \in K, \A k \in K : k + 1 \in K
    PROVE  K = Nat
<1> DEFINE less == {p \in Nat \X Nat : p[1] < p[2]}
           Missing == Nat \ K
<1>1. IsWellFoundedOn(less, Nat)
  BY NatLessThanWellFounded DEF OpToRel
<1> HIDE DEF less
<1>2. SUFFICES ASSUME Missing # {}  PROVE FALSE
  OBVIOUS
<1>3. PICK m \in Missing : \A e \in Missing : <<e, m>> \notin less
  <2>1. Missing \subseteq Nat
    OBVIOUS
  <2> HIDE DEF Missing
  <2> QED  BY <1>1, <1>2, <2>1, WFMin
<1>4. m \in Nat \ {0} /\ m - 1 \in Nat
  BY <1>3
<1>5. <<m - 1, m>> \in less
  BY <1>4 DEF less
<1>6. m - 1 \in K
  BY <1>3, <1>4, <1>5
<1> QED  BY <1>3, <1>4, <1>6

\* Every set of naturals has a smallest element.
LEMMA LeastNatural ==
    ASSUME NEW S \in SUBSET Nat, S # {}
    PROVE  \E m \in S : \A e \in S : m <= e
<1> DEFINE Below == {k \in Nat : \A e \in S : k <= e}
<1>1. 0 \in Below
  OBVIOUS
<1>2. Below # Nat
  <2>1. PICK a \in S : TRUE
    OBVIOUS
  <2>2. a + 1 \notin Below /\ a + 1 \in Nat
    OBVIOUS
  <2> QED  BY <2>2
<1>3. \E b \in Below : b + 1 \notin Below
  <2>1. Below \subseteq Nat
    OBVIOUS
  <2> HIDE DEF Below
  <2> QED  BY <1>1, <1>2, <2>1, SetOfNaturals
<1>4. PICK b \in Below : b + 1 \notin Below
  BY <1>3
<1>5. \E c \in S : ~(b + 1 <= c)
  BY <1>4
<1>6. PICK c \in S : ~(b + 1 <= c)
  BY <1>5
<1>7. b = c
  BY <1>4, <1>6
<1> QED  BY <1>4, <1>7

\* A finite set of integers has a largest element, which is its Max.
LEMMA FiniteMax ==
    ASSUME NEW S \in SUBSET Int, IsFiniteSet(S), S # {}
    PROVE  Max(S) \in S /\ \A e \in S : e <= Max(S)
<1> DEFINE K == {n \in Nat : \A T \in SUBSET S :
                    T # {} /\ Cardinality(T) <= n => \E m \in T : \A e \in T : e <= m}
<1>1. \A T \in SUBSET S : IsFiniteSet(T) /\ Cardinality(T) \in Nat
  BY FS_Subset, FS_CardinalityType
<1>2. 0 \in K
  <2>1. \A T \in SUBSET S : Cardinality(T) = 0 => T = {}
    BY <1>1, FS_EmptySet
  <2>2. \A T \in SUBSET S : Cardinality(T) <= 0 => T = {}
    BY <1>1, <2>1
  <2> QED  BY <2>2
<1>3. ASSUME NEW n \in K  PROVE n + 1 \in K
  <2>1. ASSUME NEW T \in SUBSET S, T # {}, Cardinality(T) <= n + 1
        PROVE  \E m \in T : \A e \in T : e <= m
    <3>1. PICK x \in T : TRUE
      BY <2>1
    <3>2. Cardinality(T \ {x}) = Cardinality(T) - 1
      BY <1>1, FS_RemoveElement
    <3>3. CASE T \ {x} = {}
      BY <3>3
    <3>4. CASE T \ {x} # {}
      <4>1. T \ {x} \in SUBSET S /\ Cardinality(T \ {x}) <= n
        BY <1>1, <2>1, <3>2
      <4>2. PICK m \in T \ {x} : \A e \in T \ {x} : e <= m
        BY <3>4, <4>1
      <4>3. CASE x <= m
        BY <4>2, <4>3
      <4>4. CASE ~(x <= m)
        BY <4>2, <4>4
      <4> QED  BY <4>3, <4>4
    <3> QED  BY <3>3, <3>4
  <2> QED  BY <2>1
<1>4. K = Nat
  <2> HIDE DEF K
  <2>1. K \subseteq Nat
    BY DEF K
  <2> QED  BY <1>2, <1>3, <2>1, SetOfNaturals
<1>5. Cardinality(S) \in K
  BY <1>1, <1>4
<1>6. \E m \in S : \A e \in S : e <= m
  BY <1>1, <1>5
<1> QED  BY <1>6 DEF Max

\* What a function has on a finite set is finite.
LEMMA FiniteImage ==
    ASSUME NEW S, IsFiniteSet(S), NEW f
    PROVE  IsFiniteSet({f[x] : x \in S})
<1> DEFINE T == {f[x] : x \in S}
           g == [x \in S |-> f[x]]
<1>1. g \in Surjection(S, T)
  BY DEF Surjection
<1> HIDE DEF T, g
<1>2. IsFiniteSet(T)
  BY <1>1, FS_Surjection
<1> QED  BY <1>2 DEF T

\* And a nonempty set of naturals has its Min.
LEMMA NaturalMin ==
    ASSUME NEW S \in SUBSET Nat, S # {}
    PROVE  Min(S) \in S /\ \A e \in S : Min(S) <= e
<1>1. \E m \in S : \A e \in S : m <= e
  BY LeastNatural
<1> QED  BY <1>1 DEF Min
-----------------------------------------------------------------------------
(* Sums.                                                                    *)

SumOf(f, S) == MapThenSumSet(LAMBDA x : f[x], S)

Member(s) == CHOOSE x \in s : TRUE

\* One step of the library's fold.
StepOf(f, S, g) ==
    [s \in SUBSET S |-> IF s = {} THEN 0 ELSE f[Member(s)] + g[s \ {Member(s)}]]

LEMMA SumIsFold ==
    ASSUME NEW f, NEW S
    PROVE SumOf(f, S) = (CHOOSE g : g = StepOf(f, S, g))[S]
BY DEF SumOf, MapThenSumSet, MapThenFoldSet, StepOf, Member
\* Values of functions of integers are.
Integral(f, S) == \A x \in S : f[x] \in Int

\* The sets of the cardinality n at most.
UpTo(n, S) == {s \in SUBSET S : Cardinality(s) <= n}

LEMMA MemberIsOne == \A s : s # {} => Member(s) \in s
BY DEF Member

LEMMA SmallerWithout ==
    ASSUME NEW S, IsFiniteSet(S), NEW n \in Nat, NEW s \in UpTo(n + 1, S), NEW x \in s
    PROVE  s \ {x} \in UpTo(n, S)
<1>1. IsFiniteSet(s)
  BY FS_Subset DEF UpTo
<1>2. Cardinality(s \ {x}) = Cardinality(s) - 1 /\ Cardinality(s) \in Nat
  BY <1>1, FS_RemoveElement, FS_CardinalityType
<1> QED  BY <1>2 DEF UpTo

LEMMA OnlyEmpty ==
    ASSUME NEW S, IsFiniteSet(S), NEW s \in UpTo(0, S)
    PROVE  s = {}
<1>1. IsFiniteSet(s)
  BY FS_Subset DEF UpTo
<1>2. Cardinality(s) = 0
  BY <1>1, FS_CardinalityType DEF UpTo
<1> QED  BY <1>1, <1>2, FS_EmptySet

\* The fold is defined: a function it determines exists.
LEMMA FoldExists ==
    ASSUME NEW f, NEW S, IsFiniteSet(S), Integral(f, S)
    PROVE  \E g \in [SUBSET S -> Int] : g = StepOf(f, S, g)
<1> DEFINE Good(g, n) == \A s \in UpTo(n, S) : g[s] = StepOf(f, S, g)[s]
           K == {n \in Nat : \E g \in [SUBSET S -> Int] : Good(g, n)}
<1>1. \A g \in [SUBSET S -> Int] : StepOf(f, S, g) \in [SUBSET S -> Int]
  BY MemberIsOne DEF StepOf, Integral
<1>2. 0 \in K
  <2>1. Good([s \in SUBSET S |-> 0], 0)
    BY OnlyEmpty DEF StepOf, UpTo
  <2> QED  BY <2>1
<1>3. ASSUME NEW n \in K  PROVE n + 1 \in K
  <2>1. PICK g \in [SUBSET S -> Int] : Good(g, n)
    OBVIOUS
  <2> DEFINE h == StepOf(f, S, g)
  <2>2. ASSUME NEW s \in UpTo(n + 1, S)  PROVE h[s] = StepOf(f, S, h)[s]
    <3>1. CASE s = {}
      BY <3>1 DEF StepOf, UpTo
    <3>2. CASE s # {}
      <4> DEFINE r == s \ {Member(s)}
      <4>1. r \in UpTo(n, S)
        BY <3>2, MemberIsOne, SmallerWithout
      <4>2. g[r] = h[r]
        BY <2>1, <4>1
      <4>3. h[s] = f[Member(s)] + g[r]
        BY <3>2 DEF StepOf, UpTo
      <4> HIDE DEF h
      <4>4. StepOf(f, S, h)[s] = f[Member(s)] + h[r]
        BY <3>2 DEF StepOf, UpTo
      <4> QED  BY <4>2, <4>3, <4>4
    <3> QED  BY <3>1, <3>2
  <2>3. Good(h, n + 1) /\ h \in [SUBSET S -> Int]
    BY <1>1, <2>2
  <2> HIDE DEF h
  <2> QED  BY <2>3
<1>4. K = Nat
  <2> HIDE DEF K
  <2>1. K \subseteq Nat
    BY DEF K
  <2> QED  BY <1>2, <1>3, <2>1, SetOfNaturals
<1>5. Cardinality(S) \in K
  BY <1>4, FS_CardinalityType
<1>6. PICK g \in [SUBSET S -> Int] : Good(g, Cardinality(S))
  BY <1>5
<1>7. UpTo(Cardinality(S), S) = SUBSET S
  BY FS_Subset DEF UpTo
<1>8. \A s \in SUBSET S : g[s] = StepOf(f, S, g)[s]
  BY <1>6, <1>7
<1>9. StepOf(f, S, g) \in [SUBSET S -> Int]
  BY <1>1
<1> QED  BY <1>8, <1>9

\* And there is only one, which does not depend on the set it is folded over.
LEMMA FoldUnique ==
    ASSUME NEW f, NEW S, IsFiniteSet(S), NEW T \in SUBSET S,
           NEW g, g = StepOf(f, S, g), NEW h, h = StepOf(f, T, h)
    PROVE  g[T] = h[T]
<1> DEFINE K == {n \in Nat : \A s \in UpTo(n, T) : g[s] = h[s]}
<1>0. IsFiniteSet(T)
  BY FS_Subset
<1>1. /\ g[{}] = 0 /\ h[{}] = 0
      /\ \A s \in SUBSET T : s # {} => /\ g[s] = f[Member(s)] + g[s \ {Member(s)}]
                                       /\ h[s] = f[Member(s)] + h[s \ {Member(s)}]
  BY DEF StepOf
<1>2. 0 \in K
  BY <1>0, <1>1, OnlyEmpty
<1>3. ASSUME NEW n \in K  PROVE n + 1 \in K
  <2>1. ASSUME NEW s \in UpTo(n + 1, T)  PROVE g[s] = h[s]
    <3>1. CASE s = {}
      BY <1>1, <3>1
    <3>2. CASE s # {}
      <4>1. s \ {Member(s)} \in UpTo(n, T)
        BY <1>0, <3>2, MemberIsOne, SmallerWithout
      <4>2. g[s \ {Member(s)}] = h[s \ {Member(s)}]
        BY <4>1
      <4> QED  BY <1>1, <3>2, <4>2 DEF UpTo
    <3> QED  BY <3>1, <3>2
  <2> QED  BY <2>1
<1>4. K = Nat
  <2> HIDE DEF K
  <2>1. K \subseteq Nat
    BY DEF K
  <2> QED  BY <1>2, <1>3, <2>1, SetOfNaturals
<1>5. Cardinality(T) \in K /\ T \in UpTo(Cardinality(T), T)
  BY <1>0, <1>4, FS_CardinalityType DEF UpTo
<1> QED  BY <1>5

LEMMA SumFold ==
    ASSUME NEW f, NEW S, IsFiniteSet(S), Integral(f, S)
    PROVE  \E g \in [SUBSET S -> Int] :
              /\ g = StepOf(f, S, g)
              /\ \A T \in SUBSET S : SumOf(f, T) = g[T]
<1>1. PICK g \in [SUBSET S -> Int] : g = StepOf(f, S, g)
  BY FoldExists
<1>2. ASSUME NEW T \in SUBSET S  PROVE SumOf(f, T) = g[T]
  <2>1. IsFiniteSet(T) /\ Integral(f, T)
    BY FS_Subset DEF Integral
  <2>2. \E h : h = StepOf(f, T, h)
    BY <2>1, FoldExists
  <2> DEFINE h == CHOOSE h : h = StepOf(f, T, h)
  <2>3. h = StepOf(f, T, h)
    BY <2>2
  <2>4. SumOf(f, T) = h[T]
    BY SumIsFold
  <2> HIDE DEF h
  <2> QED  BY <1>1, <2>3, <2>4, FoldUnique
<1> QED  BY <1>1, <1>2

\* A sum of integers is one.
LEMMA SumType ==
    ASSUME NEW f, NEW S, IsFiniteSet(S), Integral(f, S)
    PROVE  SumOf(f, S) \in Int
<1>1. PICK g \in [SUBSET S -> Int] : /\ g = StepOf(f, S, g)
                                     /\ \A T \in SUBSET S : SumOf(f, T) = g[T]
  BY SumFold
<1> QED  BY <1>1

LEMMA SumEmpty == \A f : SumOf(f, {}) = 0
<1> SUFFICES ASSUME NEW f  PROVE SumOf(f, {}) = 0
  OBVIOUS
<1>1. IsFiniteSet({}) /\ Integral(f, {})
  BY FS_EmptySet DEF Integral
<1>2. PICK g \in [SUBSET {} -> Int] : g = StepOf(f, {}, g) /\ \A T \in SUBSET {} : SumOf(f, T) = g[T]
  BY <1>1, SumFold
<1>3. SumOf(f, {}) = g[{}]
  BY <1>2
<1>4. g[{}] = 0
  BY <1>2 DEF StepOf
<1> QED  BY <1>3, <1>4

\* A sum can be begun with any of the elements.
LEMMA SumWithout ==
    ASSUME NEW f, NEW S, IsFiniteSet(S), Integral(f, S), NEW x \in S
    PROVE  SumOf(f, S) = f[x] + SumOf(f, S \ {x})
<1>1. PICK g \in [SUBSET S -> Int] :
              /\ g = StepOf(f, S, g)
              /\ \A T \in SUBSET S : SumOf(f, T) = g[T]
  BY SumFold
<1> DEFINE K == {n \in Nat : \A s \in UpTo(n, S) : \A y \in s : g[s] = f[y] + g[s \ {y}]}
<1>2. \A s \in SUBSET S : s # {} => g[s] = f[Member(s)] + g[s \ {Member(s)}]
  BY <1>1 DEF StepOf
<1>3. 0 \in K
  BY OnlyEmpty
<1>4. ASSUME NEW n \in K  PROVE n + 1 \in K
  <2>1. ASSUME NEW s \in UpTo(n + 1, S), NEW y \in s  PROVE g[s] = f[y] + g[s \ {y}]
    <3> DEFINE m == Member(s)
    <3>1. m \in s /\ s \subseteq S /\ g[s] = f[m] + g[s \ {m}]
      BY <1>2, MemberIsOne DEF UpTo
    <3> HIDE DEF m
    <3>2. CASE m = y
      BY <3>1, <3>2
    <3>3. CASE m # y
      <4>1. s \ {m} \in UpTo(n, S) /\ s \ {y} \in UpTo(n, S)
        BY <3>1, SmallerWithout
      <4>2. g[s \ {m}] = f[y] + g[(s \ {m}) \ {y}]
        BY <3>3, <4>1
      <4>3. g[s \ {y}] = f[m] + g[(s \ {y}) \ {m}]
        BY <3>1, <3>3, <4>1
      <4>4. (s \ {y}) \ {m} = (s \ {m}) \ {y}
        OBVIOUS
      <4>5. f[y] \in Int /\ f[m] \in Int /\ g[(s \ {m}) \ {y}] \in Int
        BY <3>1 DEF Integral
      <4>6. g[s] = f[m] + (f[y] + g[(s \ {m}) \ {y}]) /\ g[s \ {y}] = f[m] + g[(s \ {m}) \ {y}]
        BY <3>1, <4>2, <4>3, <4>4
      <4> QED  BY <4>5, <4>6
    <3> QED  BY <3>2, <3>3
  <2> QED  BY <2>1
<1>5. K = Nat
  <2> HIDE DEF K
  <2>1. K \subseteq Nat
    BY DEF K
  <2> QED  BY <1>3, <1>4, <2>1, SetOfNaturals
<1>6. Cardinality(S) \in K /\ S \in UpTo(Cardinality(S), S)
  BY <1>5, FS_CardinalityType DEF UpTo
<1>7. g[S] = f[x] + g[S \ {x}]
  BY <1>6
<1> QED  BY <1>1, <1>7

\* Induction over the subsets of a finite set, for a set of them.
LEMMA EachSubset ==
    ASSUME NEW S, IsFiniteSet(S), NEW K \in SUBSET SUBSET S, {} \in K,
           \A T \in SUBSET S : T # {} /\ (\A x \in T : T \ {x} \in K) => T \in K
    PROVE  K = SUBSET S
<1> DEFINE N == {n \in Nat : UpTo(n, S) \subseteq K}
<1>1. 0 \in N
  BY OnlyEmpty
<1>2. ASSUME NEW n \in N  PROVE n + 1 \in N
  <2>1. ASSUME NEW T \in UpTo(n + 1, S)  PROVE T \in K
    <3>1. CASE T = {}
      BY <3>1
    <3>2. CASE T # {}
      <4>1. \A x \in T : T \ {x} \in K
        BY SmallerWithout
      <4> QED  BY <3>2, <4>1 DEF UpTo
    <3> QED  BY <3>1, <3>2
  <2> QED  BY <2>1
<1>3. N = Nat
  <2> HIDE DEF N
  <2>1. N \subseteq Nat
    BY DEF N
  <2> QED  BY <1>1, <1>2, <2>1, SetOfNaturals
<1>4. ASSUME NEW T \in SUBSET S  PROVE T \in K
  <2>1. T \in UpTo(Cardinality(T), S) /\ Cardinality(T) \in N
    BY <1>3, FS_Subset, FS_CardinalityType DEF UpTo
  <2> QED  BY <2>1
<1> QED  BY <1>4

\* When it does not matter which element is taken out.
LEMMA SetOfSubsets ==
    ASSUME NEW S, IsFiniteSet(S), NEW K \in SUBSET SUBSET S, {} \in K,
           \A T \in SUBSET S : \A x \in T : T \ {x} \in K => T \in K
    PROVE  K = SUBSET S
<1>1. \A T \in SUBSET S : T # {} /\ (\A x \in T : T \ {x} \in K) => T \in K
  OBVIOUS
<1> QED  BY <1>1, EachSubset

\* A sum of naturals is one.
LEMMA SumOfNaturals ==
    ASSUME NEW f, NEW S, IsFiniteSet(S), \A x \in S : f[x] \in Nat
    PROVE  SumOf(f, S) \in Nat
<1> DEFINE K == {T \in SUBSET S : SumOf(f, T) \in Nat}
<1>1. {} \in K
  BY SumEmpty
<1>2. ASSUME NEW T \in SUBSET S, NEW x \in T, T \ {x} \in K  PROVE T \in K
  <2>1. IsFiniteSet(T) /\ Integral(f, T)
    BY FS_Subset DEF Integral
  <2>2. SumOf(f, T) = f[x] + SumOf(f, T \ {x})
    BY <2>1, SumWithout
  <2> QED  BY <1>2, <2>2
<1>3. K = SUBSET S
  <2> HIDE DEF K
  <2>1. K \in SUBSET SUBSET S
    BY DEF K
  <2> QED  BY <1>1, <1>2, <2>1, SetOfSubsets
<1> QED  BY <1>3
\* Only the values on the set matter.
LEMMA SumEqual ==
    ASSUME NEW f, NEW g, NEW S, IsFiniteSet(S), Integral(f, S), \A x \in S : f[x] = g[x]
    PROVE  SumOf(f, S) = SumOf(g, S)
<1> DEFINE K == {T \in SUBSET S : SumOf(f, T) = SumOf(g, T)}
<1>1. {} \in K
  BY SumEmpty
<1>2. ASSUME NEW T \in SUBSET S, NEW x \in T, T \ {x} \in K  PROVE T \in K
  <2>1. IsFiniteSet(T) /\ Integral(f, T) /\ Integral(g, T)
    BY FS_Subset DEF Integral
  <2>2. /\ SumOf(f, T) = f[x] + SumOf(f, T \ {x})
        /\ SumOf(g, T) = g[x] + SumOf(g, T \ {x})
    BY <2>1, SumWithout
  <2> QED  BY <1>2, <2>2
<1>3. K = SUBSET S
  <2> HIDE DEF K
  <2>1. K \in SUBSET SUBSET S
    BY DEF K
  <2> QED  BY <1>1, <1>2, <2>1, SetOfSubsets
<1> QED  BY <1>3

\* A factor of all the elements is one of the sum.
LEMMA SumScale ==
    ASSUME NEW f, NEW S, IsFiniteSet(S), Integral(f, S), NEW k \in Int
    PROVE  SumOf([x \in S |-> k * f[x]], S) = k * SumOf(f, S)
<1> DEFINE g == [x \in S |-> k * f[x]]
           K == {T \in SUBSET S : SumOf(g, T) = k * SumOf(f, T)}
<1>1. {} \in K
  BY SumEmpty
<1>2. ASSUME NEW T \in SUBSET S, NEW x \in T, T \ {x} \in K  PROVE T \in K
  <2>1. /\ IsFiniteSet(T) /\ Integral(f, T) /\ Integral(g, T)
        /\ IsFiniteSet(T \ {x}) /\ Integral(f, T \ {x})
    BY FS_Subset DEF Integral
  <2>2. /\ SumOf(f, T) = f[x] + SumOf(f, T \ {x})
        /\ SumOf(g, T) = g[x] + SumOf(g, T \ {x})
    BY <2>1, SumWithout
  <2>3. SumOf(f, T \ {x}) \in Int /\ f[x] \in Int /\ g[x] = k * f[x]
    BY <2>1, SumType DEF Integral
  <2>4. SumOf(g, T \ {x}) = k * SumOf(f, T \ {x})
    BY <1>2
  <2> DEFINE a == f[x]
             b == SumOf(f, T \ {x})
  <2>5. SumOf(g, T) = k * a + k * b /\ SumOf(f, T) = a + b /\ a \in Int /\ b \in Int
    BY <2>2, <2>3, <2>4
  <2> HIDE DEF a, b
  <2>6. k * a + k * b = k * (a + b)
    BY <2>5
  <2> QED  BY <2>5, <2>6
<1>3. K = SUBSET S
  <2> HIDE DEF K
  <2>1. K \in SUBSET SUBSET S
    BY DEF K
  <2> QED  BY <1>1, <1>2, <2>1, SetOfSubsets
<1> QED  BY <1>3

\* The sum over two sets with nothing in common.
LEMMA SumApart ==
    ASSUME NEW f, NEW S, IsFiniteSet(S), NEW T, IsFiniteSet(T), S \cap T = {},
           Integral(f, S \cup T)
    PROVE  SumOf(f, S \cup T) = SumOf(f, S) + SumOf(f, T)
<1> DEFINE K == {R \in SUBSET T : SumOf(f, S \cup R) = SumOf(f, S) + SumOf(f, R)}
<1>1. {} \in K
  <2>1. SumOf(f, S) \in Int
    BY SumType DEF Integral
  <2>2. S \cup {} = S
    OBVIOUS
  <2> QED  BY <2>1, <2>2, SumEmpty
<1>2. ASSUME NEW R \in SUBSET T, NEW x \in R, R \ {x} \in K  PROVE R \in K
  <2>1. /\ IsFiniteSet(R) /\ IsFiniteSet(R \ {x}) /\ IsFiniteSet(S \cup R)
        /\ Integral(f, R) /\ Integral(f, R \ {x}) /\ Integral(f, S) /\ Integral(f, S \cup R)
    BY FS_Subset, FS_Union DEF Integral
  <2>2. (S \cup R) \ {x} = S \cup (R \ {x})
    OBVIOUS
  <2>3. /\ SumOf(f, S \cup R) = f[x] + SumOf(f, S \cup (R \ {x}))
        /\ SumOf(f, R) = f[x] + SumOf(f, R \ {x})
    BY <2>1, <2>2, SumWithout
  <2>4. f[x] \in Int /\ SumOf(f, S) \in Int /\ SumOf(f, R \ {x}) \in Int
    BY <2>1, SumType DEF Integral
  <2> QED  BY <1>2, <2>3, <2>4
<1>3. K = SUBSET T
  <2> HIDE DEF K
  <2>1. K \in SUBSET SUBSET T
    BY DEF K
  <2> QED  BY <1>1, <1>2, <2>1, SetOfSubsets
<1> QED  BY <1>3

\* A part of a sum of naturals is no more than all of it.
LEMMA SumOfPart ==
    ASSUME NEW S, IsFiniteSet(S), NEW f, \A x \in S : f[x] \in Nat, NEW T \in SUBSET S
    PROVE  SumOf(f, T) <= SumOf(f, S)
<1>1. /\ IsFiniteSet(T) /\ IsFiniteSet(S \ T) /\ T \cap (S \ T) = {} /\ T \cup (S \ T) = S
      /\ Integral(f, S) /\ (\A x \in T : f[x] \in Nat) /\ (\A x \in S \ T : f[x] \in Nat)
  BY FS_Subset DEF Integral
<1>2. SumOf(f, T \cup (S \ T)) = SumOf(f, T) + SumOf(f, S \ T)
  BY <1>1, SumApart
<1>3. SumOf(f, T) \in Nat /\ SumOf(f, S \ T) \in Nat
  BY <1>1, SumOfNaturals
<1>4. SumOf(f, S) = SumOf(f, T) + SumOf(f, S \ T)
  BY <1>1, <1>2, Zenon
<1> QED  BY <1>3, <1>4

\* Sums of two functions add up.
LEMMA SumOfBoth ==
    ASSUME NEW S, IsFiniteSet(S), NEW f, NEW g, Integral(f, S), Integral(g, S)
    PROVE  SumOf([x \in S |-> f[x] + g[x]], S) = SumOf(f, S) + SumOf(g, S)
<1> DEFINE h == [x \in S |-> f[x] + g[x]]
           K == {T \in SUBSET S : SumOf(h, T) = SumOf(f, T) + SumOf(g, T)}
<1>1. {} \in K
  BY SumEmpty
<1>2. ASSUME NEW T \in SUBSET S, NEW x \in T, T \ {x} \in K  PROVE T \in K
  <2>1. /\ IsFiniteSet(T) /\ IsFiniteSet(T \ {x})
        /\ Integral(f, T) /\ Integral(g, T) /\ Integral(h, T)
        /\ Integral(f, T \ {x}) /\ Integral(g, T \ {x})
    BY FS_Subset DEF Integral
  <2>2. /\ SumOf(f, T) = f[x] + SumOf(f, T \ {x})
        /\ SumOf(g, T) = g[x] + SumOf(g, T \ {x})
        /\ SumOf(h, T) = h[x] + SumOf(h, T \ {x})
    BY <2>1, SumWithout
  <2>3. /\ SumOf(f, T \ {x}) \in Int /\ SumOf(g, T \ {x}) \in Int
        /\ f[x] \in Int /\ g[x] \in Int /\ h[x] = f[x] + g[x]
    BY <2>1, SumType DEF Integral
  <2>4. SumOf(h, T \ {x}) = SumOf(f, T \ {x}) + SumOf(g, T \ {x})
    BY <1>2
  <2> HIDE DEF h
  <2> QED  BY <2>2, <2>3, <2>4
<1>3. K = SUBSET S
  <2> HIDE DEF K
  <2>1. K \in SUBSET SUBSET S
    BY DEF K
  <2> QED  BY <1>1, <1>2, <2>1, SetOfSubsets
<1>4. S \in K
  BY <1>3
<1> QED  BY <1>4

\* The sum over one element.
LEMMA SumOfOne ==
    ASSUME NEW f, NEW x, f[x] \in Int
    PROVE  SumOf(f, {x}) = f[x]
<1>1. IsFiniteSet({x}) /\ Integral(f, {x}) /\ {x} \ {x} = {}
  BY FS_Singleton DEF Integral
<1> QED  BY <1>1, SumWithout, SumEmpty

\* Larger values add up to more.
LEMMA SumMonotone ==
    ASSUME NEW f, NEW g, NEW S, IsFiniteSet(S), Integral(f, S), Integral(g, S),
           \A x \in S : f[x] <= g[x]
    PROVE  SumOf(f, S) <= SumOf(g, S)
<1> DEFINE K == {T \in SUBSET S : SumOf(f, T) <= SumOf(g, T)}
<1>1. {} \in K
  BY SumEmpty
<1>2. ASSUME NEW T \in SUBSET S, NEW x \in T, T \ {x} \in K  PROVE T \in K
  <2>1. /\ IsFiniteSet(T) /\ Integral(f, T) /\ Integral(g, T)
        /\ IsFiniteSet(T \ {x}) /\ Integral(f, T \ {x}) /\ Integral(g, T \ {x})
    BY FS_Subset DEF Integral
  <2>2. /\ SumOf(f, T) = f[x] + SumOf(f, T \ {x})
        /\ SumOf(g, T) = g[x] + SumOf(g, T \ {x})
    BY <2>1, SumWithout
  <2>3. /\ SumOf(f, T \ {x}) \in Int /\ SumOf(g, T \ {x}) \in Int
        /\ f[x] \in Int /\ g[x] \in Int /\ f[x] <= g[x]
    BY <2>1, SumType DEF Integral
  <2>4. SumOf(f, T \ {x}) <= SumOf(g, T \ {x})
    BY <1>2
  <2> QED  BY <2>2, <2>3, <2>4
<1>3. K = SUBSET S
  <2> HIDE DEF K
  <2>1. K \in SUBSET SUBSET S
    BY DEF K
  <2> QED  BY <1>1, <1>2, <2>1, SetOfSubsets
<1> QED  BY <1>3

\* The sum of equal values is their number times the value.
LEMMA SumConstant ==
    ASSUME NEW f, NEW S, IsFiniteSet(S), NEW c \in Int, \A x \in S : f[x] = c
    PROVE  SumOf(f, S) = c * Cardinality(S)
<1> DEFINE K == {T \in SUBSET S : SumOf(f, T) = c * Cardinality(T)}
<1>1. {} \in K
  BY SumEmpty, FS_EmptySet
<1>2. ASSUME NEW T \in SUBSET S, NEW x \in T, T \ {x} \in K  PROVE T \in K
  <2>1. IsFiniteSet(T) /\ Integral(f, T)
    BY FS_Subset DEF Integral
  <2>2. SumOf(f, T) = f[x] + SumOf(f, T \ {x})
    BY <2>1, SumWithout
  <2>3. /\ Cardinality(T \ {x}) = Cardinality(T) - 1 /\ Cardinality(T) \in Nat
        /\ f[x] = c
    BY <2>1, FS_RemoveElement, FS_CardinalityType
  <2>4. SumOf(f, T \ {x}) = c * Cardinality(T \ {x})
    BY <1>2
  <2> DEFINE n == Cardinality(T)
  <2>5. SumOf(f, T) = c + c * (n - 1) /\ n \in Nat
    BY <2>2, <2>3, <2>4
  <2> HIDE DEF n
  <2>6. c + c * (n - 1) = c * n
    BY <2>5
  <2> QED  BY <2>5, <2>6 DEF n
<1>3. K = SUBSET S
  <2> HIDE DEF K
  <2>1. K \in SUBSET SUBSET S
    BY DEF K
  <2> QED  BY <1>1, <1>2, <2>1, SetOfSubsets
<1>4. S \in K
  BY <1>3
<1> QED  BY <1>4

\* One more of each makes as many more as there are.
LEMMA SumPlusOne ==
    ASSUME NEW f, NEW g, NEW S, IsFiniteSet(S), Integral(f, S), \A x \in S : g[x] = f[x] + 1
    PROVE  SumOf(g, S) = SumOf(f, S) + Cardinality(S)
<1> DEFINE K == {T \in SUBSET S : SumOf(g, T) = SumOf(f, T) + Cardinality(T)}
<1>1. {} \in K
  BY SumEmpty, FS_EmptySet
<1>2. ASSUME NEW T \in SUBSET S, NEW x \in T, T \ {x} \in K  PROVE T \in K
  <2>1. /\ IsFiniteSet(T) /\ Integral(f, T) /\ Integral(g, T)
        /\ IsFiniteSet(T \ {x}) /\ Integral(f, T \ {x})
    BY FS_Subset DEF Integral
  <2>2. /\ SumOf(f, T) = f[x] + SumOf(f, T \ {x})
        /\ SumOf(g, T) = g[x] + SumOf(g, T \ {x})
    BY <2>1, SumWithout
  <2>3. /\ Cardinality(T \ {x}) = Cardinality(T) - 1 /\ Cardinality(T) \in Nat
        /\ SumOf(f, T \ {x}) \in Int /\ f[x] \in Int /\ g[x] = f[x] + 1
    BY <2>1, FS_RemoveElement, FS_CardinalityType, SumType DEF Integral
  <2>4. SumOf(g, T \ {x}) = SumOf(f, T \ {x}) + Cardinality(T \ {x})
    BY <1>2
  <2> QED  BY <2>2, <2>3, <2>4
<1>3. K = SUBSET S
  <2> HIDE DEF K
  <2>1. K \in SUBSET SUBSET S
    BY DEF K
  <2> QED  BY <1>1, <1>2, <2>1, SetOfSubsets
<1>4. S \in K
  BY <1>3
<1> QED  BY <1>4

\* Naturals that are not all 0 add up to something.
LEMMA SumPositive ==
    ASSUME NEW f, NEW S, IsFiniteSet(S), \A x \in S : f[x] \in Nat, NEW y \in S, f[y] > 0
    PROVE  SumOf(f, S) \in Nat /\ SumOf(f, S) > 0
<1>1. IsFiniteSet(S \ {y}) /\ Integral(f, S)
  BY FS_Subset DEF Integral
<1>2. SumOf(f, S) = f[y] + SumOf(f, S \ {y})
  BY <1>1, SumWithout
<1>3. SumOf(f, S \ {y}) \in Nat
  BY <1>1, SumOfNaturals
<1> QED  BY <1>2, <1>3

\* The sums of the library over a function are the same.
LEMMA SumsOfFunctions ==
    /\ \A f, S : SumFunctionOnSet(f, S) = SumOf(f, S)
    /\ \A f : SumFunction(f) = SumOf(f, DOMAIN f)
<1>1. \A f, S : SumFunctionOnSet(f, S) = SumOf(f, S)
  BY DEF SumFunctionOnSet, FoldFunctionOnSet, SumOf, MapThenSumSet
<1> QED  BY <1>1 DEF SumFunction, SumFunctionOnSet, FoldFunction
-----------------------------------------------------------------------------
\* What a sequence without repetitions is once its head is taken off.
LEMMA TailApart ==
    ASSUME NEW S, NEW q \in Seq(S), q # <<>>, IsInjective(q)
    PROVE  /\ IsInjective(Tail(q)) /\ ToSet(q) = ToSet(Tail(q)) \cup {Head(q)}
           /\ Head(q) \notin ToSet(Tail(q))
<1>1. /\ Len(q) \in Nat \ {0} /\ DOMAIN q = 1 .. Len(q) /\ Head(q) = q[1]
      /\ DOMAIN Tail(q) = 1 .. Len(q) - 1
      /\ \A i \in 1 .. Len(q) - 1 : Tail(q)[i] = q[i + 1] /\ i + 1 \in DOMAIN q
  OBVIOUS
<1>2. \A i, j \in DOMAIN q : q[i] = q[j] => i = j
  BY DEF IsInjective
<1>3. IsInjective(Tail(q))
  BY <1>1, <1>2 DEF IsInjective
<1>4. ASSUME NEW x \in ToSet(q)  PROVE x \in ToSet(Tail(q)) \cup {Head(q)}
  <2>1. PICK i \in DOMAIN q : x = q[i]
    BY DEF ToSet
  <2>2. CASE i = 1
    BY <1>1, <2>1, <2>2
  <2>3. CASE i # 1
    <3>1. i - 1 \in DOMAIN Tail(q) /\ Tail(q)[i - 1] = q[i]
      BY <1>1, <2>1, <2>3
    <3> QED  BY <2>1, <3>1 DEF ToSet
  <2> QED  BY <2>2, <2>3
<1>5. ToSet(Tail(q)) \cup {Head(q)} \subseteq ToSet(q)
  BY <1>1 DEF ToSet
<1>6. Head(q) \notin ToSet(Tail(q))
  BY <1>1, <1>2 DEF ToSet
<1> QED  BY <1>3, <1>4, <1>5, <1>6

\* A new element at the end repeats nothing.
LEMMA AppendApart ==
    ASSUME NEW S, NEW q \in Seq(S), NEW x \in S, IsInjective(q), x \notin ToSet(q)
    PROVE  IsInjective(Append(q, x)) /\ ToSet(Append(q, x)) = ToSet(q) \cup {x}
<1>1. /\ Len(q) \in Nat /\ DOMAIN q = 1 .. Len(q)
      /\ DOMAIN Append(q, x) = 1 .. Len(q) + 1
      /\ \A i \in 1 .. Len(q) : Append(q, x)[i] = q[i]
      /\ Append(q, x)[Len(q) + 1] = x
  OBVIOUS
<1>2. \A i, j \in DOMAIN q : q[i] = q[j] => i = j
  BY DEF IsInjective
<1>3. \A i \in DOMAIN q : q[i] # x
  BY DEF ToSet
<1>4. ToSet(Append(q, x)) = ToSet(q) \cup {x}
  BY <1>1 DEF ToSet
<1>5. ASSUME NEW i \in 1 .. Len(q) + 1, NEW j \in 1 .. Len(q) + 1,
             Append(q, x)[i] = Append(q, x)[j]
      PROVE  i = j
  BY <1>1, <1>2, <1>3, <1>5
<1> QED  BY <1>1, <1>4, <1>5 DEF IsInjective

\* A sequence without repetitions is as long as its set is large.
LEMMA LengthIsSize ==
    ASSUME NEW S, NEW q \in Seq(S), IsInjective(q)
    PROVE  IsFiniteSet(ToSet(q)) /\ Cardinality(ToSet(q)) = Len(q)
<1>1. Len(q) \in Nat /\ DOMAIN q = 1 .. Len(q)
  OBVIOUS
<1>2. IsFiniteSet(1 .. Len(q)) /\ Cardinality(1 .. Len(q)) = Len(q)
  BY <1>1, FS_Interval
<1> DEFINE f == [i \in 1 .. Len(q) |-> q[i]]
<1>3. f \in Bijection(1 .. Len(q), ToSet(q))
  <2>1. f \in [1 .. Len(q) -> ToSet(q)]
    BY <1>1 DEF ToSet
  <2>2. \A i, j \in 1 .. Len(q) : f[i] = f[j] => i = j
    BY <1>1 DEF IsInjective
  <2>3. \A x \in ToSet(q) : \E i \in 1 .. Len(q) : f[i] = x
    BY <1>1 DEF ToSet
  <2> HIDE DEF f
  <2> QED  BY <2>1, <2>2, <2>3 DEF Bijection, Injection, Surjection, IsInjective
<1> HIDE DEF f
<1> QED  BY <1>2, <1>3, FS_Bijection DEF ExistsBijection
=============================================================================
