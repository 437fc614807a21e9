-------------------------- MODULE TreeSearchProofs --------------------------
(***************************************************************************)
(* VisitsAddUp and BiasConserved of TreeSearch, for every number of        *)
(* threads, moves, searches and visits, every assignment of mutexes to     *)
(* nodes and games of any length.                                          *)
(***************************************************************************)
EXTENDS TreeSearch, FiniteSetTheorems, SequenceTheorems, WellFoundedInduction, TLAPS

-----------------------------------------------------------------------------
(* Sums over finite sets                                                   *)

\* Induction, for one set at a time.
LEMMA InductionOnNat ==
  ASSUME NEW P \in SUBSET Nat, 0 \in P, \A n \in P : n + 1 \in P
  PROVE  P = Nat
<1> DEFINE Less == {ss \in Nat \X Nat : ss[1] < ss[2]}
<1>1. IsWellFoundedOn(Less, Nat)
  BY NatLessThanWellFounded DEF OpToRel
<1>2. SUFFICES ASSUME Nat \ P # {} PROVE FALSE
  OBVIOUS
<1>3. PICK n \in Nat \ P : \A i \in Nat \ P : ~ (<<i, n>> \in Less)
  <2> HIDE DEF Less
  <2> QED
    BY <1>1, <1>2, WFMin
<1>4. n \in Nat /\ n # 0 /\ n - 1 \in Nat
  OBVIOUS
<1>5. n - 1 \in P
  <2>1. <<n - 1, n>> \in Less
    BY <1>4
  <2> HIDE DEF Less
  <2> QED
    BY <1>3, <1>4, <2>1
<1>6. n - 1 + 1 = n
  BY <1>4
<1> QED
  BY <1>3, <1>5, <1>6

\* A property of the empty set that stays when an element is added.
LEMMA InductionOnSubsets ==
  ASSUME NEW S, IsFiniteSet(S), NEW P \in SUBSET (SUBSET S), {} \in P,
         \A T \in P : \A x \in S \ T : T \cup {x} \in P
  PROVE  P = SUBSET S
<1> DEFINE Q == {n \in Nat : \A T \in SUBSET S : Cardinality(T) = n => T \in P}
<1>1. \A T \in SUBSET S : IsFiniteSet(T) /\ Cardinality(T) \in Nat
  BY FS_Subset, FS_CardinalityType
<1>2. 0 \in Q
  <2> SUFFICES ASSUME NEW T \in SUBSET S, Cardinality(T) = 0 PROVE T \in P
    OBVIOUS
  <2>1. T = {}
    BY <1>1, FS_EmptySet
  <2> QED
    BY <2>1
<1>3. \A n \in Q : n + 1 \in Q
  <2> SUFFICES ASSUME NEW n \in Q, NEW T \in SUBSET S, Cardinality(T) = n + 1 PROVE T \in P
    OBVIOUS
  <2>1. T # {}
    <3>1. n + 1 # 0 /\ Cardinality({}) = 0
      BY FS_EmptySet
    <3> HIDE DEF Q
    <3> QED
      BY <3>1
  <2>2. PICK x \in T : TRUE
    BY <2>1
  <2>3. Cardinality(T \ {x}) = n
    <3> HIDE DEF Q
    <3>1. IsFiniteSet(T)
      BY <1>1
    <3>2. Cardinality(T \ {x}) = Cardinality(T) - 1
      BY <3>1, FS_RemoveElement
    <3>3. n \in Nat
      BY DEF Q
    <3> QED
      BY <3>2, <3>3
  <2>4. T \ {x} \in P /\ x \in S \ (T \ {x})
    BY <2>3
  <2>5. (T \ {x}) \cup {x} \in P
    BY <2>4
  <2>6. (T \ {x}) \cup {x} = T
    OBVIOUS
  <2> QED
    BY <2>5, <2>6
<1>4. Q = Nat
  <2>1. Q \in SUBSET Nat
    OBVIOUS
  <2> HIDE DEF Q
  <2> QED
    BY <1>2, <1>3, <2>1, InductionOnNat
<1> QED
  BY <1>1, <1>4

Chosen(s) == CHOOSE x \in s : TRUE

LEMMA ChosenIsMember == \A s : s # {} => Chosen(s) \in s
BY DEF Chosen

\* What the fold computes, as an equation.
AddsUp(g, f, S) ==
  g = [s \in SUBSET S |-> IF s = {} THEN 0 ELSE f[Chosen(s)] + g[s \ {Chosen(s)}]]

LEMMA SumIs ==
  ASSUME NEW f, NEW S
  PROVE  SumFunctionOnSet(f, S) = (CHOOSE g : AddsUp(g, f, S))[S]
BY DEF SumFunctionOnSet, FoldFunctionOnSet, MapThenFoldSet, AddsUp, Chosen

\* There are partial sums, for sets of bounded size.
LEMMA PartialSums ==
  ASSUME NEW f, NEW S, IsFiniteSet(S)
  PROVE  \E g : AddsUp(g, f, S)
<1> DEFINE Upto(n) == {s \in SUBSET S : Cardinality(s) <= n}
           Sums(g, n) ==
             g = [s \in Upto(n) |-> IF s = {} THEN 0 ELSE f[Chosen(s)] + g[s \ {Chosen(s)}]]
           P == {n \in Nat : \E g : Sums(g, n)}
<1>1. \A s \in SUBSET S : IsFiniteSet(s) /\ Cardinality(s) \in Nat
  BY FS_Subset, FS_CardinalityType
<1>2. \A n \in Nat : \A s \in Upto(n) : s # {} => s \ {Chosen(s)} \in Upto(n)
  <2> TAKE n \in Nat
  <2> TAKE s \in Upto(n)
  <2>1. HAVE s # {}
  <2>2. Chosen(s) \in s /\ s \in SUBSET S
    BY <2>1, ChosenIsMember
  <2>3. Cardinality(s \ {Chosen(s)}) = Cardinality(s) - 1
    BY <1>1, <2>2, FS_RemoveElement
  <2> QED
    BY <1>1, <2>2, <2>3
<1>3. \A n \in Nat : \A s \in Upto(n + 1) : s # {} => s \ {Chosen(s)} \in Upto(n)
  <2> TAKE n \in Nat
  <2> TAKE s \in Upto(n + 1)
  <2>1. HAVE s # {}
  <2>2. Chosen(s) \in s /\ s \in SUBSET S
    BY <2>1, ChosenIsMember
  <2>3. Cardinality(s \ {Chosen(s)}) = Cardinality(s) - 1
    BY <1>1, <2>2, FS_RemoveElement
  <2> QED
    BY <1>1, <2>2, <2>3
<1>4. 0 \in P
  <2> DEFINE g == [s \in Upto(0) |-> 0]
  <2>1. \A s \in Upto(0) : s = {}
    BY <1>1, FS_EmptySet
  <2>2. g = [s \in Upto(0) |-> IF s = {} THEN 0 ELSE f[Chosen(s)] + g[s \ {Chosen(s)}]]
    BY <2>1
  <2> QED
    BY <2>2
<1>5. ASSUME NEW n \in Nat, NEW g, Sums(g, n) PROVE \E k : Sums(k, n + 1)
  <2> DEFINE h == [s \in Upto(n + 1) |-> IF s = {} THEN 0 ELSE f[Chosen(s)] + g[s \ {Chosen(s)}]]
  <2>1. Upto(n) \subseteq Upto(n + 1)
    BY <1>1
  <2> HIDE DEF Upto
  <2>2. \A s \in Upto(n) : g[s] = IF s = {} THEN 0 ELSE f[Chosen(s)] + g[s \ {Chosen(s)}]
    BY <1>5
  <2>3. \A s \in Upto(n) : h[s] = g[s]
    BY <2>1, <2>2
  <2>4. \A s \in Upto(n + 1) : s # {} => h[s \ {Chosen(s)}] = g[s \ {Chosen(s)}]
    BY <1>3, <2>3
  <2>5. h = [s \in Upto(n + 1) |-> IF s = {} THEN 0 ELSE f[Chosen(s)] + h[s \ {Chosen(s)}]]
    BY <2>4
  <2> QED
    BY <2>5
<1>6. P = Nat
  <2>1. P \in SUBSET Nat /\ \A n \in P : n + 1 \in P
    <3> HIDE DEF Sums
    <3> QED
      BY <1>5
  <2> HIDE DEF P
  <2> QED
    BY <1>4, <2>1, InductionOnNat
<1>7. PICK g : Sums(g, Cardinality(S))
  <2>1. Cardinality(S) \in Nat
    BY <1>1
  <2> QED
    BY <1>6, <2>1
<1>8. Upto(Cardinality(S)) = SUBSET S
  <2>1. \A s \in SUBSET S : Cardinality(s) <= Cardinality(S)
    BY FS_Subset
  <2> QED
    BY <2>1
<1> QED
  BY <1>7, <1>8 DEF AddsUp

\* The function that the fold takes its value from.
LEMMA SumEquation ==
  ASSUME NEW f, NEW S, IsFiniteSet(S)
  PROVE  \E g : AddsUp(g, f, S) /\ SumFunctionOnSet(f, S) = g[S]
<1> DEFINE g == CHOOSE h : AddsUp(h, f, S)
<1>1. AddsUp(g, f, S)
  BY PartialSums
<1>2. SumFunctionOnSet(f, S) = g[S]
  BY SumIs
<1> QED
  BY <1>1, <1>2

\* Nothing but the values at the elements matters.
LEMMA SumsAgree ==
  ASSUME NEW S, IsFiniteSet(S), NEW T, NEW U, S \subseteq T, S \subseteq U,
         NEW e, NEW f, \A x \in S : e[x] = f[x],
         NEW g, AddsUp(g, e, T), NEW h, AddsUp(h, f, U)
  PROVE  g[S] = h[S]
<1> DEFINE P == {n \in Nat : \A s \in SUBSET S : Cardinality(s) = n => g[s] = h[s]}
<1>1. \A s \in SUBSET S : IsFiniteSet(s) /\ Cardinality(s) \in Nat
  BY FS_Subset, FS_CardinalityType
<1>2. \A s \in SUBSET S :
        /\ g[s] = IF s = {} THEN 0 ELSE e[Chosen(s)] + g[s \ {Chosen(s)}]
        /\ h[s] = IF s = {} THEN 0 ELSE f[Chosen(s)] + h[s \ {Chosen(s)}]
  <2>1. SUBSET S \subseteq SUBSET T /\ SUBSET S \subseteq SUBSET U
    OBVIOUS
  <2> QED
    BY <2>1 DEF AddsUp
<1>3. 0 \in P
  BY <1>1, <1>2, FS_EmptySet
<1>4. \A n \in P : n + 1 \in P
  <2> SUFFICES ASSUME NEW n \in P, NEW s \in SUBSET S, Cardinality(s) = n + 1 PROVE g[s] = h[s]
    OBVIOUS
  <2>1. s # {}
    BY FS_EmptySet
  <2>2. Chosen(s) \in s
    BY <2>1, ChosenIsMember
  <2>3. Cardinality(s \ {Chosen(s)}) = n
    BY <1>1, <2>2, FS_RemoveElement
  <2>4. g[s \ {Chosen(s)}] = h[s \ {Chosen(s)}]
    BY <2>3
  <2>5. e[Chosen(s)] = f[Chosen(s)]
    BY <2>2
  <2> QED
    BY <1>2, <2>1, <2>4, <2>5
<1>5. P = Nat
  <2>1. P \in SUBSET Nat
    OBVIOUS
  <2> HIDE DEF P
  <2> QED
    BY <1>3, <1>4, <2>1, InductionOnNat
<1> QED
  BY <1>1, <1>5

LEMMA SumSame ==
  ASSUME NEW S, IsFiniteSet(S), NEW e, NEW f, \A x \in S : e[x] = f[x]
  PROVE  SumFunctionOnSet(e, S) = SumFunctionOnSet(f, S)
<1>1. PICK g : AddsUp(g, e, S) /\ SumFunctionOnSet(e, S) = g[S]
  BY SumEquation
<1>2. PICK h : AddsUp(h, f, S) /\ SumFunctionOnSet(f, S) = h[S]
  BY SumEquation
<1> QED
  BY <1>1, <1>2, SumsAgree

LEMMA SumEmpty ==
  ASSUME NEW f
  PROVE  SumFunctionOnSet(f, {}) = 0
<1>1. PICK g : AddsUp(g, f, {}) /\ SumFunctionOnSet(f, {}) = g[{}]
  BY SumEquation, FS_EmptySet
<1> QED
  BY <1>1 DEF AddsUp

\* Every g that adds up gives the sums of the subsets.
LEMMA SumOfSubset ==
  ASSUME NEW S, IsFiniteSet(S), NEW T \in SUBSET S, NEW f, NEW g, AddsUp(g, f, S)
  PROVE  g[T] = SumFunctionOnSet(f, T)
<1>1. IsFiniteSet(T)
  BY FS_Subset
<1>2. PICK h : AddsUp(h, f, T) /\ SumFunctionOnSet(f, T) = h[T]
  BY <1>1, SumEquation
<1> QED
  BY <1>1, <1>2, SumsAgree

LEMMA SumChosen ==
  ASSUME NEW S, IsFiniteSet(S), S # {}, NEW f
  PROVE  SumFunctionOnSet(f, S) = f[Chosen(S)] + SumFunctionOnSet(f, S \ {Chosen(S)})
<1>1. PICK g : AddsUp(g, f, S) /\ SumFunctionOnSet(f, S) = g[S]
  BY SumEquation
<1>2. g[S] = f[Chosen(S)] + g[S \ {Chosen(S)}]
  <2>1. S \in SUBSET S
    OBVIOUS
  <2> QED
    BY <1>1, <2>1 DEF AddsUp
<1>3. g[S \ {Chosen(S)}] = SumFunctionOnSet(f, S \ {Chosen(S)})
  BY <1>1, SumOfSubset
<1> QED
  BY <1>1, <1>2, <1>3

\* A sum of integers is an integer.
LEMMA SumType ==
  ASSUME NEW S, IsFiniteSet(S), NEW f, \A x \in S : f[x] \in Int
  PROVE  SumFunctionOnSet(f, S) \in Int
<1> DEFINE P == {n \in Nat : \A T \in SUBSET S : Cardinality(T) = n =>
                   SumFunctionOnSet(f, T) \in Int}
<1>1. \A s \in SUBSET S : IsFiniteSet(s) /\ Cardinality(s) \in Nat
  BY FS_Subset, FS_CardinalityType
<1>2. 0 \in P
  <2>1. \A T \in SUBSET S : Cardinality(T) = 0 => T = {}
    BY <1>1, FS_EmptySet
  <2> QED
    BY <2>1, SumEmpty
<1>3. ASSUME NEW n \in Nat, n \in P, NEW T \in SUBSET S, Cardinality(T) = n + 1
      PROVE  SumFunctionOnSet(f, T) \in Int
  <2> DEFINE c == Chosen(T)
  <2>1. T # {} /\ IsFiniteSet(T)
    <3> HIDE DEF P
    <3> QED
      BY <1>1, <1>3, FS_EmptySet
  <2>2. c \in T
    BY <2>1, ChosenIsMember
  <2>3. SumFunctionOnSet(f, T) = f[c] + SumFunctionOnSet(f, T \ {c})
    BY <2>1, SumChosen
  <2> HIDE DEF c
  <2>4. Cardinality(T \ {c}) = n
    <3> HIDE DEF P
    <3>1. Cardinality(T \ {c}) = Cardinality(T) - 1
      BY <2>1, <2>2, FS_RemoveElement
    <3> QED
      BY <1>3, <3>1
  <2>5. SumFunctionOnSet(f, T \ {c}) \in Int
    BY <1>3, <2>4
  <2> QED
    BY <2>2, <2>3, <2>5
<1>4. \A n \in P : n + 1 \in P
  BY <1>3
<1>5. P = Nat
  <2>1. P \in SUBSET Nat
    OBVIOUS
  <2> HIDE DEF P
  <2> QED
    BY <1>2, <1>4, <2>1, InductionOnNat
<1> QED
  BY <1>1, <1>5

\* The order of the summands does not matter.
LEMMA SumRemove ==
  ASSUME NEW S, IsFiniteSet(S), NEW f, \A x \in S : f[x] \in Int, NEW x \in S
  PROVE  SumFunctionOnSet(f, S) = f[x] + SumFunctionOnSet(f, S \ {x})
<1> DEFINE P == {n \in Nat : \A T \in SUBSET S : Cardinality(T) = n =>
                   \A y \in T : SumFunctionOnSet(f, T) = f[y] + SumFunctionOnSet(f, T \ {y})}
<1>1. \A T \in SUBSET S : /\ IsFiniteSet(T) /\ Cardinality(T) \in Nat
                          /\ SumFunctionOnSet(f, T) \in Int
                          /\ \A y \in T : Cardinality(T \ {y}) = Cardinality(T) - 1
  BY FS_Subset, FS_CardinalityType, FS_RemoveElement, SumType
<1>2. 0 \in P
  <2>1. \A T \in SUBSET S : Cardinality(T) = 0 => T = {}
    BY <1>1, FS_EmptySet
  <2> QED
    BY <2>1
<1>3. ASSUME NEW n \in Nat, n \in P, NEW T \in SUBSET S, Cardinality(T) = n + 1, NEW y \in T
      PROVE  SumFunctionOnSet(f, T) = f[y] + SumFunctionOnSet(f, T \ {y})
  <2> DEFINE c == Chosen(T)
  <2>1. c \in T
    BY ChosenIsMember
  <2>2. SumFunctionOnSet(f, T) = f[c] + SumFunctionOnSet(f, T \ {c})
    BY <1>1, SumChosen
  <2> HIDE DEF c
  <2>3. CASE y = c
    BY <2>2, <2>3
  <2>4. CASE y # c
    <3> DEFINE rest == SumFunctionOnSet(f, (T \ {c}) \ {y})
    <3>1. Cardinality(T \ {c}) = n /\ Cardinality(T \ {y}) = n
      <4>1. Cardinality(T \ {c}) = Cardinality(T) - 1 /\ Cardinality(T \ {y}) = Cardinality(T) - 1
        BY <1>1, <2>1
      <4> HIDE DEF P
      <4> QED
        BY <1>3, <4>1
    <3>2. SumFunctionOnSet(f, T \ {c}) = f[y] + rest
      BY <1>3, <2>4, <3>1
    <3>3. SumFunctionOnSet(f, T \ {y}) = f[c] + SumFunctionOnSet(f, (T \ {y}) \ {c})
      BY <1>3, <2>1, <2>4, <3>1
    <3>4. (T \ {y}) \ {c} = (T \ {c}) \ {y}
      OBVIOUS
    <3>5. rest \in Int /\ f[c] \in Int /\ f[y] \in Int
      BY <1>1, <2>1
    <3> HIDE DEF rest, P
    <3>6. SumFunctionOnSet(f, T \ {y}) = f[c] + rest
      BY <3>3, <3>4 DEF rest
    <3> QED
      BY <2>2, <3>2, <3>5, <3>6
  <2> QED
    BY <2>3, <2>4
<1>4. \A n \in P : n + 1 \in P
  <2> TAKE n \in P
  <2>1. n \in Nat /\ n + 1 \in Nat
    OBVIOUS
  <2>2. \A T \in SUBSET S : Cardinality(T) = n + 1 => \A y \in T :
          SumFunctionOnSet(f, T) = f[y] + SumFunctionOnSet(f, T \ {y})
    <3> HIDE DEF P
    <3> QED
      BY <1>3, <2>1
  <2> QED
    BY <2>1, <2>2
<1>5. P = Nat
  <2>1. P \in SUBSET Nat
    OBVIOUS
  <2> HIDE DEF P
  <2> QED
    BY <1>2, <1>4, <2>1, InductionOnNat
<1> QED
  BY <1>1, <1>5

LEMMA SumInsert ==
  ASSUME NEW S, IsFiniteSet(S), NEW x, x \notin S, NEW f, \A y \in S \cup {x} : f[y] \in Int
  PROVE  SumFunctionOnSet(f, S \cup {x}) = f[x] + SumFunctionOnSet(f, S)
<1>1. IsFiniteSet(S \cup {x}) /\ (S \cup {x}) \ {x} = S
  BY FS_AddElement
<1>2. SumFunctionOnSet(f, S \cup {x}) = f[x] + SumFunctionOnSet(f, (S \cup {x}) \ {x})
  BY <1>1, SumRemove
<1> QED
  BY <1>1, <1>2

\* Two sums that differ at one element.
LEMMA SumChange ==
  ASSUME NEW S, IsFiniteSet(S), NEW x \in S, NEW e, NEW f,
         \A y \in S : e[y] \in Int /\ f[y] \in Int, \A y \in S \ {x} : e[y] = f[y]
  PROVE  SumFunctionOnSet(e, S) = SumFunctionOnSet(f, S) + e[x] - f[x]
<1>1. IsFiniteSet(S \ {x})
  BY FS_RemoveElement
<1>2. SumFunctionOnSet(e, S \ {x}) = SumFunctionOnSet(f, S \ {x})
  BY <1>1, SumSame
<1>3. SumFunctionOnSet(e, S \ {x}) \in Int
  BY <1>1, SumType
<1>4. /\ SumFunctionOnSet(e, S) = e[x] + SumFunctionOnSet(e, S \ {x})
      /\ SumFunctionOnSet(f, S) = f[x] + SumFunctionOnSet(f, S \ {x})
  BY SumRemove
<1> QED
  BY <1>2, <1>3, <1>4

LEMMA SumUnion ==
  ASSUME NEW S, IsFiniteSet(S), NEW T, IsFiniteSet(T), S \cap T = {},
         NEW f, \A x \in S \cup T : f[x] \in Int
  PROVE  SumFunctionOnSet(f, S \cup T) = SumFunctionOnSet(f, S) + SumFunctionOnSet(f, T)
<1> DEFINE P == {U \in SUBSET T :
                   SumFunctionOnSet(f, S \cup U) = SumFunctionOnSet(f, S) + SumFunctionOnSet(f, U)}
<1>1. SumFunctionOnSet(f, S) \in Int
  BY SumType
<1>2. {} \in P
  BY <1>1, SumEmpty
<1>3. ASSUME NEW U \in SUBSET T, U \in P, NEW x \in T \ U
      PROVE  SumFunctionOnSet(f, S \cup (U \cup {x}))
               = SumFunctionOnSet(f, S) + SumFunctionOnSet(f, U \cup {x})
  <2>1. IsFiniteSet(U) /\ IsFiniteSet(S \cup U)
    BY FS_Subset, FS_Union
  <2>2. SumFunctionOnSet(f, (S \cup U) \cup {x}) = f[x] + SumFunctionOnSet(f, S \cup U)
    BY <2>1, SumInsert
  <2>3. SumFunctionOnSet(f, U \cup {x}) = f[x] + SumFunctionOnSet(f, U)
    BY <2>1, SumInsert
  <2>4. SumFunctionOnSet(f, U) \in Int /\ f[x] \in Int
    BY <2>1, SumType
  <2>5. (S \cup U) \cup {x} = S \cup (U \cup {x})
    OBVIOUS
  <2>6. SumFunctionOnSet(f, S \cup U) = SumFunctionOnSet(f, S) + SumFunctionOnSet(f, U)
    BY <1>3
  <2> DEFINE a == SumFunctionOnSet(f, S)
             b == SumFunctionOnSet(f, U)
  <2>7. a + (f[x] + b) = f[x] + (a + b)
    <3> HIDE DEF a, b
    <3>1. a \in Int /\ b \in Int /\ f[x] \in Int
      BY <1>1, <2>4 DEF a, b
    <3> QED
      BY <3>1
  <2> HIDE DEF P
  <2> QED
    BY <2>2, <2>3, <2>5, <2>6, <2>7
<1>4. \A U \in P : \A x \in T \ U : U \cup {x} \in P
  BY <1>3
<1>5. P = SUBSET T
  <2>1. P \in SUBSET (SUBSET T)
    OBVIOUS
  <2> HIDE DEF P
  <2> QED
    BY <1>2, <1>4, <2>1, InductionOnSubsets
<1> QED
  BY <1>5

\* A sum of natural numbers is one.
LEMMA SumNat ==
  ASSUME NEW S, IsFiniteSet(S), NEW f, \A x \in S : f[x] \in Nat
  PROVE  SumFunctionOnSet(f, S) \in Nat
<1> DEFINE P == {T \in SUBSET S : SumFunctionOnSet(f, T) \in Nat}
<1>1. {} \in P
  BY SumEmpty
<1>2. ASSUME NEW T \in P, NEW x \in S \ T PROVE T \cup {x} \in P
  <2>1. IsFiniteSet(T) /\ T \in SUBSET S
    BY FS_Subset
  <2>2. \A y \in T \cup {x} : f[y] \in Int
    BY <2>1
  <2>3. SumFunctionOnSet(f, T \cup {x}) = f[x] + SumFunctionOnSet(f, T)
    BY <2>1, <2>2, SumInsert
  <2> QED
    BY <2>1, <2>3
<1>3. P = SUBSET S
  <2>1. P \in SUBSET (SUBSET S) /\ \A T \in P : \A x \in S \ T : T \cup {x} \in P
    BY <1>2
  <2> HIDE DEF P
  <2> QED
    BY <1>1, <2>1, InductionOnSubsets
<1> QED
  BY <1>3

-----------------------------------------------------------------------------
(* Move sequences                                                          *)

\* A prefix, position by position.
LEMMA PrefixMeans ==
  ASSUME NEW p \in Seq(Moves), NEW n \in Seq(Moves)
  PROVE  IsPrefix(p, n) <=> Len(p) <= Len(n) /\ \A i \in 1 .. Len(p) : p[i] = n[i]
BY DEF IsPrefix

LEMMA PrefixOfItself == ASSUME NEW n \in Seq(Moves) PROVE IsPrefix(n, n)
BY PrefixMeans

LEMMA PrefixTransitive ==
  ASSUME NEW p \in Seq(Moves), NEW n \in Seq(Moves), NEW o \in Seq(Moves),
         IsPrefix(p, n), IsPrefix(n, o)
  PROVE  IsPrefix(p, o)
<1>1. Len(p) <= Len(n) /\ Len(n) <= Len(o)
  BY PrefixMeans
<1>2. \A i \in 1 .. Len(p) : i \in 1 .. Len(n) /\ p[i] = n[i] /\ n[i] = o[i]
  BY <1>1, PrefixMeans
<1> QED
  BY <1>1, <1>2, PrefixMeans

\* Two prefixes of one sequence.
LEMMA PrefixesCompare ==
  ASSUME NEW p \in Seq(Moves), NEW o \in Seq(Moves), NEW n \in Seq(Moves),
         IsPrefix(p, n), IsPrefix(o, n), Len(p) <= Len(o)
  PROVE  IsPrefix(p, o)
<1>1. \A i \in 1 .. Len(p) : p[i] = n[i] /\ i \in 1 .. Len(o)
  BY PrefixMeans
<1>2. \A i \in 1 .. Len(p) : p[i] = o[i]
  BY <1>1, PrefixMeans
<1> QED
  BY <1>2, PrefixMeans

LEMMA SameWhenPrefixed ==
  ASSUME NEW p \in Seq(Moves), NEW n \in Seq(Moves), IsPrefix(p, n), Len(p) = Len(n)
  PROVE  p = n
BY PrefixMeans

LEMMA AppendFacts ==
  ASSUME NEW n \in Seq(Moves), NEW m \in Moves
  PROVE  /\ Append(n, m) \in Seq(Moves) /\ Append(n, m) # n
         /\ Len(Append(n, m)) = Len(n) + 1
         /\ Front(Append(n, m)) = n /\ Last(Append(n, m)) = m
         /\ IsPrefix(n, Append(n, m))
<1>1. /\ Append(n, m) \in Seq(Moves) /\ Append(n, m) # n
      /\ Len(Append(n, m)) = Len(n) + 1
  OBVIOUS
<1>2. Front(Append(n, m)) = n /\ Last(Append(n, m)) = m
  BY DEF Front, Last
<1>3. IsPrefix(n, Append(n, m))
  <2>1. \A i \in 1 .. Len(n) : Append(n, m)[i] = n[i]
    BY AppendProperties
  <2>2. Len(n) <= Len(Append(n, m))
    BY <1>1
  <2> QED
    BY <1>1, <2>1, <2>2, PrefixMeans
<1> QED
  BY <1>1, <1>2, <1>3

LEMMA FrontFacts ==
  ASSUME NEW c \in Seq(Moves), c # <<>>
  PROVE  /\ Front(c) \in Seq(Moves) /\ Last(c) \in Moves
         /\ Len(Front(c)) = Len(c) - 1
         /\ c = Append(Front(c), Last(c))
<1>1. Len(c) \in Nat /\ Len(c) > 0
  OBVIOUS
<1>2. Front(c) \in Seq(Moves) /\ Len(Front(c)) = Len(c) - 1
  <2>1. PICK k \in Nat : k = Len(c) - 1
    BY <1>1
  <2>2. \A i \in 1 .. k : c[i] \in Moves
    BY <1>1, <2>1
  <2>3. SubSeq(c, 1, k) \in Seq(Moves) /\ Len(SubSeq(c, 1, k)) = IF 1 <= k THEN k - 1 + 1 ELSE 0
    BY <2>2, SubSeqProperties
  <2> QED
    BY <2>1, <2>3 DEF Front
<1>3. \A i \in 1 .. Len(c) - 1 : Front(c)[i] = c[i]
  BY <1>1 DEF Front
<1>4. Last(c) \in Moves
  BY <1>1 DEF Last
<1>5. c = Append(Front(c), Last(c))
  BY <1>1, <1>2, <1>3 DEF Last
<1> QED
  BY <1>2, <1>4, <1>5

\* The prefixes of a sequence are itself and those of its front.
LEMMA PrefixOfAppend ==
  ASSUME NEW p \in Seq(Moves), NEW n \in Seq(Moves), NEW m \in Moves
  PROVE  IsPrefix(p, Append(n, m)) <=> IsPrefix(p, n) \/ p = Append(n, m)
<1> DEFINE c == Append(n, m)
<1>0. c \in Seq(Moves) /\ Len(c) = Len(n) + 1 /\ IsPrefix(n, c)
  BY AppendFacts
<1> HIDE DEF c
<1>1. ASSUME IsPrefix(p, c), Len(p) <= Len(n) PROVE IsPrefix(p, n)
  BY <1>0, <1>1, PrefixesCompare
<1>2. ASSUME IsPrefix(p, c), Len(p) > Len(n) PROVE p = c
  <2>1. Len(p) <= Len(n) + 1 /\ Len(p) \in Nat /\ Len(n) \in Nat
    BY <1>0, <1>2, PrefixMeans
  <2> QED
    BY <1>2, <2>1, <1>0, SameWhenPrefixed
<1>3. ASSUME IsPrefix(p, n) PROVE IsPrefix(p, c)
  BY <1>0, <1>3, PrefixTransitive
<1>4. ASSUME p = c PROVE IsPrefix(p, c)
  BY <1>0, <1>4, PrefixOfItself
<1>5. Len(p) <= Len(n) \/ Len(p) > Len(n)
  OBVIOUS
<1> QED
  BY <1>1, <1>2, <1>3, <1>4, <1>5 DEF c

\* A child is its parent and one move.
LEMMA ChildIs ==
  ASSUME NEW n \in Seq(Moves), NEW c \in Seq(Moves)
  PROVE  Len(c) = Len(n) + 1 /\ Front(c) = n <=> \E m \in Moves : c = Append(n, m)
<1>1. ASSUME Len(c) = Len(n) + 1, Front(c) = n PROVE \E m \in Moves : c = Append(n, m)
  <2>1. c # <<>>
    BY <1>1
  <2> QED
    BY <1>1, <2>1, FrontFacts
<1> QED
  BY <1>1, AppendFacts

-----------------------------------------------------------------------------
(* The inductive invariant                                                 *)

Up == {"return", "bias", "write"}
InTree == {"descend", "evaluate", "stuck"} \cup Up

NodeData ==
  [nn : BOOLEAN, visits : Nat, virtualLosses : Int, hasEntry : BOOLEAN, lastWeight : Nat,
   leaf : Nat]
ThreadData ==
  [pc : InTree \cup {"start", "check", "count", "done"}, at : Seq(Moves), numPlayouts : Nat,
   childVisits : Nat]

IsTree(t) ==
  /\ DOMAIN t \subseteq Seq(Moves) /\ IsFiniteSet(DOMAIN t)
  /\ t \in [DOMAIN t -> NodeData]

TypeOK ==
  /\ game \in Seq(Moves) /\ IsTree(tree)
  /\ table \in [DOMAIN table -> Int]
  /\ searching \in BOOLEAN /\ searches \in 0 .. Len(MaxVisitsOfSearches)
  /\ searching => searches # 0
  /\ playouts \in Nat /\ oldVisits \in Nat
  /\ th \in [Threads -> ThreadData]

\* The tree grows from the game, without gaps.
Rooted(t, root) ==
  /\ \A n \in DOMAIN t : IsPrefix(root, n)
  /\ \A n \in DOMAIN t : \A p \in Seq(Moves) :
       IsPrefix(root, p) /\ IsPrefix(p, n) => p \in DOMAIN t

Shape == Rooted(tree, game) /\ (searching => game \in DOMAIN tree)

\* Threads are at nodes of the tree, and at rest between searches.
Positions ==
  /\ \A t \in Threads : th[t].pc \in InTree => th[t].at \in DOMAIN tree
  /\ ~searching => \A t \in Threads : th[t].pc = "done"

\* The parts of VisitsAddUp.
NodeAddsUp(n) ==
  /\ tree[n].visits + Cardinality(Returning(n)) = tree[n].leaf + VisitsOf(tree, Children(tree, n))
  /\ tree[n].virtualLosses = (IF n = game THEN 0 ELSE VirtualLosses * Cardinality(Inside(n)))
  /\ tree[n].visits = 0 => (n = game \/ Inside(n) # {}) /\ Children(tree, n) = {}
  /\ tree[n].nn => tree[n].visits > 0
  /\ ~tree[n].nn => Children(tree, n) = {}

NodesAddUp == \A n \in DOMAIN tree : NodeAddsUp(n)

Counting == {t \in Threads : th[t].pc = "count"}

RootAddsUp ==
  searching => tree[game].visits = oldVisits + playouts + Cardinality(Counting)

\* The threads that have not seen a limit reached: each may still count a playout.
Unaware == {t \in Threads : th[t].pc # "start" /\ th[t].numPlayouts < PlayoutsAllowed}

Bound == PlayoutsAllowed + Cardinality(Threads) - 1

LimitKept ==
  searching =>
    /\ \A t \in Threads : th[t].pc \in InTree \cup {"count"} => t \in Unaware
    /\ playouts >= PlayoutsAllowed => playouts + Cardinality(Unaware) <= Bound

\* During a search the table has no other entries than those of nodes, with their weights.
WeighsRight(k) == table[k] = WeightsOf(tree, Sharing(tree, DOMAIN tree, k))

Weighed ==
  /\ \A n \in DOMAIN tree : IF tree[n].hasEntry THEN HasBiasKey(n) /\ BiasKey(n) \in DOMAIN table
                                                ELSE tree[n].lastWeight = 0
  /\ \A n \in DOMAIN tree : tree[n].hasEntry => WeighsRight(BiasKey(n))
  /\ searching => \A k \in DOMAIN table : WeighsRight(k)

IInv ==
  TypeOK /\ Shape /\ Positions /\ NodesAddUp /\ RootAddsUp /\ LimitKept /\ Weighed

-----------------------------------------------------------------------------
(* Visits and weights of sets of nodes                                     *)

LEMMA SomeNodes ==
  ASSUME NEW t, IsTree(t), NEW S \in SUBSET DOMAIN t
  PROVE  /\ IsFiniteSet(S)
         /\ \A n \in S : /\ t[n] \in NodeData /\ n \in Seq(Moves)
                         /\ t[n].visits \in Nat /\ t[n].lastWeight \in Nat
                         /\ [x \in DOMAIN t |-> t[x].visits][n] = t[n].visits
                         /\ [x \in DOMAIN t |-> t[x].lastWeight][n] = t[n].lastWeight
<1>1. IsFiniteSet(S)
  BY FS_Subset DEF IsTree
<1>2. \A n \in S : t[n] \in NodeData /\ n \in Seq(Moves)
  BY DEF IsTree
<1> QED
  BY <1>1, <1>2 DEF NodeData

LEMMA VisitsNat ==
  ASSUME NEW t, IsTree(t), NEW S \in SUBSET DOMAIN t
  PROVE  VisitsOf(t, S) \in Nat /\ WeightsOf(t, S) \in Nat
BY SomeNodes, SumNat DEF VisitsOf, WeightsOf

LEMMA VisitsSame ==
  ASSUME NEW t, IsTree(t), NEW u, IsTree(u), NEW S, S \subseteq DOMAIN t, S \subseteq DOMAIN u
  PROVE  /\ (\A n \in S : t[n].visits = u[n].visits) => VisitsOf(t, S) = VisitsOf(u, S)
         /\ (\A n \in S : t[n].lastWeight = u[n].lastWeight) => WeightsOf(t, S) = WeightsOf(u, S)
<1>1. ASSUME \A n \in S : t[n].visits = u[n].visits PROVE VisitsOf(t, S) = VisitsOf(u, S)
  <2>1. \A n \in S : [x \in DOMAIN t |-> t[x].visits][n] = [x \in DOMAIN u |-> u[x].visits][n]
    BY <1>1
  <2> QED
    BY <2>1, SomeNodes, SumSame DEF VisitsOf
<1>2. ASSUME \A n \in S : t[n].lastWeight = u[n].lastWeight
      PROVE  WeightsOf(t, S) = WeightsOf(u, S)
  <2>1. \A n \in S : [x \in DOMAIN t |-> t[x].lastWeight][n]
                       = [x \in DOMAIN u |-> u[x].lastWeight][n]
    BY <1>2
  <2> QED
    BY <2>1, SomeNodes, SumSame DEF WeightsOf
<1> QED
  BY <1>1, <1>2

\* One node of S changes.
LEMMA VisitsChange ==
  ASSUME NEW t, IsTree(t), NEW u, IsTree(u), NEW S, S \subseteq DOMAIN t, S \subseteq DOMAIN u,
         NEW c \in S
  PROVE  /\ (\A n \in S \ {c} : t[n].visits = u[n].visits)
              => VisitsOf(u, S) = VisitsOf(t, S) + u[c].visits - t[c].visits
         /\ (\A n \in S \ {c} : t[n].lastWeight = u[n].lastWeight)
              => WeightsOf(u, S) = WeightsOf(t, S) + u[c].lastWeight - t[c].lastWeight
<1> DEFINE e == [x \in DOMAIN t |-> t[x].visits]
           f == [x \in DOMAIN u |-> u[x].visits]
           g == [x \in DOMAIN t |-> t[x].lastWeight]
           h == [x \in DOMAIN u |-> u[x].lastWeight]
<1>0. S \in SUBSET DOMAIN t /\ S \in SUBSET DOMAIN u
  OBVIOUS
<1>1. /\ IsFiniteSet(S)
      /\ \A n \in S : e[n] = t[n].visits /\ f[n] = u[n].visits
      /\ \A n \in S : g[n] = t[n].lastWeight /\ h[n] = u[n].lastWeight
      /\ \A n \in S : e[n] \in Int /\ f[n] \in Int
      /\ \A n \in S : g[n] \in Int /\ h[n] \in Int
  <2>1. /\ IsFiniteSet(S)
        /\ \A n \in S : e[n] = t[n].visits /\ g[n] = t[n].lastWeight
        /\ \A n \in S : t[n].visits \in Nat /\ t[n].lastWeight \in Nat
    BY <1>0, SomeNodes
  <2>2. /\ \A n \in S : f[n] = u[n].visits /\ h[n] = u[n].lastWeight
        /\ \A n \in S : u[n].visits \in Nat /\ u[n].lastWeight \in Nat
    BY <1>0, SomeNodes
  <2> HIDE DEF e, f, g, h
  <2> QED
    BY <2>1, <2>2
<1>2. /\ VisitsOf(t, S) = SumFunctionOnSet(e, S) /\ VisitsOf(u, S) = SumFunctionOnSet(f, S)
      /\ WeightsOf(t, S) = SumFunctionOnSet(g, S) /\ WeightsOf(u, S) = SumFunctionOnSet(h, S)
  BY DEF VisitsOf, WeightsOf
<1> HIDE DEF e, f, g, h
<1>3. ASSUME \A n \in S \ {c} : t[n].visits = u[n].visits
      PROVE  VisitsOf(u, S) = VisitsOf(t, S) + u[c].visits - t[c].visits
  <2>1. \A n \in S \ {c} : f[n] = e[n]
    BY <1>1, <1>3
  <2>2. IsFiniteSet(S) /\ \A n \in S : f[n] \in Int /\ e[n] \in Int
    BY <1>1
  <2>3. SumFunctionOnSet(f, S) = SumFunctionOnSet(e, S) + f[c] - e[c]
    BY <2>1, <2>2, SumChange
  <2> QED
    BY <1>1, <1>2, <2>3
<1>4. ASSUME \A n \in S \ {c} : t[n].lastWeight = u[n].lastWeight
      PROVE  WeightsOf(u, S) = WeightsOf(t, S) + u[c].lastWeight - t[c].lastWeight
  <2>1. \A n \in S \ {c} : h[n] = g[n]
    BY <1>1, <1>4
  <2>2. IsFiniteSet(S) /\ \A n \in S : h[n] \in Int /\ g[n] \in Int
    BY <1>1
  <2>3. SumFunctionOnSet(h, S) = SumFunctionOnSet(g, S) + h[c] - g[c]
    BY <2>1, <2>2, SumChange
  <2> QED
    BY <1>1, <1>2, <2>3
<1> QED
  BY <1>3, <1>4

\* A node without visits, or without weight, adds nothing.
LEMMA VisitsInsert ==
  ASSUME NEW t, IsTree(t), NEW S, S \subseteq DOMAIN t, NEW c \in DOMAIN t, c \notin S
  PROVE  /\ VisitsOf(t, S \cup {c}) = VisitsOf(t, S) + t[c].visits
         /\ WeightsOf(t, S \cup {c}) = WeightsOf(t, S) + t[c].lastWeight
<1> DEFINE e == [x \in DOMAIN t |-> t[x].visits]
           g == [x \in DOMAIN t |-> t[x].lastWeight]
           T == S \cup {c}
<1>1. T \in SUBSET DOMAIN t /\ S \in SUBSET DOMAIN t
  OBVIOUS
<1>2. /\ IsFiniteSet(S)
      /\ \A n \in T : e[n] = t[n].visits /\ g[n] = t[n].lastWeight
      /\ \A n \in T : e[n] \in Int /\ g[n] \in Int
  <2>1. /\ IsFiniteSet(S)
        /\ \A n \in T : e[n] = t[n].visits /\ g[n] = t[n].lastWeight
        /\ \A n \in T : t[n].visits \in Nat /\ t[n].lastWeight \in Nat
    BY <1>1, SomeNodes
  <2> HIDE DEF e, g, T
  <2> QED
    BY <2>1
<1>3. /\ VisitsOf(t, T) = SumFunctionOnSet(e, T) /\ VisitsOf(t, S) = SumFunctionOnSet(e, S)
      /\ WeightsOf(t, T) = SumFunctionOnSet(g, T) /\ WeightsOf(t, S) = SumFunctionOnSet(g, S)
  BY DEF VisitsOf, WeightsOf
<1>4. VisitsOf(t, S) \in Nat /\ WeightsOf(t, S) \in Nat
  BY <1>1, VisitsNat
<1> HIDE DEF e, g
<1>5. /\ SumFunctionOnSet(e, T) = e[c] + SumFunctionOnSet(e, S)
      /\ SumFunctionOnSet(g, T) = g[c] + SumFunctionOnSet(g, S)
  BY <1>2, SumInsert
<1> QED
  BY <1>2, <1>3, <1>4, <1>5

\* What is cut off and what is kept are the whole.
LEMMA WeightsSplit ==
  ASSUME NEW t, IsTree(t), NEW S \in SUBSET DOMAIN t, NEW T \in SUBSET S
  PROVE  WeightsOf(t, S) = WeightsOf(t, T) + WeightsOf(t, S \ T)
<1> DEFINE g == [x \in DOMAIN t |-> t[x].lastWeight]
<1>1. S \ T \in SUBSET DOMAIN t /\ T \in SUBSET DOMAIN t
  OBVIOUS
<1>2. /\ IsFiniteSet(T) /\ IsFiniteSet(S \ T)
      /\ \A n \in T \cup (S \ T) : g[n] \in Int
  <2>1. /\ IsFiniteSet(T) /\ IsFiniteSet(S \ T)
        /\ \A n \in S : g[n] = t[n].lastWeight /\ t[n].lastWeight \in Nat
    BY <1>1, SomeNodes
  <2> HIDE DEF g
  <2> QED
    BY <2>1
<1>3. SumFunctionOnSet(g, T \cup (S \ T)) = SumFunctionOnSet(g, T) + SumFunctionOnSet(g, S \ T)
  <2> HIDE DEF g
  <2>1. T \cap (S \ T) = {}
    OBVIOUS
  <2> QED
    BY <1>2, <2>1, SumUnion
<1>4. T \cup (S \ T) = S
  OBVIOUS
<1> QED
  BY <1>3, <1>4 DEF WeightsOf

-----------------------------------------------------------------------------
(* Steps that leave the nodes alone                                        *)

\* The sums over the nodes stay when what is summed stays.
LEMMA NodesKept ==
  ASSUME TypeOK, TypeOK', NodesAddUp, game' = game, DOMAIN tree' = DOMAIN tree,
         \A n \in DOMAIN tree :
           /\ tree'[n].visits = tree[n].visits /\ tree'[n].virtualLosses = tree[n].virtualLosses
           /\ tree'[n].leaf = tree[n].leaf /\ tree'[n].nn = tree[n].nn
           /\ Returning(n)' = Returning(n) /\ (n # game => Inside(n)' = Inside(n))
  PROVE  NodesAddUp'
<1> SUFFICES ASSUME NEW n \in DOMAIN tree PROVE NodeAddsUp(n)'
  BY DEF NodesAddUp
<1>1. NodeAddsUp(n)
  BY DEF NodesAddUp
<1>2. Children(tree', n) = Children(tree, n)
  BY DEF Children
<1>3. VisitsOf(tree', Children(tree, n)) = VisitsOf(tree, Children(tree, n))
  BY VisitsSame DEF TypeOK, Children
<1>4. n # game => Inside(n)' = Inside(n)
  OBVIOUS
<1> QED
  BY <1>1, <1>2, <1>3, <1>4 DEF NodeAddsUp

LEMMA WeightsKept ==
  ASSUME TypeOK, TypeOK', Weighed, table' = table, searching' => searching,
         DOMAIN tree' = DOMAIN tree,
         \A n \in DOMAIN tree : /\ tree'[n].hasEntry = tree[n].hasEntry
                                /\ tree'[n].lastWeight = tree[n].lastWeight
  PROVE  Weighed'
<1>1. \A k : WeighsRight(k) => WeighsRight(k)'
  <2> TAKE k
  <2>1. Sharing(tree', DOMAIN tree', k) = Sharing(tree, DOMAIN tree, k)
    BY DEF Sharing
  <2>2. WeightsOf(tree', Sharing(tree, DOMAIN tree, k))
          = WeightsOf(tree, Sharing(tree, DOMAIN tree, k))
    BY VisitsSame DEF TypeOK, Sharing
  <2> QED
    BY <2>1, <2>2 DEF WeighsRight
<1> QED
  BY <1>1 DEF Weighed

LEMMA TreeAlone ==
  ASSUME IInv, TypeOK', tree' = tree, table' = table, game' = game, searching' => searching,
         \A n \in DOMAIN tree : /\ Returning(n)' = Returning(n)
                                /\ n # game => Inside(n)' = Inside(n)
  PROVE  Shape' /\ NodesAddUp' /\ Weighed'
<1>1. Shape'
  BY DEF IInv, Shape, Rooted
<1>2. NodesAddUp'
  BY NodesKept DEF IInv
<1>3. Weighed'
  BY WeightsKept DEF IInv
<1> QED
  BY <1>1, <1>2, <1>3

\* The two limits of a search are one on its playouts.
LEMMA OneLimit ==
  ASSUME TypeOK, searching
  PROVE  /\ PlayoutsAllowed \in Nat
         /\ \A t \in Threads : ~LimitReached(t) => th[t].numPlayouts < PlayoutsAllowed
<1>1. Len(MaxVisitsOfSearches) \in Nat
  BY SearchAssumption
<1>2. searches \in 1 .. Len(MaxVisitsOfSearches) /\ oldVisits \in Nat
  BY <1>1 DEF TypeOK
<1>3. maxVisits \in Nat /\ maxPlayouts \in Nat
  BY <1>2, SearchAssumption DEF maxVisits, maxPlayouts
<1>4. VisitsLeft \in Nat /\ PlayoutsAllowed \in Nat
  BY <1>2, <1>3 DEF VisitsLeft, PlayoutsAllowed
<1>5. ASSUME NEW t \in Threads, ~LimitReached(t)
      PROVE  th[t].numPlayouts < PlayoutsAllowed
  <2>1. th[t].numPlayouts \in Nat
    BY DEF TypeOK, ThreadData
  <2>2. ~(th[t].numPlayouts >= maxPlayouts) /\ ~(th[t].numPlayouts + oldVisits >= maxVisits)
    BY <1>5 DEF LimitReached
  <2> QED
    BY <1>2, <1>3, <2>1, <2>2 DEF VisitsLeft, PlayoutsAllowed
<1> QED
  BY <1>4, <1>5

\* What is allowed does not change as long as these do not.
LEMMA AllowedKept ==
  ASSUME UNCHANGED <<searches, oldVisits>>
  PROVE  PlayoutsAllowed' = PlayoutsAllowed /\ Bound' = Bound
  BY DEF PlayoutsAllowed, VisitsLeft, maxVisits, maxPlayouts, Bound

\* The limit stays kept by a thread that is aware of no more than before.
LEMMA LimitStays ==
  ASSUME IInv, UNCHANGED <<searches, searching, playouts, oldVisits>>, NEW t \in Threads,
         \A u \in Threads \ {t} : th'[u] = th[u],
         th'[t].numPlayouts = th[t].numPlayouts, th[t].pc # "start", th'[t].pc # "start",
         th'[t].pc \in InTree \cup {"count"} => t \in Unaware
  PROVE  LimitKept'
<1>1. Unaware' = Unaware
  BY AllowedKept DEF Unaware
<1>2. \A u \in Threads : th[u].pc \in InTree \cup {"count"} => (searching => u \in Unaware)
  BY DEF IInv, LimitKept
<1>3. \A u \in Threads : th'[u].pc \in InTree \cup {"count"} => (searching => u \in Unaware)
  BY <1>2
<1>4. searching => (playouts >= PlayoutsAllowed => playouts + Cardinality(Unaware) <= Bound)
  BY DEF IInv, LimitKept
<1>5. PlayoutsAllowed' = PlayoutsAllowed /\ Bound' = Bound
  BY AllowedKept
<1> QED
  BY <1>1, <1>3, <1>4, <1>5 DEF LimitKept

LEMMA RootStays ==
  ASSUME IInv, UNCHANGED <<game, searching, oldVisits, playouts>>,
         tree'[game].visits = tree[game].visits, NEW t \in Threads,
         \A u \in Threads \ {t} : th'[u] = th[u],
         th[t].pc # "count", th'[t].pc # "count"
  PROVE  RootAddsUp'
<1>1. Counting' = Counting
  BY DEF Counting
<1> QED
  BY <1>1 DEF IInv, RootAddsUp

\* The loop of a thread, outside of the tree.
LEMMA LoopKept ==
  ASSUME IInv, NEW t \in Threads, StartThread(t) \/ Stop(t) \/ StartPlayout(t)
  PROVE  IInv'
<1> USE DEF IInv, At, Goto
<1>0. /\ th \in [Threads -> ThreadData] /\ playouts \in Nat /\ game \in Seq(Moves)
      /\ searching /\ th[t].pc \in {"start", "check"}
      /\ UNCHANGED <<game, tree, table, searches, searching, playouts, oldVisits>>
  BY DEF TypeOK, StartThread, Stop, StartPlayout
<1>a. \/ th[t].pc = "start" /\ th' = [th EXCEPT ![t].pc = "check", ![t].numPlayouts = playouts]
      \/ th[t].pc = "check" /\ th' = [th EXCEPT ![t].pc = "done"]
      \/ /\ th[t].pc = "check" /\ ~LimitReached(t)
         /\ th' = [th EXCEPT ![t].pc = "descend", ![t].at = game]
  BY DEF StartThread, Stop, StartPlayout
<1>1. /\ th' \in [Threads -> ThreadData] /\ \A u \in Threads \ {t} : th'[u] = th[u]
      /\ \/ th'[t].pc \in {"check", "done"} /\ th'[t].at = th[t].at
         \/ th'[t].pc = "descend" /\ th'[t].at = game
  <2>1. CASE th' = [th EXCEPT ![t].pc = "check", ![t].numPlayouts = playouts]
    BY <1>0, <2>1 DEF ThreadData
  <2>2. CASE th' = [th EXCEPT ![t].pc = "done"]
    BY <1>0, <2>2 DEF ThreadData
  <2>3. CASE th' = [th EXCEPT ![t].pc = "descend", ![t].at = game]
    BY <1>0, <2>3 DEF ThreadData, InTree
  <2> QED
    BY <1>a, <2>1, <2>2, <2>3
<1>2. TypeOK'
  BY <1>0, <1>1 DEF TypeOK, IsTree
<1>3. Positions'
  BY <1>0, <1>1 DEF Positions, Shape, InTree, Up
<1>4. \A n \in DOMAIN tree : Returning(n)' = Returning(n) /\ (n # game => Inside(n)' = Inside(n))
  <2> TAKE n \in DOMAIN tree
  <2>1. Returning(n)' = Returning(n)
    BY <1>0, <1>1 DEF Returning
  <2>2. IsPrefix(n, game) => n = game
    <3>1. n \in Seq(Moves) /\ game \in Seq(Moves) /\ IsPrefix(game, n)
      BY DEF TypeOK, IsTree, Shape, Rooted
    <3>2. IsPrefix(n, game) => Len(n) = Len(game)
      BY <3>1, PrefixMeans
    <3> QED
      BY <3>1, <3>2, SameWhenPrefixed
  <2>3. n # game => Inside(n)' = Inside(n)
    BY <1>0, <1>1, <2>2 DEF Inside
  <2> QED
    BY <2>1, <2>3
<1>5. Shape' /\ NodesAddUp' /\ Weighed'
  BY <1>0, <1>2, <1>4, TreeAlone
<1>6. RootAddsUp'
  BY <1>0, <1>1, RootStays
<1>7. LimitKept'
  <2>1. CASE th[t].pc = "check"
    <3>1. th'[t].numPlayouts = th[t].numPlayouts /\ th'[t].pc # "start"
      BY <1>0, <1>a, <2>1 DEF ThreadData
    <3>2. th'[t].pc \in InTree \cup {"count"} => t \in Unaware
      <4>1. th'[t].pc \in InTree \cup {"count"} => ~LimitReached(t)
        BY <1>0, <1>a, <2>1 DEF ThreadData, InTree, Up
      <4> QED
        BY <1>0, <2>1, <4>1, OneLimit DEF Unaware
    <3> QED
      BY <1>0, <1>1, <2>1, <3>1, <3>2, LimitStays
  <2>2. CASE th[t].pc = "start"
    <3>1. th' = [th EXCEPT ![t].pc = "check", ![t].numPlayouts = playouts]
      BY <2>2 DEF StartThread, Stop, StartPlayout
    <3>2. PlayoutsAllowed' = PlayoutsAllowed /\ Bound' = Bound /\ playouts' = playouts
      BY <1>0, AllowedKept
    <3>3. \A u \in Threads : th'[u].pc \in InTree \cup {"count"} => (u \in Unaware)'
      BY <1>0, <3>1, <3>2 DEF LimitKept, Unaware, InTree, Up
    <3>4. playouts >= PlayoutsAllowed => Unaware' = Unaware
      <4>1. playouts \in Int /\ PlayoutsAllowed \in Int
        BY <1>0, OneLimit
      <4>2. playouts >= PlayoutsAllowed => ~(playouts < PlayoutsAllowed)
        BY <4>1
      <4>3. t \notin Unaware
        BY <2>2 DEF Unaware
      <4>4. playouts >= PlayoutsAllowed => t \notin Unaware'
        BY <1>0, <3>1, <3>2, <4>2 DEF Unaware
      <4>5. \A u \in Threads \ {t} : u \in Unaware' <=> u \in Unaware
        BY <1>1, <3>2 DEF Unaware
      <4>6. Unaware \subseteq Threads /\ Unaware' \subseteq Threads
        BY DEF Unaware
      <4> QED
        BY <4>3, <4>4, <4>5, <4>6
    <3> QED
      BY <1>0, <3>2, <3>3, <3>4 DEF LimitKept
  <2> QED
    BY <1>0, <2>1, <2>2
<1> QED
  BY <1>2, <1>3, <1>5, <1>6, <1>7

LEMMA CountKept ==
  ASSUME IInv, NEW t \in Threads, CountPlayout(t)
  PROVE  IInv'
<1> USE DEF IInv, At, Goto
<1>0. /\ th \in [Threads -> ThreadData] /\ playouts \in Nat /\ oldVisits \in Nat
      /\ searching /\ th[t].pc = "count" /\ playouts' = playouts + 1
      /\ th' = [th EXCEPT ![t].pc = "check", ![t].numPlayouts = playouts + 1]
      /\ UNCHANGED <<game, tree, table, searches, searching, oldVisits>>
  BY DEF TypeOK, CountPlayout
<1>1. /\ th' \in [Threads -> ThreadData] /\ \A u \in Threads \ {t} : th'[u] = th[u]
      /\ th'[t].pc = "check" /\ th'[t].at = th[t].at /\ th'[t].numPlayouts = playouts + 1
  <2>1. playouts + 1 \in Nat
    BY <1>0
  <2> QED
    BY <1>0, <2>1 DEF ThreadData
<1>2. TypeOK'
  BY <1>0, <1>1 DEF TypeOK, IsTree
<1>3. Positions'
  BY <1>0, <1>1 DEF Positions, InTree, Up
<1>4. \A n \in DOMAIN tree : Returning(n)' = Returning(n) /\ Inside(n)' = Inside(n)
  BY <1>0, <1>1 DEF Returning, Inside
<1>5. Shape' /\ NodesAddUp' /\ Weighed'
  BY <1>0, <1>2, <1>4, TreeAlone
<1>6. RootAddsUp'
  <2>1. Counting' = Counting \ {t} /\ t \in Counting /\ IsFiniteSet(Counting)
    BY <1>0, <1>1, FS_Subset, SearchAssumption DEF Counting
  <2>2. Cardinality(Counting') = Cardinality(Counting) - 1 /\ Cardinality(Counting) \in Nat
    BY <2>1, FS_RemoveElement, FS_CardinalityType
  <2>3. tree[game].visits = oldVisits + playouts + Cardinality(Counting)
    BY <1>0 DEF RootAddsUp
  <2> QED
    BY <1>0, <2>2, <2>3 DEF RootAddsUp
<1>7. LimitKept'
  <2>1. PlayoutsAllowed' = PlayoutsAllowed /\ Bound' = Bound /\ PlayoutsAllowed \in Nat
    BY <1>0, AllowedKept, OneLimit
  <2>2. t \in Unaware /\ IsFiniteSet(Threads) /\ Unaware \subseteq Threads
    BY <1>0, SearchAssumption DEF LimitKept, Unaware
  <2>3. \A u \in Threads \ {t} : u \in Unaware' <=> u \in Unaware
    BY <1>1, <2>1 DEF Unaware
  <2>4. \A u \in Threads : th'[u].pc \in InTree \cup {"count"} => u \in Unaware'
    <3>1. \A u \in Threads : th[u].pc \in InTree \cup {"count"} => u \in Unaware
      BY <1>0 DEF LimitKept
    <3> QED
      BY <1>1, <2>3, <3>1 DEF InTree, Up
  <2>5. ASSUME playouts + 1 >= PlayoutsAllowed
        PROVE  playouts + 1 + Cardinality(Unaware') <= Bound
    <3>1. t \notin Unaware' /\ Unaware' \subseteq Threads
      <4>1. ~(playouts + 1 < PlayoutsAllowed)
        BY <1>0, <2>1, <2>5
      <4> QED
        BY <1>1, <2>1, <4>1 DEF Unaware
    <3>2. Unaware' = Unaware \ {t}
      BY <2>2, <2>3, <3>1
    <3>3. IsFiniteSet(Unaware) /\ Cardinality(Unaware) \in Nat
      BY <2>2, FS_Subset, FS_CardinalityType
    <3>4. Cardinality(Unaware') = Cardinality(Unaware) - 1
      BY <2>2, <3>2, <3>3, FS_RemoveElement
    <3>5. Cardinality(Unaware) <= Cardinality(Threads) /\ Cardinality(Threads) \in Nat
      BY <2>2, FS_Subset, FS_CardinalityType
    <3>6. CASE playouts >= PlayoutsAllowed
      <4>1. playouts + Cardinality(Unaware) <= Bound
        BY <1>0, <3>6 DEF LimitKept
      <4>2. Bound \in Int
        BY <1>0, <2>1, <3>5 DEF Bound
      <4> QED
        BY <1>0, <3>3, <3>4, <4>1, <4>2
    <3>7. CASE playouts < PlayoutsAllowed
      <4>1. playouts + 1 = PlayoutsAllowed
        BY <1>0, <2>1, <2>5, <3>7
      <4>2. Bound = PlayoutsAllowed + Cardinality(Threads) - 1
        BY DEF Bound
      <4> QED
        BY <2>1, <3>3, <3>4, <3>5, <4>1, <4>2
    <3> QED
      BY <1>0, <2>1, <3>6, <3>7
  <2> QED
    BY <1>0, <2>1, <2>4, <2>5 DEF LimitKept
<1> QED
  BY <1>2, <1>3, <1>5, <1>6, <1>7

\* A thread that locks a node, or reads what is below it.
LEMMA LookKept ==
  ASSUME IInv, NEW t \in Threads, HitLeaf(t) \/ GetStuck(t) \/ ReadChildren(t)
  PROVE  IInv'
<1> USE DEF IInv, At, Goto
<1>0. /\ th \in [Threads -> ThreadData] /\ searching /\ th[t].pc \in {"descend", "return"}
      /\ UNCHANGED <<game, tree, table, searches, searching, playouts, oldVisits>>
  BY DEF TypeOK, HitLeaf, GetStuck, ReadChildren, AtNode
<1>1. /\ th' \in [Threads -> ThreadData] /\ \A u \in Threads \ {t} : th'[u] = th[u]
      /\ th'[t].at = th[t].at /\ th'[t].numPlayouts = th[t].numPlayouts
      /\ \/ th[t].pc = "descend" /\ th'[t].pc \in {"evaluate", "stuck"}
         \/ th[t].pc = "return" /\ th'[t].pc = "bias"
  <2>1. CASE HitLeaf(t) \/ GetStuck(t)
    <3>1. \E pc \in {"evaluate", "stuck"} : th' = [th EXCEPT ![t].pc = pc] /\ th[t].pc = "descend"
      BY <2>1 DEF HitLeaf, GetStuck, AtNode
    <3> QED
      BY <1>0, <3>1 DEF ThreadData, InTree
  <2>2. CASE ReadChildren(t)
    <3> DEFINE v == VisitsOf(tree, Children(tree, th[t].at))
    <3>1. v \in Nat
      BY VisitsNat DEF Children, TypeOK
    <3>2. th' = [th EXCEPT ![t].pc = "bias", ![t].childVisits = v] /\ th[t].pc = "return"
      BY <2>2 DEF ReadChildren
    <3> HIDE DEF v
    <3> QED
      BY <1>0, <3>1, <3>2 DEF ThreadData, InTree, Up
  <2> QED
    BY <2>1, <2>2
<1>2. TypeOK'
  BY <1>0, <1>1 DEF TypeOK, IsTree
<1>3. Positions'
  BY <1>0, <1>1 DEF Positions, InTree, Up
<1>4. \A n \in DOMAIN tree : Returning(n)' = Returning(n) /\ Inside(n)' = Inside(n)
  BY <1>0, <1>1 DEF Returning, Inside
<1>5. Shape' /\ NodesAddUp' /\ Weighed'
  BY <1>0, <1>2, <1>4, TreeAlone
<1>6. RootAddsUp'
  BY <1>0, <1>1, RootStays
<1>7. LimitKept'
  <2>1. t \in Unaware
    BY <1>0 DEF LimitKept, InTree, Up
  <2> QED
    BY <1>0, <1>1, <2>1, LimitStays
<1> QED
  BY <1>2, <1>3, <1>5, <1>6, <1>7

\* Nothing but the flag changes, or nothing at all.
LEMMA StutterKept ==
  ASSUME IInv, UNCHANGED <<game, tree, table, searches, searching, playouts, oldVisits, th>>
  PROVE  IInv'
<1> USE DEF IInv
<1>1. TypeOK' /\ Positions'
  BY DEF TypeOK, IsTree, Positions
<1>2. \A n \in DOMAIN tree : Returning(n)' = Returning(n) /\ Inside(n)' = Inside(n)
  BY DEF Returning, Inside
<1>3. Shape' /\ NodesAddUp' /\ Weighed'
  BY <1>1, <1>2, TreeAlone
<1>4. RootAddsUp'
  BY DEF RootAddsUp, Counting
<1>5. LimitKept'
  <2>1. PlayoutsAllowed' = PlayoutsAllowed /\ Bound' = Bound
    BY AllowedKept
  <2>2. Unaware' = Unaware
    BY <2>1 DEF Unaware
  <2> QED
    BY <2>1, <2>2 DEF LimitKept
<1> QED
  BY <1>1, <1>3, <1>4, <1>5

-----------------------------------------------------------------------------
(* Between searches                                                        *)

LEMMA EndKept ==
  ASSUME IInv, endSearch
  PROVE  IInv'
<1> USE DEF IInv
<1>0. /\ th \in [Threads -> ThreadData] /\ ~searching' /\ \A u \in Threads : th[u].pc = "done"
      /\ game \in Seq(Moves)
      /\ th' = [u \in Threads |-> [AtStart EXCEPT !.pc = "done"]]
      /\ UNCHANGED <<game, tree, table, searches, playouts, oldVisits>>
  BY DEF TypeOK, endSearch, Resting
<1>1. th' \in [Threads -> ThreadData] /\ \A u \in Threads : th'[u].pc = "done"
  BY <1>0 DEF AtStart, ThreadData
<1>2. TypeOK'
  <2>1. searching' = FALSE
    BY DEF endSearch
  <2> QED
    BY <1>0, <1>1, <2>1 DEF TypeOK, IsTree
<1>3. Positions'
  BY <1>0, <1>1 DEF Positions, InTree, Up
<1>4. \A n \in DOMAIN tree : Returning(n)' = Returning(n) /\ Inside(n)' = Inside(n)
  BY <1>0, <1>1 DEF Returning, Inside
<1>5. Shape' /\ NodesAddUp' /\ Weighed'
  BY <1>0, <1>2, <1>4, TreeAlone
<1> QED
  BY <1>0, <1>2, <1>3, <1>5 DEF RootAddsUp, LimitKept

\* A search that has no tree.
LEMMA Treeless ==
  ASSUME TypeOK', ~searching', \A u \in Threads : th'[u].pc = "done", DOMAIN tree' = {}
  PROVE  IInv'
BY DEF IInv, Shape, Rooted, Positions, InTree, Up, NodesAddUp, RootAddsUp, LimitKept, Weighed

LEMMA NoTree == IsTree(<<>>)
BY FS_EmptySet DEF IsTree

LEMMA ClearKept ==
  ASSUME IInv, clearSearch
  PROVE  IInv'
<1>1. TypeOK'
  BY NoTree DEF IInv, TypeOK, clearSearch
<1> QED
  <2>1. DOMAIN tree' = {} /\ ~searching' /\ \A u \in Threads : th'[u].pc = "done"
    BY DEF IInv, Positions, clearSearch
  <2> QED
    BY <1>1, <2>1, Treeless

LEMMA InitIInv == Init => IInv
<1> SUFFICES ASSUME Init PROVE IInv
  OBVIOUS
<1>1. DOMAIN tree = {} /\ DOMAIN table = {}
  BY DEF Init
<1>2. th \in [Threads -> ThreadData] /\ \A u \in Threads : th[u].pc = "done"
  BY DEF Init, ThreadData
<1>3. TypeOK
  <2>1. table \in [DOMAIN table -> Int] /\ IsTree(tree)
    BY NoTree DEF Init
  <2>2. 0 \in 0 .. Len(MaxVisitsOfSearches) /\ <<>> \in Seq(Moves)
    BY SearchAssumption
  <2> QED
    BY <1>2, <2>1, <2>2 DEF Init, TypeOK
<1> QED
  BY <1>1, <1>2, <1>3 DEF Init, IInv, Shape, Rooted, Positions, InTree, Up, NodesAddUp, RootAddsUp,
                          LimitKept, Weighed

\* When nobody is in the tree, every node accounts for its visits by itself.
AddsUpAlone(t, n) ==
  /\ t[n].visits = t[n].leaf + VisitsOf(t, Children(t, n))
  /\ t[n].virtualLosses = 0
  /\ t[n].visits = 0 => Children(t, n) = {}
  /\ t[n].nn => t[n].visits > 0
  /\ ~t[n].nn => Children(t, n) = {}

TreeAddsUp(t, root) ==
  \A n \in DOMAIN t : AddsUpAlone(t, n) /\ (t[n].visits = 0 => n = root)

LEMMA AloneAtRest ==
  ASSUME IInv, ~searching
  PROVE  TreeAddsUp(tree, game)
<1> SUFFICES ASSUME NEW n \in DOMAIN tree
             PROVE  AddsUpAlone(tree, n) /\ (tree[n].visits = 0 => n = game)
  BY DEF TreeAddsUp
<1>1. Returning(n) = {} /\ Inside(n) = {}
  BY DEF IInv, Positions, Returning, Inside
<1>2. Cardinality(Returning(n)) = 0 /\ Cardinality(Inside(n)) = 0
  BY <1>1, FS_EmptySet
<1>3. VirtualLosses * 0 = 0
  BY SearchAssumption
<1>4. tree[n].visits \in Nat
  BY DEF IInv, TypeOK, IsTree, NodeData
<1>5. NodeAddsUp(n)
  BY DEF IInv, NodesAddUp
<1> QED
  BY <1>1, <1>2, <1>3, <1>4, <1>5 DEF NodeAddsUp, AddsUpAlone

LEMMA AloneAgain ==
  ASSUME TypeOK', TreeAddsUp(tree', game'), \A u \in Threads : th'[u].pc \notin InTree
  PROVE  NodesAddUp'
<1> SUFFICES ASSUME NEW n \in DOMAIN tree' PROVE NodeAddsUp(n)'
  BY DEF NodesAddUp
<1>1. Returning(n)' = {} /\ Inside(n)' = {}
  <2>1. \A u \in Threads : th'[u].pc \in InTree \cup {"start", "check", "count", "done"}
    BY DEF TypeOK, ThreadData
  <2>2. Up \subseteq InTree
    BY DEF InTree
  <2> QED
    BY <2>1, <2>2 DEF Returning, Inside, Up
<1>2. Cardinality({}) = 0
  BY FS_EmptySet
<1>3. VirtualLosses * 0 = 0
  BY SearchAssumption
<1>4. tree'[n].visits \in Nat
  BY DEF TypeOK, IsTree, NodeData
<1>5. AddsUpAlone(tree', n) /\ (tree'[n].visits = 0 => n = game')
  BY DEF TreeAddsUp
<1> QED
  BY <1>1, <1>2, <1>3, <1>4, <1>5 DEF NodeAddsUp, AddsUpAlone

LEMMA KeptTree ==
  ASSUME NEW t, IsTree(t), NEW K \in SUBSET DOMAIN t
  PROVE  /\ IsTree(Keep(t, K)) /\ DOMAIN Keep(t, K) = K /\ \A n \in K : Keep(t, K)[n] = t[n]
<1>1. IsFiniteSet(K)
  BY FS_Subset DEF IsTree
<1> QED
  BY <1>1 DEF IsTree, Keep

\* Nodes whose children are all kept go on adding up.
LEMMA AloneKept ==
  ASSUME NEW t, IsTree(t), NEW u, IsTree(u), DOMAIN u \subseteq DOMAIN t,
         NEW n \in DOMAIN u, AddsUpAlone(t, n), u[n] = t[n], Children(t, n) \subseteq DOMAIN u,
         \A c \in Children(t, n) : u[c] = t[c]
  PROVE  AddsUpAlone(u, n)
<1>1. Children(u, n) = Children(t, n)
  BY DEF Children
<1>2. VisitsOf(u, Children(t, n)) = VisitsOf(t, Children(t, n))
  BY VisitsSame DEF Children
<1> QED
  BY <1>1, <1>2 DEF AddsUpAlone

LEMMA RemovedType ==
  ASSUME NEW t, IsTree(t), NEW K \in SUBSET DOMAIN t, NEW D, NEW tab \in [D -> Int]
  PROVE  removeSubtreeValueBias(tab, t, DOMAIN t \ K) \in [D -> Int]
<1>1. \A k : WeightsOf(t, Sharing(t, DOMAIN t \ K, k)) \in Nat
  <2> TAKE k
  <2>1. Sharing(t, DOMAIN t \ K, k) \in SUBSET DOMAIN t
    BY DEF Sharing
  <2> QED
    BY <2>1, VisitsNat
<1>2. \A k \in D : tab[k] - WeightsOf(t, Sharing(t, DOMAIN t \ K, k)) \in Int
  BY <1>1
<1> QED
  BY <1>2 DEF removeSubtreeValueBias

\* Taking out what is deleted leaves the weights of what is kept.
LEMMA Removed ==
  ASSUME NEW t, IsTree(t), NEW K \in SUBSET DOMAIN t, NEW tab, NEW k \in DOMAIN tab,
         tab[k] = WeightsOf(t, Sharing(t, DOMAIN t, k))
  PROVE  removeSubtreeValueBias(tab, t, DOMAIN t \ K)[k] = WeightsOf(t, Sharing(t, K, k))
<1> DEFINE S == Sharing(t, DOMAIN t, k)
           T == Sharing(t, K, k)
           U == Sharing(t, DOMAIN t \ K, k)
<1>1. S \in SUBSET DOMAIN t /\ T \in SUBSET S /\ U = S \ T
  BY DEF Sharing
<1>2. removeSubtreeValueBias(tab, t, DOMAIN t \ K)[k] = WeightsOf(t, S) - WeightsOf(t, U)
  BY DEF removeSubtreeValueBias
<1> HIDE DEF S, T, U
<1>3. WeightsOf(t, S) = WeightsOf(t, T) + WeightsOf(t, U)
  BY <1>1, WeightsSplit
<1>4. WeightsOf(t, S) \in Nat /\ WeightsOf(t, T) \in Nat /\ WeightsOf(t, U) \in Nat
  BY <1>1, VisitsNat
<1> QED
  BY <1>2, <1>3, <1>4 DEF T

LEMMA MoveKept ==
  ASSUME IInv, NEW m \in Moves, makeMove(m)
  PROVE  IInv'
<1> DEFINE next == Append(game, m)
           kept == IF next \in DOMAIN tree /\ tree[next].nn THEN Below(tree, next) ELSE {}
           rest == removeSubtreeValueBias(table, tree, DOMAIN tree \ kept)
<1>1. /\ ~searching /\ ~searching' /\ searching' = searching
      /\ game' = next /\ UNCHANGED <<searches, playouts, oldVisits, th>>
      /\ tree' = <<>> \/ tree' = Keep(tree, kept)
      /\ table' = IF kept = {} THEN table ELSE rest
  BY DEF makeMove
<1>2. /\ next \in Seq(Moves) /\ game \in Seq(Moves) /\ IsPrefix(game, next)
      /\ IsTree(tree) /\ table \in [DOMAIN table -> Int]
  BY AppendFacts DEF IInv, TypeOK
<1>3. kept \in SUBSET DOMAIN tree
  BY DEF Below
<1>4. \A u \in Threads : th'[u].pc = "done"
  BY <1>1 DEF IInv, Positions
<1> HIDE DEF next
<1>5. TypeOK'
  <2>1. IsTree(tree')
    BY <1>1, <1>2, <1>3, NoTree, KeptTree
  <2>2. table' \in [DOMAIN table' -> Int]
    <3> HIDE DEF kept
    <3>2. rest \in [DOMAIN table -> Int]
      BY <1>2, <1>3, RemovedType
    <3> HIDE DEF rest
    <3> QED
      BY <1>1, <1>2, <3>2
  <2> QED
    BY <1>1, <1>2, <2>1, <2>2 DEF IInv, TypeOK
<1>6. CASE DOMAIN tree' = {}
  BY <1>1, <1>4, <1>5, <1>6, Treeless
<1>7. CASE DOMAIN tree' # {}
  <2>1. tree' = Keep(tree, kept)
    BY <1>1, <1>7
  <2>2. DOMAIN tree' = kept /\ \A n \in kept : tree'[n] = tree[n]
    BY <1>2, <1>3, <2>1, KeptTree
  <2>3. /\ kept # {} /\ kept = Below(tree, next) /\ table' = rest
        /\ next \in DOMAIN tree /\ tree[next].nn
    BY <1>1, <1>7, <2>2
  <2>4. \A n \in kept : n \in DOMAIN tree /\ n \in Seq(Moves) /\ IsPrefix(next, n)
    BY <1>2, <2>3 DEF Below, IsTree
  <2> HIDE DEF kept
  <2>a. ASSUME NEW k \in DOMAIN table,
               table[k] = WeightsOf(tree, Sharing(tree, DOMAIN tree, k))
        PROVE  rest[k] = WeightsOf(tree, Sharing(tree, kept, k))
    BY <1>2, <1>3, <2>a, Removed
  <2>b. rest \in [DOMAIN table -> Int]
    BY <1>2, <1>3, RemovedType
  <2> HIDE DEF rest
  <2>5. Shape'
    <3>1. ASSUME NEW n \in kept, NEW p \in Seq(Moves), IsPrefix(next, p), IsPrefix(p, n)
          PROVE  p \in kept
      <4>1. IsPrefix(game, p)
        BY <1>2, <3>1, PrefixTransitive
      <4>2. p \in DOMAIN tree
        BY <2>4, <3>1, <4>1 DEF IInv, Shape, Rooted
      <4> QED
        BY <2>3, <3>1, <4>2 DEF Below
    <3> QED
      BY <1>1, <2>2, <2>4, <3>1 DEF Shape, Rooted
  <2>6. TreeAddsUp(tree', game')
    <3> SUFFICES ASSUME NEW n \in kept
                 PROVE  AddsUpAlone(tree', n) /\ (tree'[n].visits = 0 => n = game')
      BY <2>2 DEF TreeAddsUp
    <3>1. n \in Seq(Moves) /\ n \in DOMAIN tree /\ IsPrefix(next, n) /\ tree'[n] = tree[n]
      BY <2>2, <2>4
    <3>2. AddsUpAlone(tree, n) /\ (tree[n].visits = 0 => n = game)
      BY <1>1, <3>1, AloneAtRest DEF TreeAddsUp
    <3>3. Children(tree, n) \subseteq kept
      <4> SUFFICES ASSUME NEW c \in Children(tree, n) PROVE c \in kept
        OBVIOUS
      <4>1. c \in Seq(Moves) /\ c \in DOMAIN tree /\ Len(c) = Len(n) + 1 /\ Front(c) = n
        BY <1>2 DEF Children, IsTree
      <4>2. PICK x \in Moves : c = Append(n, x)
        BY <3>1, <4>1, ChildIs
      <4>3. IsPrefix(next, c)
        BY <1>2, <3>1, <4>2, PrefixOfAppend
      <4> QED
        BY <2>3, <4>1, <4>3 DEF Below
    <3>4. AddsUpAlone(tree', n)
      <4>1. \A c \in Children(tree, n) : tree'[c] = tree[c]
        BY <2>2, <3>3
      <4>2. IsTree(tree') /\ DOMAIN tree' \subseteq DOMAIN tree /\ n \in DOMAIN tree'
        BY <1>3, <1>5, <2>2 DEF TypeOK
      <4> QED
        BY <1>2, <2>2, <3>1, <3>2, <3>3, <4>1, <4>2, AloneKept
    <3>5. tree[n].visits # 0
      <4>1. n # game
        <5>1. Len(next) = Len(game) + 1 /\ Len(next) <= Len(n)
          BY <1>2, <3>1, AppendFacts, PrefixMeans DEF next
        <5> QED
          BY <1>2, <5>1
      <4> QED
        BY <3>2, <4>1
    <3> QED
      BY <3>1, <3>4, <3>5
  <2>7. NodesAddUp' /\ Positions'
    BY <1>1, <1>4, <1>5, <2>6, AloneAgain DEF Positions, InTree, Up
  <2>8. Weighed'
    <3>1. \A k \in DOMAIN table : WeighsRight(k) => WeighsRight(k)' /\ k \in DOMAIN table'
      <4> TAKE k \in DOMAIN table
      <4>1. HAVE WeighsRight(k)
      <4>2. DOMAIN rest = DOMAIN table /\ rest[k] = WeightsOf(tree, Sharing(tree, kept, k))
        BY <2>a, <2>b, <4>1 DEF WeighsRight
      <4>3. Sharing(tree', kept, k) = Sharing(tree, kept, k)
        BY <2>2 DEF Sharing
      <4>4. WeightsOf(tree', Sharing(tree, kept, k)) = WeightsOf(tree, Sharing(tree, kept, k))
        <5>1. Sharing(tree, kept, k) \subseteq kept
          BY DEF Sharing
        <5>2. \A n \in kept : tree'[n].lastWeight = tree[n].lastWeight
          BY <2>2
        <5> QED
          BY <1>2, <1>3, <1>5, <2>2, <5>1, <5>2, VisitsSame DEF TypeOK
      <4> QED
        BY <2>2, <2>3, <4>2, <4>3, <4>4 DEF WeighsRight
    <3>2. \A n \in kept : IF tree[n].hasEntry
                            THEN /\ HasBiasKey(n) /\ BiasKey(n) \in DOMAIN table
                                 /\ WeighsRight(BiasKey(n))
                            ELSE tree[n].lastWeight = 0
      BY <1>3 DEF IInv, Weighed
    <3> QED
      BY <1>1, <2>2, <3>1, <3>2 DEF Weighed
  <2> QED
    BY <1>1, <1>5, <2>5, <2>7, <2>8 DEF IInv, RootAddsUp, LimitKept
<1> QED
  BY <1>6, <1>7

\* What a search begins with: a tree that adds up, and a table that has its weights.
Ready(t) ==
  /\ IsTree(t) /\ game \in DOMAIN t /\ Rooted(t, game) /\ TreeAddsUp(t, game)
  /\ removeSubtreeValueBias(table, tree, DOMAIN tree \ DOMAIN t) \in [DOMAIN table -> Int]
  /\ \A n \in DOMAIN t :
       IF t[n].hasEntry
       THEN /\ HasBiasKey(n) /\ BiasKey(n) \in DOMAIN table
            /\ removeSubtreeValueBias(table, tree, DOMAIN tree \ DOMAIN t)[BiasKey(n)]
                 = WeightsOf(t, Sharing(t, DOMAIN t, BiasKey(n)))
       ELSE t[n].lastWeight = 0

LEMMA NewRootReady ==
  ASSUME IInv, ~searching, game \notin DOMAIN tree
  PROVE  Ready(With(tree, game, NewNode))
<1> DEFINE t == With(tree, game, NewNode)
<1>1. DOMAIN tree = {} /\ game \in Seq(Moves) /\ IsTree(tree) /\ table \in [DOMAIN table -> Int]
  <2>1. game \in Seq(Moves) /\ IsTree(tree) /\ table \in [DOMAIN table -> Int]
    BY DEF IInv, TypeOK
  <2>2. \A n \in DOMAIN tree : n \in Seq(Moves) /\ IsPrefix(game, n) /\ IsPrefix(game, game)
    BY <2>1, PrefixOfItself DEF IInv, Shape, Rooted, IsTree
  <2>3. \A n \in DOMAIN tree : game \in DOMAIN tree
    BY <2>1, <2>2 DEF IInv, Shape, Rooted
  <2> QED
    BY <2>1, <2>3
<1>2. DOMAIN t = {game} /\ t[game] = NewNode
  BY <1>1 DEF With
<1>3. IsTree(t)
  <2>1. NewNode \in NodeData
    BY DEF NewNode, NodeData
  <2>2. t \in [{game} -> NodeData]
    BY <1>1, <2>1 DEF With
  <2> HIDE DEF t
  <2>3. IsFiniteSet({game})
    BY FS_Singleton
  <2> QED
    BY <1>1, <1>2, <2>2, <2>3 DEF IsTree
<1> HIDE DEF t
<1>4. Children(t, game) = {}
  BY <1>1, <1>2 DEF Children
<1>5. VisitsOf(t, {}) = 0
  BY SumEmpty DEF VisitsOf
<1>6. TreeAddsUp(t, game)
  BY <1>2, <1>4, <1>5 DEF TreeAddsUp, AddsUpAlone, NewNode
<1>7. Rooted(t, game)
  <2>1. IsPrefix(game, game)
    BY <1>1, PrefixOfItself
  <2>2. ASSUME NEW p \in Seq(Moves), IsPrefix(game, p), IsPrefix(p, game) PROVE p = game
    <3>1. Len(p) = Len(game)
      BY <1>1, <2>2, PrefixMeans
    <3> QED
      BY <1>1, <2>2, <3>1, SameWhenPrefixed
  <2> QED
    BY <1>2, <2>1, <2>2 DEF Rooted
<1>8. removeSubtreeValueBias(table, tree, DOMAIN tree \ DOMAIN t) \in [DOMAIN table -> Int]
  <2>1. DOMAIN tree \ DOMAIN t = DOMAIN tree \ {} /\ {} \in SUBSET DOMAIN tree
    BY <1>1
  <2> QED
    BY <1>1, <2>1, RemovedType
<1> QED
  BY <1>2, <1>3, <1>6, <1>7, <1>8 DEF Ready, NewNode, t

\* A tree without the subtrees of some of the root's children.
LEMMA CutAtRoot ==
  ASSUME IInv, game \in DOMAIN tree, NEW C \in SUBSET Children(tree, game), NEW K,
         K = DOMAIN tree \ UNION {Below(tree, c) : c \in C}
  PROVE  /\ K \in SUBSET DOMAIN tree /\ game \in K
         /\ \A n \in K : IsPrefix(game, n) /\ n \in Seq(Moves)
         /\ \A n \in K : \A p \in Seq(Moves) : IsPrefix(game, p) /\ IsPrefix(p, n) => p \in K
         /\ \A n \in K : n # game => Children(tree, n) \subseteq K
         /\ \A n \in K : game \notin Children(tree, n)
<1>1. /\ game \in Seq(Moves) /\ \A n \in DOMAIN tree : n \in Seq(Moves) /\ IsPrefix(game, n)
      /\ \A n \in DOMAIN tree : \A p \in Seq(Moves) :
           IsPrefix(game, p) /\ IsPrefix(p, n) => p \in DOMAIN tree
  BY DEF IInv, TypeOK, IsTree, Shape, Rooted
<1>2. \A c \in C : c \in Seq(Moves) /\ Len(c) = Len(game) + 1 /\ Front(c) = game
  BY <1>1 DEF Children
<1>3. \A n \in DOMAIN tree : n \in K <=> \A c \in C : ~IsPrefix(c, n)
  BY DEF Below
<1>4. game \in K
  <2>1. \A c \in C : ~IsPrefix(c, game)
    BY <1>1, <1>2, PrefixMeans
  <2> QED
    BY <1>3, <2>1
<1>5. ASSUME NEW n \in K, NEW p \in Seq(Moves), IsPrefix(game, p), IsPrefix(p, n)
      PROVE  p \in K
  <2>1. p \in DOMAIN tree /\ n \in DOMAIN tree
    BY <1>1, <1>5
  <2>2. \A c \in C : ~IsPrefix(c, p)
    <3> SUFFICES ASSUME NEW c \in C, IsPrefix(c, p) PROVE FALSE
      OBVIOUS
    <3>1. IsPrefix(c, n)
      BY <1>1, <1>2, <1>5, <2>1, PrefixTransitive
    <3> QED
      BY <1>3, <2>1, <3>1
  <2> QED
    BY <1>3, <2>1, <2>2
<1>6. ASSUME NEW n \in K, n # game, NEW c \in Children(tree, n) PROVE c \in K
  <2>1. n \in DOMAIN tree /\ n \in Seq(Moves) /\ c \in DOMAIN tree /\ c \in Seq(Moves)
    BY <1>1 DEF Children
  <2>2. PICK x \in Moves : c = Append(n, x)
    BY <2>1, ChildIs DEF Children
  <2>3. \A d \in C : ~IsPrefix(d, c)
    <3> SUFFICES ASSUME NEW d \in C, IsPrefix(d, c) PROVE FALSE
      OBVIOUS
    <3>1. IsPrefix(d, n) \/ d = c
      BY <1>2, <2>1, <2>2, PrefixOfAppend
    <3>2. d # c
      <4>1. Front(c) = n
        BY DEF Children
      <4> QED
        BY <1>2, <1>6, <4>1
    <3> QED
      BY <1>3, <2>1, <3>1, <3>2
  <2> QED
    BY <1>3, <2>1, <2>3
<1>7. ASSUME NEW n \in K, game \in Children(tree, n) PROVE FALSE
  <2>1. Len(game) = Len(n) + 1 /\ IsPrefix(game, n) /\ n \in Seq(Moves)
    BY <1>1, <1>7 DEF Children
  <2> QED
    BY <1>1, <2>1, PrefixMeans
<1>8. K \in SUBSET DOMAIN tree
  OBVIOUS
<1> HIDE DEF Children
<1>9. \A n \in K : n # game => Children(tree, n) \subseteq K
  BY <1>6
<1> QED
  BY <1>1, <1>4, <1>5, <1>7, <1>8, <1>9

\* Whatever part of the tree is kept has its weights in the table.
LEMMA KeptReady ==
  ASSUME IInv, NEW t, IsTree(t), DOMAIN t \subseteq DOMAIN tree, game \in DOMAIN t,
         Rooted(t, game), TreeAddsUp(t, game),
         \A n \in DOMAIN t : /\ t[n].hasEntry = tree[n].hasEntry
                             /\ t[n].lastWeight = tree[n].lastWeight
  PROVE  Ready(t)
<1>1. IsTree(tree) /\ table \in [DOMAIN table -> Int] /\ DOMAIN t \in SUBSET DOMAIN tree
  BY DEF IInv, TypeOK
<1>2. removeSubtreeValueBias(table, tree, DOMAIN tree \ DOMAIN t) \in [DOMAIN table -> Int]
  BY <1>1, RemovedType
<1>3. ASSUME NEW n \in DOMAIN t, t[n].hasEntry
      PROVE  /\ HasBiasKey(n) /\ BiasKey(n) \in DOMAIN table
             /\ removeSubtreeValueBias(table, tree, DOMAIN tree \ DOMAIN t)[BiasKey(n)]
                  = WeightsOf(t, Sharing(t, DOMAIN t, BiasKey(n)))
  <2> DEFINE k == BiasKey(n)
  <2>1. HasBiasKey(n) /\ k \in DOMAIN table /\ WeighsRight(k)
    BY <1>1, <1>3 DEF IInv, Weighed
  <2> HIDE DEF k
  <2>2. removeSubtreeValueBias(table, tree, DOMAIN tree \ DOMAIN t)[k]
          = WeightsOf(tree, Sharing(tree, DOMAIN t, k))
    BY <1>1, <2>1, Removed DEF WeighsRight
  <2>3. Sharing(tree, DOMAIN t, k) = Sharing(t, DOMAIN t, k)
    BY DEF Sharing
  <2>4. WeightsOf(tree, Sharing(t, DOMAIN t, k)) = WeightsOf(t, Sharing(t, DOMAIN t, k))
    <3>1. Sharing(t, DOMAIN t, k) \subseteq DOMAIN t
      BY DEF Sharing
    <3> QED
      BY <1>1, <3>1, VisitsSame
  <2> QED
    BY <2>1, <2>2, <2>3, <2>4 DEF k
<1>4. \A n \in DOMAIN t : ~t[n].hasEntry => t[n].lastWeight = 0
  BY <1>1 DEF IInv, Weighed
<1> QED
  BY <1>2, <1>3, <1>4 DEF Ready

LEMMA OldRootReady ==
  ASSUME IInv, ~searching, game \in DOMAIN tree, NEW refused
  PROVE  Ready(WithRoot(refused))
<1> DEFINE C == {d \in Children(tree, game) : Last(d) \in refused}
           gone == UNION {Below(tree, c) : c \in C}
           K == DOMAIN tree \ gone
           kept == Keep(tree, K)
           t == [kept EXCEPT ![game].visits = VisitsOf(kept, Children(kept, game)) + 1,
                             ![game].leaf = 1]
<1>1. IsTree(tree) /\ TreeAddsUp(tree, game)
  BY AloneAtRest DEF IInv, TypeOK
<1>2. CASE gone = {}
  <2>1. WithRoot(refused) = tree
    BY <1>2 DEF WithRoot
  <2> QED
    BY <1>1, <2>1, KeptReady DEF IInv, Shape
<1>3. CASE gone # {}
  <2>1. WithRoot(refused) = t
    BY <1>3 DEF WithRoot
  <2>2. /\ K \in SUBSET DOMAIN tree /\ game \in K
        /\ \A n \in K : IsPrefix(game, n) /\ n \in Seq(Moves)
        /\ \A n \in K : \A p \in Seq(Moves) : IsPrefix(game, p) /\ IsPrefix(p, n) => p \in K
        /\ \A n \in K : n # game => Children(tree, n) \subseteq K
        /\ \A n \in K : game \notin Children(tree, n)
    <3>1. C \in SUBSET Children(tree, game)
      OBVIOUS
    <3> HIDE DEF C
    <3> QED
      BY <3>1, CutAtRoot
  <2> HIDE DEF K
  <2>3. IsTree(kept) /\ DOMAIN kept = K /\ \A n \in K : kept[n] = tree[n]
    BY <1>1, <2>2, KeptTree
  <2> DEFINE v == VisitsOf(kept, Children(kept, game))
  <2>4. v \in Nat
    BY <2>3, VisitsNat DEF Children
  <2>5. t = [kept EXCEPT ![game] = [kept[game] EXCEPT !.visits = v + 1, !.leaf = 1]]
    BY <2>2, <2>3
  <2> HIDE DEF kept, v, t
  <2>6. kept[game] \in NodeData
    BY <2>2, <2>3 DEF IsTree
  <2>7. /\ DOMAIN t = K /\ \A n \in K : n # game => t[n] = tree[n]
        /\ t[game] = [kept[game] EXCEPT !.visits = v + 1, !.leaf = 1]
    BY <2>2, <2>3, <2>5
  <2>8. /\ t[game] \in NodeData /\ t[game].visits = v + 1 /\ t[game].leaf = 1
        /\ t[game].nn = tree[game].nn /\ t[game].virtualLosses = tree[game].virtualLosses
        /\ t[game].hasEntry = tree[game].hasEntry /\ t[game].lastWeight = tree[game].lastWeight
    <3>1. kept[game] = tree[game] /\ v + 1 \in Nat
      BY <2>2, <2>3, <2>4
    <3> DEFINE r == kept[game]
    <3>2. r \in NodeData /\ r = tree[game] /\ t[game] = [r EXCEPT !.visits = v + 1, !.leaf = 1]
      BY <2>6, <2>7, <3>1
    <3> HIDE DEF r
    <3>3. t[game] \in NodeData
      <4>1. \A x \in NodeData, y \in Nat : [x EXCEPT !.visits = y, !.leaf = 1] \in NodeData
        BY DEF NodeData
      <4> QED
        BY <3>1, <3>2, <4>1
    <3>4. /\ t[game].visits = v + 1 /\ t[game].leaf = 1
          /\ t[game].nn = r.nn /\ t[game].virtualLosses = r.virtualLosses
          /\ t[game].hasEntry = r.hasEntry /\ t[game].lastWeight = r.lastWeight
      BY <3>2 DEF NodeData
    <3> QED
      BY <3>2, <3>3, <3>4
  <2>9. IsTree(t)
    BY <2>3, <2>5, <2>7, <2>8 DEF IsTree
  <2>10. Rooted(t, game)
    BY <2>2, <2>7 DEF Rooted
  <2>11. TreeAddsUp(t, game)
    <3>1. ASSUME NEW n \in K, n # game
          PROVE  AddsUpAlone(t, n) /\ t[n].visits # 0
      <4>1. AddsUpAlone(tree, n) /\ tree[n].visits # 0
        BY <1>1, <2>2, <3>1 DEF TreeAddsUp
      <4>2. \A c \in Children(tree, n) : t[c] = tree[c]
        BY <2>2, <2>7, <3>1
      <4>3. DOMAIN t \subseteq DOMAIN tree /\ n \in DOMAIN t /\ Children(tree, n) \subseteq DOMAIN t
        BY <2>2, <2>7, <3>1
      <4>4. t[n] = tree[n]
        BY <2>7, <3>1
      <4> QED
        BY <1>1, <2>9, <4>1, <4>2, <4>3, <4>4, AloneKept
    <3>2. AddsUpAlone(t, game) /\ t[game].visits # 0
      <4>1. Children(t, game) = Children(kept, game)
        BY <2>3, <2>7 DEF Children
      <4>2. VisitsOf(t, Children(kept, game)) = v
        <5>1. Children(kept, game) \subseteq K /\ game \notin Children(kept, game)
          BY <2>2, <2>3 DEF Children
        <5>2. \A c \in Children(kept, game) : t[c].visits = kept[c].visits
          BY <2>3, <2>7, <5>1
        <5> QED
          BY <2>3, <2>7, <2>9, <5>1, <5>2, VisitsSame DEF v
      <4>3. AddsUpAlone(tree, game)
        BY <1>1 DEF TreeAddsUp
      <4>4. ~tree[game].nn => Children(t, game) = {}
        <5>1. Children(t, game) \subseteq Children(tree, game)
          BY <2>2, <2>7 DEF Children
        <5> QED
          BY <4>3, <5>1 DEF AddsUpAlone
      <4> QED
        BY <2>4, <2>8, <4>1, <4>2, <4>3, <4>4 DEF AddsUpAlone
    <3> QED
      BY <2>7, <3>1, <3>2 DEF TreeAddsUp
  <2>12. \A n \in DOMAIN t : /\ t[n].hasEntry = tree[n].hasEntry
                             /\ t[n].lastWeight = tree[n].lastWeight
    BY <2>7, <2>8
  <2>13. Ready(t)
    BY <2>2, <2>7, <2>9, <2>10, <2>11, <2>12, KeptReady
  <2> QED
    BY <2>1, <2>13
<1> QED
  BY <1>2, <1>3

LEMMA RootReady ==
  ASSUME IInv, ~searching, NEW refused
  PROVE  Ready(WithRoot(refused))
<1>1. game \notin DOMAIN tree => WithRoot(refused) = With(tree, game, NewNode)
  BY DEF WithRoot
<1> QED
  BY <1>1, NewRootReady, OldRootReady

\* The recomputation of the tree changes weights only.
LEMMA Recomputed ==
  ASSUME NEW t, IsTree(t)
  PROVE  /\ IsTree(recomputeStats(t)) /\ DOMAIN recomputeStats(t) = DOMAIN t
         /\ \A n \in DOMAIN t :
              /\ recomputeStats(t)[n].visits = t[n].visits
              /\ recomputeStats(t)[n].virtualLosses = t[n].virtualLosses
              /\ recomputeStats(t)[n].leaf = t[n].leaf /\ recomputeStats(t)[n].nn = t[n].nn
              /\ recomputeStats(t)[n].hasEntry = t[n].hasEntry
              /\ ~t[n].hasEntry => recomputeStats(t)[n].lastWeight = t[n].lastWeight
<1> DEFINE u == recomputeStats(t)
           w(n) == WeightOf(t[n], VisitsOf(t, Children(t, n)))
<1>1. \A n \in DOMAIN t : t[n] \in NodeData /\ w(n) \in Nat
  <2> TAKE n \in DOMAIN t
  <2>1. t[n] \in NodeData
    BY DEF IsTree
  <2>2. VisitsOf(t, Children(t, n)) \in Nat
    BY VisitsNat DEF Children
  <2> QED
    BY <2>1, <2>2 DEF WeightOf, NodeData
<1>2. DOMAIN u = DOMAIN t
  BY DEF recomputeStats
<1>3. \A n \in DOMAIN t : u[n] = IF t[n].hasEntry THEN [t[n] EXCEPT !.lastWeight = w(n)] ELSE t[n]
  BY DEF recomputeStats
<1> HIDE DEF w
<1>5. \A n \in DOMAIN t :
        /\ u[n] \in NodeData /\ u[n].visits = t[n].visits
        /\ u[n].virtualLosses = t[n].virtualLosses
        /\ u[n].leaf = t[n].leaf /\ u[n].nn = t[n].nn /\ u[n].hasEntry = t[n].hasEntry
        /\ ~t[n].hasEntry => u[n].lastWeight = t[n].lastWeight
  <2> HIDE DEF u
  <2> TAKE n \in DOMAIN t
  <2>1. CASE t[n].hasEntry
    <3>1. u[n] = [t[n] EXCEPT !.lastWeight = w(n)] /\ t[n] \in NodeData /\ w(n) \in Nat
      BY <1>1, <1>3, <2>1
    <3> DEFINE r == t[n]
               y == w(n)
               z == u[n]
    <3>2. z = [r EXCEPT !.lastWeight = y] /\ r \in NodeData /\ y \in Nat
      BY <3>1
    <3> HIDE DEF r, y, z
    <3>3. /\ z \in NodeData /\ z.visits = r.visits /\ z.virtualLosses = r.virtualLosses
          /\ z.leaf = r.leaf /\ z.nn = r.nn /\ z.hasEntry = r.hasEntry
      BY <3>2 DEF NodeData
    <3> QED
      BY <2>1, <3>3 DEF r, z
  <2>2. CASE ~t[n].hasEntry
    BY <1>1, <1>3, <2>2
  <2> QED
    BY <2>1, <2>2
<1>6. IsTree(u)
  <2>1. u \in [DOMAIN t -> NodeData]
    <3>1. u = [n \in DOMAIN t |-> u[n]]
      BY DEF recomputeStats
    <3> HIDE DEF u
    <3> QED
      BY <1>5, <3>1
  <2> QED
    BY <1>2, <2>1 DEF IsTree
<1> QED
  BY <1>2, <1>5, <1>6

LEMMA AloneSame ==
  ASSUME NEW t, IsTree(t), NEW u, IsTree(u), DOMAIN u = DOMAIN t, NEW root, TreeAddsUp(t, root),
         \A n \in DOMAIN t : /\ u[n].visits = t[n].visits
                             /\ u[n].virtualLosses = t[n].virtualLosses
                             /\ u[n].leaf = t[n].leaf /\ u[n].nn = t[n].nn
  PROVE  TreeAddsUp(u, root)
<1> SUFFICES ASSUME NEW n \in DOMAIN t
             PROVE  AddsUpAlone(u, n) /\ (u[n].visits = 0 => n = root)
  BY DEF TreeAddsUp
<1>1. AddsUpAlone(t, n) /\ (t[n].visits = 0 => n = root)
  BY DEF TreeAddsUp
<1>2. Children(u, n) = Children(t, n)
  BY DEF Children
<1>3. VisitsOf(u, Children(t, n)) = VisitsOf(t, Children(t, n))
  BY VisitsSame DEF Children
<1> QED
  BY <1>1, <1>2, <1>3 DEF AddsUpAlone

LEMMA BeginKept ==
  ASSUME IInv, NEW refused, beginSearch(refused)
  PROVE  IInv'
<1> DEFINE t == WithRoot(refused)
           removed == removeSubtreeValueBias(table, tree, DOMAIN tree \ DOMAIN t)
           u == recomputeStats(t)
<1>1. /\ ~searching /\ searches < Len(MaxVisitsOfSearches)
      /\ tree' = u /\ table' = clearUnused(Reweigh(removed, t, u), u) /\ oldVisits' = u[game].visits
      /\ searches' = searches + 1 /\ searching' = TRUE /\ playouts' = 0
      /\ th' = [s \in Threads |-> AtStart] /\ game' = game
  BY DEF beginSearch, BeginWith
<1>2. Ready(t)
  BY <1>1, RootReady
<1> HIDE DEF t
<1>3. /\ IsTree(u) /\ DOMAIN u = DOMAIN t
      /\ \A n \in DOMAIN t :
           /\ u[n].visits = t[n].visits /\ u[n].virtualLosses = t[n].virtualLosses
           /\ u[n].leaf = t[n].leaf /\ u[n].nn = t[n].nn /\ u[n].hasEntry = t[n].hasEntry
           /\ ~t[n].hasEntry => u[n].lastWeight = t[n].lastWeight
  BY <1>2, Recomputed DEF Ready
<1> HIDE DEF u, removed
<1>4. removed \in [DOMAIN table -> Int] /\ game \in DOMAIN t /\ IsTree(t)
  BY <1>2 DEF Ready, removed
<1>5. game \in Seq(Moves) /\ \A s \in Threads : th'[s] = AtStart /\ AtStart \in ThreadData
  BY <1>1 DEF IInv, TypeOK, AtStart, ThreadData
\* The table is that of the new weights.
<1>6. ASSUME NEW n \in DOMAIN u, u[n].hasEntry
      PROVE  /\ HasBiasKey(n) /\ BiasKey(n) \in DOMAIN table'
             /\ table'[BiasKey(n)] = WeightsOf(u, Sharing(u, DOMAIN u, BiasKey(n)))
  <2> DEFINE k == BiasKey(n)
             S == Sharing(u, DOMAIN u, k)
  <2>1. HasBiasKey(n) /\ k \in DOMAIN table /\ removed[k] = WeightsOf(t, Sharing(t, DOMAIN t, k))
    BY <1>2, <1>3, <1>6 DEF Ready, removed
  <2>2. S = Sharing(t, DOMAIN t, k)
    BY <1>3 DEF Sharing
  <2>3. k \in DOMAIN Reweigh(removed, t, u)
    BY <1>4, <2>1 DEF Reweigh
  <2>4. Reweigh(removed, t, u)[k] = removed[k] + WeightsOf(u, S) - WeightsOf(t, S)
    BY <1>4, <2>1 DEF Reweigh
  <2>5. S \in SUBSET DOMAIN t /\ S \in SUBSET DOMAIN u
    BY <1>3 DEF Sharing
  <2>6. WeightsOf(u, S) \in Nat /\ WeightsOf(t, S) \in Nat
    BY <1>3, <1>4, <2>5, VisitsNat
  <2>7. k \in DOMAIN table' /\ table'[k] = Reweigh(removed, t, u)[k]
    BY <1>1, <1>6 DEF clearUnused
  <2> HIDE DEF S
  <2>8. table'[k] = WeightsOf(u, S)
    BY <2>1, <2>2, <2>4, <2>6, <2>7
  <2> QED
    BY <2>1, <2>7, <2>8 DEF S
<1>7. \A k \in DOMAIN table' : \E n \in DOMAIN u : u[n].hasEntry /\ k = BiasKey(n)
  BY <1>1 DEF clearUnused
<1>8. \A k \in DOMAIN table' : table'[k] = WeightsOf(u, Sharing(u, DOMAIN u, k))
  BY <1>6, <1>7
<1>9. TypeOK'
  <2>1. table' \in [DOMAIN table' -> Int]
    <3>1. \A k : WeightsOf(u, Sharing(u, DOMAIN u, k)) \in Nat
      BY <1>3, VisitsNat DEF Sharing
    <3>2. \A k \in DOMAIN table' : table'[k] \in Int
      BY <1>8, <3>1
    <3>3. table' = [k \in DOMAIN table' |-> table'[k]]
      BY <1>1 DEF clearUnused
    <3> QED
      BY <3>2, <3>3
  <2>2. u[game].visits \in Nat
    BY <1>3, <1>4 DEF IsTree, NodeData
  <2>3. searches + 1 \in 0 .. Len(MaxVisitsOfSearches) /\ searches + 1 # 0
    BY <1>1, SearchAssumption DEF IInv, TypeOK
  <2>4. th' \in [Threads -> ThreadData]
    BY <1>1, <1>5
  <2> QED
    BY <1>1, <1>3, <1>5, <2>1, <2>2, <2>3, <2>4 DEF TypeOK
<1>10. Shape'
  BY <1>1, <1>2, <1>3 DEF Ready, Shape, Rooted
<1>11. Positions'
  BY <1>1, <1>5 DEF Positions, AtStart, InTree, Up
<1>12. NodesAddUp'
  <2>1. TreeAddsUp(u, game)
    BY <1>2, <1>3, AloneSame DEF Ready
  <2>2. \A s \in Threads : th'[s].pc \notin InTree
    BY <1>5 DEF AtStart, InTree, Up
  <2> QED
    BY <1>1, <1>9, <2>1, <2>2, AloneAgain
<1>13. RootAddsUp'
  <2>1. Counting' = {}
    BY <1>5 DEF Counting, AtStart
  <2>2. Cardinality({}) = 0
    BY FS_EmptySet
  <2>3. oldVisits' \in Nat
    BY <1>9 DEF TypeOK
  <2> QED
    BY <1>1, <2>1, <2>2, <2>3 DEF RootAddsUp
<1>14. LimitKept'
  <2>1. Unaware' = {} /\ \A s \in Threads : th'[s].pc \notin InTree \cup {"count"}
    BY <1>5 DEF Unaware, AtStart, InTree, Up
  <2>2. Cardinality({}) = 0
    BY FS_EmptySet
  <2>3. Cardinality(Threads) \in Nat /\ Cardinality(Threads) >= 1
    BY SearchAssumption, FS_CardinalityType, FS_EmptySet
  <2>4. PlayoutsAllowed' \in Nat
    <3>1. /\ searches' \in 1 .. Len(MaxVisitsOfSearches)
          /\ oldVisits' \in Nat
      BY <1>1, <1>9 DEF TypeOK
    <3>2. maxVisits' \in Nat /\ maxPlayouts' \in Nat
      BY <3>1, SearchAssumption DEF maxVisits, maxPlayouts
    <3>3. PICK limit \in Nat : limit = maxVisits'
      BY <3>2
    <3>4. PICK atMost \in Nat : atMost = maxPlayouts'
      BY <3>2
    <3>5. PICK old \in Nat : old = oldVisits'
      BY <3>1
    <3>6. VisitsLeft' = IF old > limit THEN 0 ELSE limit - old
      BY <3>3, <3>5 DEF VisitsLeft
    <3>7. VisitsLeft' \in Nat
      BY <3>6
    <3>8. PICK left \in Nat : left = VisitsLeft'
      BY <3>7
    <3>9. PlayoutsAllowed' = IF atMost < left THEN atMost ELSE left
      BY <3>4, <3>8 DEF PlayoutsAllowed
    <3> QED
      BY <3>9
  <2>5. 0 <= Bound'
    BY <2>3, <2>4 DEF Bound
  <2>6. playouts' + Cardinality(Unaware') = 0
    BY <1>1, <2>1, <2>2
  <2> QED
    BY <2>1, <2>5, <2>6 DEF LimitKept
<1>15. Weighed'
  <2>1. \A n \in DOMAIN u : ~u[n].hasEntry => u[n].lastWeight = 0
    BY <1>2, <1>3 DEF Ready
  <2> QED
    BY <1>1, <1>6, <1>8, <2>1 DEF Weighed, WeighsRight
<1> QED
  BY <1>9, <1>10, <1>11, <1>12, <1>13, <1>14, <1>15 DEF IInv

-----------------------------------------------------------------------------
(* A playout in the tree                                                   *)

LEMMA BiasKept ==
  ASSUME IInv, NEW t \in Threads, UpdateBias(t)
  PROVE  IInv'
<1> DEFINE n == th[t].at
           k == BiasKey(n)
           weight == WeightOf(tree[n], th[t].childVisits)
<1>1. /\ searching /\ th[t].pc = "bias" /\ n \in DOMAIN tree
      /\ th \in [Threads -> ThreadData] /\ th[t] \in ThreadData
      /\ IsTree(tree) /\ table \in [DOMAIN table -> Int]
      /\ UNCHANGED <<game, searches, searching, playouts, oldVisits>>
      /\ th' = [th EXCEPT ![t].pc = "write"]
  BY DEF IInv, TypeOK, Positions, InTree, Up, UpdateBias, At, Goto
<1>2. tree[n] \in NodeData /\ n \in Seq(Moves) /\ weight \in Nat
  <2>1. tree[n] \in NodeData /\ n \in Seq(Moves)
    BY <1>1 DEF IsTree
  <2> QED
    BY <1>1, <2>1 DEF WeightOf, NodeData, ThreadData
<1>3. \/ /\ tree[n].hasEntry
         /\ table' = [table EXCEPT ![k] = @ + weight - tree[n].lastWeight]
         /\ tree' = [tree EXCEPT ![n].lastWeight = weight]
      \/ tree' = tree /\ table' = table
  <2>1. table[k] + (weight - tree[n].lastWeight) = table[k] + weight - tree[n].lastWeight
          \/ k \notin DOMAIN table
    BY <1>1, <1>2 DEF NodeData
  <2> QED
    BY <2>1 DEF UpdateBias, Gained
<1> HIDE DEF n, k, weight
<1>4. /\ th' \in [Threads -> ThreadData] /\ \A u \in Threads \ {t} : th'[u] = th[u]
      /\ th'[t].pc = "write" /\ th'[t].at = th[t].at /\ th'[t].numPlayouts = th[t].numPlayouts
  BY <1>1 DEF ThreadData, InTree, Up
<1>5. /\ IsTree(tree') /\ DOMAIN tree' = DOMAIN tree
      /\ \A d \in DOMAIN tree :
           /\ tree'[d].visits = tree[d].visits /\ tree'[d].virtualLosses = tree[d].virtualLosses
           /\ tree'[d].leaf = tree[d].leaf /\ tree'[d].nn = tree[d].nn
           /\ tree'[d].hasEntry = tree[d].hasEntry
           /\ d # n => tree'[d] = tree[d]
  <2>1. CASE tree' = tree
    BY <1>1, <2>1
  <2>2. CASE tree' = [tree EXCEPT ![n].lastWeight = weight]
    <3> DEFINE r == tree[n]
               z == tree'[n]
    <3>1. /\ DOMAIN tree' = DOMAIN tree /\ \A d \in DOMAIN tree : d # n => tree'[d] = tree[d]
          /\ z = [r EXCEPT !.lastWeight = weight] /\ r \in NodeData
      BY <1>1, <1>2, <2>2
    <3> HIDE DEF r, z
    <3>2. /\ z \in NodeData /\ z.visits = r.visits /\ z.virtualLosses = r.virtualLosses
          /\ z.leaf = r.leaf /\ z.nn = r.nn /\ z.hasEntry = r.hasEntry
      BY <1>2, <3>1 DEF NodeData
    <3>3. IsTree(tree')
      <4>1. tree' = [d \in DOMAIN tree |-> tree'[d]]
        BY <1>1, <2>2
      <4>2. \A d \in DOMAIN tree : tree'[d] \in NodeData
        BY <1>1, <3>1, <3>2 DEF z, IsTree
      <4> QED
        BY <1>1, <3>1, <4>1, <4>2 DEF IsTree
    <3> QED
      BY <3>1, <3>2, <3>3 DEF r, z
  <2> QED
    BY <1>3, <2>1, <2>2
<1>6. tree[n].hasEntry => k \in DOMAIN table
  BY <1>1 DEF IInv, Weighed, k
<1>7. TypeOK'
  <2>1. table' \in [DOMAIN table' -> Int] /\ DOMAIN table' = DOMAIN table
    BY <1>1, <1>2, <1>3 DEF NodeData
  <2> QED
    BY <1>1, <1>4, <1>5, <2>1 DEF IInv, TypeOK
<1>8. Shape' /\ Positions'
  BY <1>1, <1>4, <1>5 DEF IInv, Shape, Rooted, Positions, InTree, Up
<1>9. NodesAddUp'
  <2>1. \A d \in DOMAIN tree : Returning(d)' = Returning(d) /\ Inside(d)' = Inside(d)
    BY <1>1, <1>4 DEF Returning, Inside
  <2> QED
    BY <1>1, <1>5, <1>7, <2>1, NodesKept DEF IInv
<1>10. RootAddsUp'
  <2>1. game \in DOMAIN tree
    BY <1>1 DEF IInv, Shape
  <2> QED
    BY <1>1, <1>4, <1>5, <2>1, RootStays
<1>11. LimitKept'
  <2>1. t \in Unaware
    BY <1>1 DEF IInv, LimitKept, InTree, Up
  <2> QED
    BY <1>1, <1>4, <2>1, LimitStays
<1>12. Weighed'
  <2>1. CASE tree' = tree /\ table' = table
    <3>1. \A d \in DOMAIN tree : /\ tree'[d].hasEntry = tree[d].hasEntry
                                 /\ tree'[d].lastWeight = tree[d].lastWeight
      BY <2>1
    <3> QED
      BY <1>1, <1>5, <1>7, <2>1, <3>1, WeightsKept DEF IInv
  <2>2. CASE /\ tree[n].hasEntry
             /\ table' = [table EXCEPT ![k] = @ + weight - tree[n].lastWeight]
             /\ tree' = [tree EXCEPT ![n].lastWeight = weight]
    <3>1. DOMAIN table' = DOMAIN table
      BY <2>2
    <3>2. tree'[n].lastWeight = weight
      BY <1>1, <1>2, <2>2 DEF NodeData
    <3>3. ASSUME NEW j \in DOMAIN table PROVE WeighsRight(j)'
      <4> DEFINE S == Sharing(tree, DOMAIN tree, j)
      <4>1. Sharing(tree', DOMAIN tree', j) = S /\ S \in SUBSET DOMAIN tree
        BY <1>5 DEF Sharing
      <4>2. table[j] = WeightsOf(tree, S) /\ WeightsOf(tree, S) \in Nat
        BY <1>1, <4>1, VisitsNat DEF IInv, Weighed, WeighsRight
      <4>3. n \in S <=> j = k
        BY <1>1, <2>2 DEF Sharing, k
      <4> HIDE DEF S
      <4>4. CASE j = k
        <5>1. \A d \in S \ {n} : tree[d].lastWeight = tree'[d].lastWeight
          BY <1>5, <4>1
        <5>2. WeightsOf(tree', S) = WeightsOf(tree, S) + tree'[n].lastWeight - tree[n].lastWeight
          BY <1>1, <1>5, <4>1, <4>3, <4>4, <5>1, VisitsChange
        <5>3. table'[k] = table[k] + weight - tree[n].lastWeight
          BY <1>6, <2>2
        <5> QED
          BY <3>2, <4>1, <4>2, <4>4, <5>2, <5>3 DEF WeighsRight
      <4>5. CASE j # k
        <5>1. \A d \in S : tree'[d].lastWeight = tree[d].lastWeight
          BY <1>5, <4>1, <4>3, <4>5
        <5>2. WeightsOf(tree', S) = WeightsOf(tree, S)
          BY <1>1, <1>5, <4>1, <5>1, VisitsSame
        <5>3. table'[j] = table[j]
          BY <2>2, <4>5
        <5> QED
          BY <4>1, <4>2, <5>2, <5>3 DEF WeighsRight
      <4> QED
        BY <4>4, <4>5
    <3>4. \A d \in DOMAIN tree : IF tree'[d].hasEntry
                                   THEN HasBiasKey(d) /\ BiasKey(d) \in DOMAIN table
                                   ELSE tree'[d].lastWeight = 0
      BY <1>5, <2>2 DEF IInv, Weighed
    <3> QED
      BY <1>5, <3>1, <3>3, <3>4 DEF Weighed
  <2> QED
    BY <1>3, <2>1, <2>2
<1> QED
  BY <1>7, <1>8, <1>9, <1>10, <1>11, <1>12 DEF IInv

\* A visit is counted at the node of a thread, as a leaf or on the way up.
Counts(t, isLeaf) ==
  /\ searching /\ th[t].pc \in (IF isLeaf THEN InTree \ Up ELSE Up)
  /\ \E nn \in BOOLEAN : /\ tree[th[t].at].nn => nn
                         /\ tree' = [tree EXCEPT ![th[t].at] = [Visited(@, th[t].at, isLeaf)
                                                                EXCEPT !.nn = nn]]
  /\ th' = Return(t, th[t].at)
  /\ UNCHANGED <<game, table, searches, searching, playouts, oldVisits>>

LEMMA VisitsCount ==
  ASSUME IInv, NEW t \in Threads,
         HitTerminal(t) \/ FinishEvaluation(t) \/ VisitAgain(t) \/ WriteStats(t)
  PROVE  \E isLeaf \in BOOLEAN : Counts(t, isLeaf)
<1> DEFINE n == th[t].at
<1>1. th[t].pc \in InTree /\ n \in DOMAIN tree /\ tree[n] \in NodeData /\ searching
  BY DEF IInv, Positions, TypeOK, IsTree, HitTerminal, FinishEvaluation, VisitAgain, WriteStats,
         At, InTree, Up
<1>2. ASSUME NEW evaluated \in BOOLEAN, addLeafValue(t, evaluated), th[t].pc \in InTree \ Up
      PROVE  Counts(t, TRUE)
  <2> DEFINE nn == tree[n].nn \/ evaluated
             node == Visited(tree[n], n, TRUE)
  <2>1. node.nn = tree[n].nn
    BY <1>1 DEF Visited, NodeData
  <2>2. tree' = [tree EXCEPT ![n] = [node EXCEPT !.nn = node.nn \/ evaluated]]
    BY <1>2 DEF addLeafValue
  <2>3. tree' = [tree EXCEPT ![n] = [node EXCEPT !.nn = nn]]
    BY <2>1, <2>2
  <2>4. nn \in BOOLEAN /\ (tree[n].nn => nn)
    BY <1>1 DEF NodeData
  <2>5. \E x \in BOOLEAN : /\ tree[n].nn => x
                           /\ tree' = [tree EXCEPT ![n] = [Visited(@, n, TRUE) EXCEPT !.nn = x]]
    BY <1>1, <2>3, <2>4
  <2> QED
    BY <1>1, <1>2, <2>5 DEF Counts, addLeafValue
<1>3. ASSUME HitTerminal(t) \/ FinishEvaluation(t) \/ VisitAgain(t) PROVE Counts(t, TRUE)
  <2>1. th[t].pc \in InTree \ Up /\ (addLeafValue(t, FALSE) \/ addLeafValue(t, TRUE))
    BY <1>3 DEF HitTerminal, FinishEvaluation, VisitAgain, At, InTree, Up
  <2> QED
    BY <1>2, <2>1
<1>4. ASSUME WriteStats(t) PROVE Counts(t, FALSE)
  <2> DEFINE node == Visited(tree[n], n, FALSE)
  <2>1. node = [node EXCEPT !.nn = tree[n].nn]
    BY <1>1 DEF Visited, NodeData
  <2>2. tree' = [tree EXCEPT ![n] = node]
    BY <1>4 DEF WriteStats
  <2>3. tree' = [tree EXCEPT ![n] = [Visited(@, n, FALSE) EXCEPT !.nn = tree[n].nn]]
    BY <1>1, <2>1, <2>2
  <2>4. \E x \in BOOLEAN : /\ tree[n].nn => x
                           /\ tree' = [tree EXCEPT ![n] = [Visited(@, n, FALSE) EXCEPT !.nn = x]]
    BY <1>1, <2>3 DEF NodeData
  <2> QED
    BY <1>1, <1>4, <2>4 DEF Counts, WriteStats, At, Up
<1> QED
  BY <1>3, <1>4

\* What the visit leaves behind.
LEMMA CountedTree ==
  ASSUME IInv, NEW t \in Threads, NEW isLeaf \in BOOLEAN, Counts(t, isLeaf),
         NEW n, n = th[t].at
  PROVE  /\ n \in DOMAIN tree /\ n \in Seq(Moves) /\ game \in Seq(Moves) /\ IsPrefix(game, n)
         /\ IsTree(tree) /\ IsTree(tree') /\ DOMAIN tree' = DOMAIN tree
         /\ \A d \in DOMAIN tree : /\ tree'[d].hasEntry = tree[d].hasEntry
                                   /\ tree'[d].lastWeight = tree[d].lastWeight
         /\ \A d \in DOMAIN tree : d # n => tree'[d] = tree[d]
         /\ tree'[n].visits = tree[n].visits + 1
         /\ tree'[n].virtualLosses
              = tree[n].virtualLosses - (IF n = game THEN 0 ELSE VirtualLosses)
         /\ tree'[n].leaf = tree[n].leaf + (IF isLeaf THEN 1 ELSE 0)
         /\ tree[n].nn => tree'[n].nn
<1>1. /\ n \in DOMAIN tree /\ n \in Seq(Moves) /\ game \in Seq(Moves) /\ IsPrefix(game, n)
      /\ IsTree(tree) /\ tree[n] \in NodeData
  BY DEF IInv, TypeOK, IsTree, Positions, Shape, Rooted, Counts, InTree
<1>2. PICK nn \in BOOLEAN :
        /\ tree[n].nn => nn
        /\ tree' = [tree EXCEPT ![n] = [Visited(@, n, isLeaf) EXCEPT !.nn = nn]]
  BY DEF Counts
<1> DEFINE r == tree[n]
           z == tree'[n]
           loss == IF n = game THEN 0 ELSE VirtualLosses
           more == IF isLeaf THEN 1 ELSE 0
<1>3. loss \in Nat /\ more \in Nat /\ loss = LossesToSubtract(n, isLeaf)
  BY SearchAssumption DEF LossesToSubtract
<1>4. /\ DOMAIN tree' = DOMAIN tree /\ \A d \in DOMAIN tree : d # n => tree'[d] = tree[d]
      /\ z = [Visited(r, n, isLeaf) EXCEPT !.nn = nn] /\ r \in NodeData
  BY <1>1, <1>2
<1> HIDE DEF r, z, loss, more
<1>5. z = [r EXCEPT !.visits = @ + 1, !.virtualLosses = @ - loss, !.leaf = @ + more, !.nn = nn]
  BY <1>3, <1>4 DEF Visited, more, NodeData
<1>6. /\ z \in NodeData /\ z.visits = r.visits + 1 /\ z.virtualLosses = r.virtualLosses - loss
      /\ z.leaf = r.leaf + more /\ z.nn = nn
      /\ z.hasEntry = r.hasEntry /\ z.lastWeight = r.lastWeight
  <2>1. r.visits + 1 \in Nat /\ r.virtualLosses - loss \in Int /\ r.leaf + more \in Nat
    BY <1>3, <1>4 DEF NodeData
  <2> QED
    BY <1>4, <1>5, <2>1 DEF NodeData
<1>7. IsTree(tree')
  <2>1. tree' = [d \in DOMAIN tree |-> tree'[d]]
    BY <1>1, <1>2
  <2>2. \A d \in DOMAIN tree : tree'[d] \in NodeData
    BY <1>1, <1>4, <1>6 DEF z, IsTree
  <2> QED
    BY <1>1, <1>4, <2>1, <2>2 DEF IsTree
<1>8. \A d \in DOMAIN tree : /\ tree'[d].hasEntry = tree[d].hasEntry
                             /\ tree'[d].lastWeight = tree[d].lastWeight
  BY <1>4, <1>6 DEF r, z
<1> QED
  BY <1>1, <1>2, <1>4, <1>6, <1>7, <1>8 DEF r, z, loss, more

\* Where the thread goes.
LEMMA CountedThread ==
  ASSUME IInv, NEW t \in Threads, NEW isLeaf \in BOOLEAN, Counts(t, isLeaf),
         NEW n, n = th[t].at, n \in DOMAIN tree, n \in Seq(Moves), game \in Seq(Moves),
         IsPrefix(game, n)
  PROVE  /\ th' \in [Threads -> ThreadData] /\ \A u \in Threads \ {t} : th'[u] = th[u]
         /\ th'[t].numPlayouts = th[t].numPlayouts
         /\ n = game => th'[t].pc = "count" /\ th'[t].at = n
         /\ n # game => /\ th'[t].pc = "return" /\ th'[t].at = Front(n)
                        /\ Front(n) \in DOMAIN tree /\ Front(n) \in Seq(Moves)
                        /\ Len(n) = Len(Front(n)) + 1
                        /\ \A p \in Seq(Moves) :
                             IsPrefix(p, n) <=> IsPrefix(p, Front(n)) \/ p = n
<1>1. th \in [Threads -> ThreadData] /\ th[t] \in ThreadData
  BY DEF IInv, TypeOK
<1>2. CASE n = game
  <2>1. th' = [th EXCEPT ![t].pc = "count"]
    BY <1>2 DEF Counts, Return, Goto
  <2> QED
    BY <1>1, <1>2, <2>1 DEF ThreadData
<1>3. CASE n # game
  <2>1. th' = [th EXCEPT ![t].pc = "return", ![t].at = Front(n)]
    BY <1>3 DEF Counts, Return
  <2>2. n # <<>>
    <3>1. Len(n) > Len(game)
      BY <1>3, PrefixMeans, SameWhenPrefixed
    <3> QED
      BY <3>1
  <2>3. /\ Front(n) \in Seq(Moves) /\ Last(n) \in Moves /\ Len(Front(n)) = Len(n) - 1
        /\ n = Append(Front(n), Last(n))
    BY <2>2, FrontFacts
  <2>4. \A p \in Seq(Moves) : IsPrefix(p, n) <=> IsPrefix(p, Front(n)) \/ p = n
    <3>1. \A p \in Seq(Moves) : IsPrefix(p, Append(Front(n), Last(n))) <=>
            IsPrefix(p, Front(n)) \/ p = Append(Front(n), Last(n))
      BY <2>3, PrefixOfAppend
    <3> QED
      BY <2>3, <3>1
  <2>5. Front(n) \in DOMAIN tree
    <3>1. IsPrefix(game, Front(n))
      BY <1>3, <2>4
    <3>2. IsPrefix(Front(n), n)
      BY <2>3, <2>4, PrefixOfItself
    <3> QED
      BY <2>3, <3>1, <3>2 DEF IInv, Shape, Rooted
  <2>6. th' \in [Threads -> ThreadData]
    BY <1>1, <2>1, <2>3 DEF ThreadData, InTree, Up
  <2> QED
    BY <1>1, <1>3, <2>1, <2>3, <2>4, <2>5, <2>6 DEF ThreadData
<1> QED
  BY <1>2, <1>3

LEMMA CountedNodes ==
  ASSUME IInv, TypeOK', NEW t \in Threads, NEW isLeaf \in BOOLEAN, Counts(t, isLeaf)
  PROVE  NodesAddUp'
<1> DEFINE n == th[t].at
<1>1. /\ n \in DOMAIN tree /\ n \in Seq(Moves) /\ game \in Seq(Moves) /\ IsPrefix(game, n)
      /\ IsTree(tree) /\ IsTree(tree') /\ DOMAIN tree' = DOMAIN tree
      /\ \A d \in DOMAIN tree : d # n => tree'[d] = tree[d]
      /\ tree'[n].visits = tree[n].visits + 1
      /\ tree'[n].virtualLosses = tree[n].virtualLosses - (IF n = game THEN 0 ELSE VirtualLosses)
      /\ tree'[n].leaf = tree[n].leaf + (IF isLeaf THEN 1 ELSE 0)
      /\ tree[n].nn => tree'[n].nn
  BY CountedTree
<1>2. /\ \A u \in Threads \ {t} : th'[u] = th[u]
      /\ n = game => th'[t].pc = "count" /\ th'[t].at = n
      /\ n # game => /\ th'[t].pc = "return" /\ th'[t].at = Front(n)
                     /\ Front(n) \in DOMAIN tree /\ Front(n) \in Seq(Moves)
                     /\ Len(n) = Len(Front(n)) + 1
                     /\ \A p \in Seq(Moves) :
                          IsPrefix(p, n) <=> IsPrefix(p, Front(n)) \/ p = n
  BY <1>1, CountedThread
<1>3. /\ game' = game /\ th[t].pc \in InTree /\ (isLeaf <=> th[t].pc \notin Up)
      /\ \A u \in Threads : th[u].pc \in InTree \cup {"start", "check", "count", "done"}
  <2>1. \A u \in Threads : th[u].pc \in InTree \cup {"start", "check", "count", "done"}
    BY DEF IInv, TypeOK, ThreadData
  <2> QED
    BY <2>1 DEF Counts, InTree
<1>4. th[t].at = n
  OBVIOUS
<1> HIDE DEF n
<1> SUFFICES ASSUME NEW d \in DOMAIN tree PROVE NodeAddsUp(d)'
  BY <1>1 DEF NodesAddUp
<1>5. d \in Seq(Moves) /\ IsPrefix(game, d) /\ NodeAddsUp(d)
  BY <1>1 DEF IInv, IsTree, Shape, Rooted, NodesAddUp
<1>6. IsFiniteSet(Threads) /\ VirtualLosses \in Nat
  BY SearchAssumption
<1>7. /\ IsFiniteSet(Returning(d)) /\ Cardinality(Returning(d)) \in Nat
      /\ IsFiniteSet(Inside(d)) /\ Cardinality(Inside(d)) \in Nat
  BY <1>6, FS_Subset, FS_CardinalityType DEF Returning, Inside
<1>8. /\ tree[d].visits \in Nat /\ tree[d].leaf \in Nat /\ tree[d].virtualLosses \in Int
      /\ VisitsOf(tree, Children(tree, d)) \in Nat
  BY <1>1, VisitsNat DEF IsTree, NodeData, Children
\* Who returns to the node.
<1>9. Returning(d)' = IF d = n THEN IF isLeaf THEN Returning(d) ELSE Returning(d) \ {t}
                      ELSE IF n # game /\ d = Front(n) THEN Returning(d) \cup {t}
                      ELSE Returning(d)
  <2>1. \A u \in Threads \ {t} : u \in Returning(d)' <=> u \in Returning(d)
    BY <1>2 DEF Returning
  <2>2. t \in Returning(d) <=> d = n /\ ~isLeaf
    BY <1>3, <1>4 DEF Returning, Up
  <2>3. t \in Returning(d)' <=> n # game /\ d = Front(n)
    BY <1>2 DEF Returning
  <2>4. n # game => Front(n) # n
    BY <1>1, <1>2
  <2>5. Returning(d) \subseteq Threads /\ Returning(d)' \subseteq Threads
    BY DEF Returning
  <2> QED
    BY <2>1, <2>2, <2>3, <2>4, <2>5
<1>10. t \in Returning(d) <=> d = n /\ ~isLeaf
  BY <1>3, <1>4 DEF Returning, Up
\* Who is inside.
<1>11. d # game => Inside(d)' = IF d = n THEN Inside(d) \ {t} ELSE Inside(d)
  <2> SUFFICES ASSUME d # game
               PROVE  Inside(d)' = IF d = n THEN Inside(d) \ {t} ELSE Inside(d)
    OBVIOUS
  <2>1. \A u \in Threads \ {t} : u \in Inside(d)' <=> u \in Inside(d)
    BY <1>2 DEF Inside
  <2>2. t \in Inside(d) <=> IsPrefix(d, n)
    BY <1>3, <1>4 DEF Inside, InTree, Up
  <2>3. t \in Inside(d)' <=> n # game /\ IsPrefix(d, Front(n))
    BY <1>2 DEF Inside
  <2>4. n = game => ~IsPrefix(d, n)
    <3> SUFFICES ASSUME n = game, IsPrefix(d, n) PROVE FALSE
      OBVIOUS
    <3>1. Len(d) = Len(game)
      BY <1>1, <1>5, PrefixMeans
    <3> QED
      BY <1>1, <1>5, <3>1, SameWhenPrefixed
  <2>5. n # game => ~IsPrefix(n, Front(n))
    BY <1>1, <1>2, PrefixMeans
  <2>6. Inside(d) \subseteq Threads /\ Inside(d)' \subseteq Threads
    BY DEF Inside
  <2>7. t \in Inside(d)' <=> t \in Inside(d) /\ d # n
    <3>1. CASE n = game
      BY <2>2, <2>3, <2>4, <3>1
    <3>2. CASE n # game
      <4>1. IsPrefix(d, n) <=> IsPrefix(d, Front(n)) \/ d = n
        BY <1>2, <1>5, <3>2
      <4>2. d = n => ~IsPrefix(d, Front(n))
        BY <2>5, <3>2
      <4> QED
        BY <2>2, <2>3, <3>2, <4>1, <4>2
    <3> QED
      BY <3>1, <3>2
  <2> QED
    BY <2>1, <2>6, <2>7
<1>12. d = n /\ n # game => t \in Inside(d)
  BY <1>1, <1>3, <1>4, PrefixOfItself DEF Inside, InTree, Up
\* What the children have.
<1>13. Children(tree', d) = Children(tree, d)
  BY <1>1 DEF Children
<1>14. VisitsOf(tree', Children(tree', d))
         = VisitsOf(tree, Children(tree, d)) + (IF n # game /\ d = Front(n) THEN 1 ELSE 0)
  <2>1. Children(tree, d) \subseteq DOMAIN tree
    BY DEF Children
  <2>2. n \in Children(tree, d) <=> n # game /\ d = Front(n)
    <3>1. game \notin Children(tree, d)
      <4>1. Len(game) <= Len(d)
        BY <1>1, <1>5, PrefixMeans
      <4>2. Len(game) # Len(d) + 1
        BY <1>1, <1>5, <4>1
      <4> QED
        BY <4>2 DEF Children
    <3> QED
      BY <1>1, <1>2, <3>1 DEF Children
  <2>3. CASE n # game /\ d = Front(n)
    <3>1. \A c \in Children(tree, d) \ {n} : tree[c].visits = tree'[c].visits
      BY <1>1, <2>1
    <3>2. VisitsOf(tree', Children(tree, d))
            = VisitsOf(tree, Children(tree, d)) + tree'[n].visits - tree[n].visits
      BY <1>1, <2>1, <2>2, <2>3, <3>1, VisitsChange
    <3>3. tree[n].visits \in Nat
      BY <1>1 DEF IsTree, NodeData
    <3> QED
      BY <1>1, <1>8, <1>13, <2>3, <3>2, <3>3
  <2>4. CASE ~(n # game /\ d = Front(n))
    <3>1. \A c \in Children(tree, d) : tree'[c].visits = tree[c].visits
      BY <1>1, <2>1, <2>2, <2>4
    <3>2. VisitsOf(tree', Children(tree, d)) = VisitsOf(tree, Children(tree, d))
      BY <1>1, <2>1, <3>1, VisitsSame
    <3> QED
      BY <1>8, <1>13, <2>4, <3>2
  <2> QED
    BY <2>3, <2>4
<1>15. Cardinality(Returning(d)') = Cardinality(Returning(d))
         + (IF n # game /\ d = Front(n) THEN 1 ELSE 0) - (IF d = n /\ ~isLeaf THEN 1 ELSE 0)
  <2>1. CASE d = n
    <3>1. ~(n # game /\ d = Front(n))
      BY <1>1, <1>2, <2>1
    <3>2. CASE isLeaf
      BY <1>7, <1>9, <2>1, <3>1, <3>2
    <3>3. CASE ~isLeaf
      <4>1. Cardinality(Returning(d) \ {t}) = Cardinality(Returning(d)) - 1
        BY <1>7, <1>10, <2>1, <3>3, FS_RemoveElement
      <4> QED
        BY <1>7, <1>9, <2>1, <3>1, <3>3, <4>1
    <3> QED
      BY <3>2, <3>3
  <2>2. CASE d # n /\ n # game /\ d = Front(n)
    <3>1. Cardinality(Returning(d) \cup {t}) = Cardinality(Returning(d)) + 1
      BY <1>7, <1>10, <2>2, FS_AddElement
    <3> QED
      BY <1>7, <1>9, <2>2, <3>1
  <2>3. CASE d # n /\ ~(n # game /\ d = Front(n))
    BY <1>7, <1>9, <2>3
  <2> QED
    BY <2>1, <2>2, <2>3
<1>16. tree'[d].visits = tree[d].visits + (IF d = n THEN 1 ELSE 0)
  BY <1>1, <1>8
<1>17. tree'[d].leaf = tree[d].leaf + (IF d = n /\ isLeaf THEN 1 ELSE 0)
  BY <1>1, <1>8
<1>18. tree'[d].visits + Cardinality(Returning(d)')
         = tree'[d].leaf + VisitsOf(tree', Children(tree', d))
  <2>1. tree[d].visits + Cardinality(Returning(d))
          = tree[d].leaf + VisitsOf(tree, Children(tree, d))
    BY <1>5 DEF NodeAddsUp
  <2> QED
    BY <1>7, <1>8, <1>14, <1>15, <1>16, <1>17, <2>1
<1>19. tree'[d].virtualLosses = (IF d = game THEN 0 ELSE VirtualLosses * Cardinality(Inside(d)'))
  <2>1. tree[d].virtualLosses = (IF d = game THEN 0 ELSE VirtualLosses * Cardinality(Inside(d)))
    BY <1>5 DEF NodeAddsUp
  <2>2. CASE d = n /\ d # game
    <3>1. Cardinality(Inside(d)') = Cardinality(Inside(d)) - 1
      BY <1>7, <1>11, <1>12, <2>2, FS_RemoveElement
    <3>2. \A a, b \in Int : a * (b - 1) = a * b - a
      OBVIOUS
    <3>3. VirtualLosses * Cardinality(Inside(d)')
            = VirtualLosses * Cardinality(Inside(d)) - VirtualLosses
      BY <1>6, <1>7, <3>1, <3>2
    <3> QED
      BY <1>1, <2>1, <2>2, <3>3
  <2>3. CASE d = n /\ d = game
    BY <1>1, <1>8, <2>1, <2>3
  <2>4. CASE d # n
    BY <1>1, <1>11, <2>1, <2>4
  <2> QED
    BY <2>2, <2>3, <2>4
<1>20. /\ tree'[d].visits = 0 => (d = game \/ Inside(d)' # {}) /\ Children(tree', d) = {}
       /\ tree'[d].nn => tree'[d].visits > 0
       /\ ~tree'[d].nn => Children(tree', d) = {}
  <2>1. /\ tree[d].visits = 0 => (d = game \/ Inside(d) # {}) /\ Children(tree, d) = {}
        /\ tree[d].nn => tree[d].visits > 0
        /\ ~tree[d].nn => Children(tree, d) = {}
    BY <1>5 DEF NodeAddsUp
  <2>2. CASE d = n
    BY <1>1, <1>8, <1>13, <1>16, <2>1, <2>2
  <2>3. CASE d # n
    BY <1>1, <1>11, <1>13, <2>1, <2>3
  <2> QED
    BY <2>2, <2>3
<1> QED
  BY <1>3, <1>18, <1>19, <1>20 DEF NodeAddsUp

LEMMA CountsKept ==
  ASSUME IInv, NEW t \in Threads, NEW isLeaf \in BOOLEAN, Counts(t, isLeaf)
  PROVE  IInv'
<1> DEFINE n == th[t].at
<1>1. /\ n \in DOMAIN tree /\ n \in Seq(Moves) /\ game \in Seq(Moves) /\ IsPrefix(game, n)
      /\ IsTree(tree) /\ IsTree(tree') /\ DOMAIN tree' = DOMAIN tree
      /\ \A d \in DOMAIN tree : /\ tree'[d].hasEntry = tree[d].hasEntry
                                /\ tree'[d].lastWeight = tree[d].lastWeight
      /\ \A d \in DOMAIN tree : d # n => tree'[d] = tree[d]
      /\ tree'[n].visits = tree[n].visits + 1
  BY CountedTree
<1>2. /\ th' \in [Threads -> ThreadData] /\ \A u \in Threads \ {t} : th'[u] = th[u]
      /\ th'[t].numPlayouts = th[t].numPlayouts
      /\ n = game => th'[t].pc = "count" /\ th'[t].at = n
      /\ n # game => /\ th'[t].pc = "return" /\ th'[t].at = Front(n) /\ Front(n) \in DOMAIN tree
  BY <1>1, CountedThread
<1>3. /\ searching /\ th[t].pc \in InTree
      /\ UNCHANGED <<game, table, searches, searching, playouts, oldVisits>>
  BY DEF Counts, InTree
<1>4. playouts \in Nat /\ oldVisits \in Nat /\ tree[n].visits \in Nat /\ game \in DOMAIN tree
  BY <1>1, <1>3 DEF IInv, TypeOK, IsTree, NodeData, Shape
<1> HIDE DEF n
<1>5. TypeOK'
  BY <1>1, <1>2, <1>3 DEF IInv, TypeOK
<1>6. Shape' /\ Positions'
  <2>1. Shape'
    BY <1>1, <1>3 DEF IInv, Shape, Rooted
  <2>2. Positions'
    BY <1>1, <1>2, <1>3 DEF IInv, Positions, InTree, Up
  <2> QED
    BY <2>1, <2>2
<1>7. NodesAddUp'
  BY <1>5, CountedNodes
<1>8. RootAddsUp'
  <2>1. CASE n = game
    <3>1. Counting' = Counting \cup {t} /\ t \notin Counting /\ IsFiniteSet(Counting)
      BY <1>2, <1>3, <2>1, FS_Subset, SearchAssumption DEF Counting, InTree, Up
    <3>2. Cardinality(Counting') = Cardinality(Counting) + 1 /\ Cardinality(Counting) \in Nat
      BY <3>1, FS_AddElement, FS_CardinalityType
    <3>3. tree[game].visits = oldVisits + playouts + Cardinality(Counting)
      BY <1>3 DEF IInv, RootAddsUp
    <3> QED
      BY <1>1, <1>3, <1>4, <2>1, <3>2, <3>3 DEF RootAddsUp
  <2>2. CASE n # game
    <3>1. tree'[game].visits = tree[game].visits
      BY <1>1, <1>4, <2>2
    <3>2. th[t].pc # "count" /\ th'[t].pc # "count"
      BY <1>2, <1>3, <2>2 DEF InTree, Up
    <3> QED
      BY <1>2, <1>3, <3>1, <3>2, RootStays
  <2> QED
    BY <2>1, <2>2
<1>9. LimitKept'
  <2>1. t \in Unaware /\ th[t].pc # "start" /\ th'[t].pc # "start"
    BY <1>2, <1>3 DEF IInv, LimitKept, InTree, Up
  <2> QED
    BY <1>2, <1>3, <2>1, LimitStays
<1>10. Weighed'
  BY <1>1, <1>3, <1>5, WeightsKept DEF IInv
<1> QED
  BY <1>5, <1>6, <1>7, <1>8, <1>9, <1>10 DEF IInv

\* The tree with the child c of n that a thread enters.
Enters(n, c) ==
  /\ n \in DOMAIN tree /\ n \in Seq(Moves) /\ c \in Seq(Moves) /\ game \in Seq(Moves)
  /\ IsPrefix(game, n) /\ IsPrefix(game, c) /\ Len(c) = Len(n) + 1 /\ Front(c) = n
  /\ c # game
  /\ IsTree(tree) /\ IsTree(tree') /\ DOMAIN tree' = DOMAIN tree \cup {c}
  /\ \A d \in DOMAIN tree : d # c => tree'[d] = tree[d]
  /\ \A p \in Seq(Moves) : IsPrefix(p, c) <=> IsPrefix(p, n) \/ p = c
  /\ tree'[c].hasEntry = HasBiasKey(c)
  /\ c \in DOMAIN tree =>
       /\ tree'[c].visits = tree[c].visits /\ tree'[c].leaf = tree[c].leaf
       /\ tree'[c].virtualLosses = tree[c].virtualLosses + VirtualLosses
       /\ tree'[c].nn = tree[c].nn /\ tree'[c].lastWeight = tree[c].lastWeight
  /\ c \notin DOMAIN tree =>
       /\ tree'[c].visits = 0 /\ tree'[c].leaf = 0 /\ ~tree'[c].nn
       /\ tree'[c].virtualLosses = VirtualLosses /\ tree'[c].lastWeight = 0

LEMMA SelectedTree ==
  ASSUME IInv, NEW t \in Threads, NEW m \in Moves, SelectChild(t, m),
         NEW n, n = th[t].at, NEW c, c = Append(n, m)
  PROVE  Enters(n, c)
<1>1. /\ n \in DOMAIN tree /\ n \in Seq(Moves) /\ game \in Seq(Moves) /\ IsPrefix(game, n)
      /\ IsTree(tree)
  BY DEF IInv, TypeOK, IsTree, Positions, Shape, Rooted, SelectChild, AtNode, At, InTree
<1>2. /\ c \in Seq(Moves) /\ Len(c) = Len(n) + 1 /\ Front(c) = n /\ c # game
      /\ IsPrefix(game, c) /\ \A p \in Seq(Moves) : IsPrefix(p, c) <=> IsPrefix(p, n) \/ p = c
  <2>1. c \in Seq(Moves) /\ Len(c) = Len(n) + 1 /\ Front(c) = n
    BY <1>1, AppendFacts
  <2>2. \A p \in Seq(Moves) : IsPrefix(p, c) <=> IsPrefix(p, n) \/ p = c
    BY <1>1, PrefixOfAppend
  <2>3. c # game
    BY <1>1, <2>1, PrefixMeans
  <2> QED
    BY <1>1, <2>1, <2>2, <2>3
<1> DEFINE child == IF c \in DOMAIN tree THEN tree[c] ELSE NewNode
           z == tree'[c]
<1>3. /\ tree' = With(tree, c, [child EXCEPT !.virtualLosses = @ + VirtualLosses,
                                             !.hasEntry = HasBiasKey(c)])
      /\ child \in NodeData
  <2>1. NewNode \in NodeData
    BY DEF NewNode, NodeData
  <2>2. child \in NodeData
    BY <1>1, <2>1 DEF IsTree
  <2> QED
    BY <2>2 DEF SelectChild
<1>4. /\ DOMAIN tree' = DOMAIN tree \cup {c}
      /\ \A d \in DOMAIN tree : d # c => tree'[d] = tree[d]
      /\ z = [child EXCEPT !.virtualLosses = @ + VirtualLosses, !.hasEntry = HasBiasKey(c)]
      /\ tree' = [d \in DOMAIN tree \cup {c} |-> tree'[d]]
  <2> HIDE DEF child
  <2> QED
    BY <1>3 DEF With
<1>5. HasBiasKey(c) \in BOOLEAN
  BY DEF HasBiasKey
<1> HIDE DEF child, z
<1>6. /\ z \in NodeData /\ z.visits = child.visits /\ z.leaf = child.leaf /\ z.nn = child.nn
      /\ z.virtualLosses = child.virtualLosses + VirtualLosses
      /\ z.lastWeight = child.lastWeight /\ z.hasEntry = HasBiasKey(c)
  <2>1. child.virtualLosses + VirtualLosses \in Int
    BY <1>3, SearchAssumption DEF NodeData
  <2>2. \A h \in BOOLEAN : z = [child EXCEPT !.virtualLosses = @ + VirtualLosses, !.hasEntry = h] =>
          /\ z \in NodeData /\ z.visits = child.visits /\ z.leaf = child.leaf /\ z.nn = child.nn
          /\ z.virtualLosses = child.virtualLosses + VirtualLosses
          /\ z.lastWeight = child.lastWeight /\ z.hasEntry = h
    BY <1>3, <2>1 DEF NodeData
  <2> QED
    BY <1>4, <1>5, <2>2
<1>7. IsTree(tree')
  <2>1. IsFiniteSet(DOMAIN tree \cup {c})
    BY <1>1, FS_AddElement DEF IsTree
  <2>2. \A d \in DOMAIN tree \cup {c} : tree'[d] \in NodeData
    BY <1>1, <1>4, <1>6 DEF z, IsTree
  <2>3. DOMAIN tree \cup {c} \subseteq Seq(Moves)
    BY <1>1, <1>2 DEF IsTree
  <2> QED
    BY <1>4, <2>1, <2>2, <2>3 DEF IsTree
<1>8. VirtualLosses \in Nat
  BY SearchAssumption
<1>9. c \in DOMAIN tree =>
        /\ z.visits = tree[c].visits /\ z.leaf = tree[c].leaf
        /\ z.virtualLosses = tree[c].virtualLosses + VirtualLosses
        /\ z.nn = tree[c].nn /\ z.lastWeight = tree[c].lastWeight
  BY <1>6 DEF child
<1>10. c \notin DOMAIN tree =>
         /\ z.visits = 0 /\ z.leaf = 0 /\ ~z.nn
         /\ z.virtualLosses = VirtualLosses /\ z.lastWeight = 0
  BY <1>6, <1>8 DEF child, NewNode
<1> QED
  BY <1>1, <1>2, <1>4, <1>6, <1>7, <1>9, <1>10 DEF z, Enters

LEMMA SelectedNodes ==
  ASSUME IInv, TypeOK', NEW t \in Threads, NEW m \in Moves, SelectChild(t, m)
  PROVE  NodesAddUp'
<1>a. PICK n : n = th[t].at
  OBVIOUS
<1>b. PICK c : c = Append(n, m)
  OBVIOUS
<1>c. Enters(n, c)
  BY <1>a, <1>b, SelectedTree
<1>1. /\ n \in DOMAIN tree /\ n \in Seq(Moves) /\ c \in Seq(Moves) /\ game \in Seq(Moves)
      /\ IsPrefix(game, n) /\ IsPrefix(game, c) /\ Len(c) = Len(n) + 1 /\ Front(c) = n
      /\ c # game
      /\ IsTree(tree) /\ IsTree(tree') /\ DOMAIN tree' = DOMAIN tree \cup {c}
      /\ \A d \in DOMAIN tree : d # c => tree'[d] = tree[d]
      /\ \A p \in Seq(Moves) : IsPrefix(p, c) <=> IsPrefix(p, n) \/ p = c
      /\ c \in DOMAIN tree =>
           /\ tree'[c].visits = tree[c].visits /\ tree'[c].leaf = tree[c].leaf
           /\ tree'[c].virtualLosses = tree[c].virtualLosses + VirtualLosses
           /\ tree'[c].nn = tree[c].nn
      /\ c \notin DOMAIN tree =>
           /\ tree'[c].visits = 0 /\ tree'[c].leaf = 0 /\ ~tree'[c].nn
           /\ tree'[c].virtualLosses = VirtualLosses
  BY <1>c DEF Enters
<1>2. /\ game' = game /\ tree[n].nn /\ th[t].pc = "descend" /\ th[t].at = n
      /\ \A u \in Threads \ {t} : th'[u] = th[u]
      /\ th'[t].pc = "descend" /\ th'[t].at = c
  <2>1. th \in [Threads -> ThreadData]
    BY DEF IInv, TypeOK
  <2>2. th' = [th EXCEPT ![t].pc = "descend", ![t].at = c]
    BY <1>a, <1>b DEF SelectChild
  <2>3. th'[t].pc = "descend" /\ th'[t].at = c /\ \A u \in Threads \ {t} : th'[u] = th[u]
    BY <2>1, <2>2 DEF ThreadData
  <2> QED
    BY <1>a, <2>3 DEF SelectChild, AtNode, At
<1>3. \A u \in Threads : th[u].pc \in InTree \cup {"start", "check", "count", "done"}
  BY DEF IInv, TypeOK, ThreadData
<1>4. IsFiniteSet(Threads) /\ VirtualLosses \in Nat
  BY SearchAssumption
<1>5. \A d : IsFiniteSet(Inside(d)) /\ Cardinality(Inside(d)) \in Nat
  BY <1>4, FS_Subset, FS_CardinalityType DEF Inside
\* Nobody has been in the subtree of a new child.
<1>6. c \notin DOMAIN tree => \A p \in DOMAIN tree : ~IsPrefix(c, p)
  BY <1>1 DEF IInv, Shape, Rooted
<1>7. c \notin DOMAIN tree => \A u \in Threads : th[u].pc \in InTree => ~IsPrefix(c, th[u].at)
  BY <1>6 DEF IInv, Positions
\* Who returns, and who is inside.
<1>8. \A d : Returning(d)' = Returning(d)
  BY <1>2 DEF Returning
<1>9. \A d \in Seq(Moves) : Inside(d)' = IF d = c THEN Inside(d) \cup {t} ELSE Inside(d)
  <2> TAKE d \in Seq(Moves)
  <2>1. \A u \in Threads \ {t} : u \in Inside(d)' <=> u \in Inside(d)
    BY <1>2 DEF Inside
  <2>2. t \in Inside(d) <=> IsPrefix(d, n)
    BY <1>2 DEF Inside
  <2>3. t \in Inside(d)' <=> IsPrefix(d, n) \/ d = c
    BY <1>1, <1>2 DEF Inside
  <2>4. Inside(d) \subseteq Threads /\ Inside(d)' \subseteq Threads
    BY DEF Inside
  <2>5. \A u \in Threads : u \in Inside(d)' <=> u \in Inside(d) \/ (u = t /\ d = c)
    BY <2>1, <2>2, <2>3
  <2> QED
    BY <2>4, <2>5
<1>10. t \notin Inside(c)
  <2>1. ~IsPrefix(c, n)
    BY <1>1, PrefixMeans
  <2> QED
    BY <1>2, <2>1 DEF Inside
<1>11. VirtualLosses * Cardinality(Inside(c)')
         = VirtualLosses * Cardinality(Inside(c)) + VirtualLosses
  <2>0. Inside(c)' = Inside(c) \cup {t} /\ IsFiniteSet(Inside(c))
    BY <1>1, <1>5, <1>9
  <2>1. Cardinality(Inside(c)') = Cardinality(Inside(c)) + 1
    BY <1>10, <2>0, FS_AddElement
  <2>2. \A a, b \in Int : a * (b + 1) = a * b + a
    OBVIOUS
  <2> QED
    BY <1>4, <1>5, <2>1, <2>2
<1>12. ASSUME NEW d \in DOMAIN tree PROVE NodeAddsUp(d)'
  <2>1. NodeAddsUp(d) /\ d \in Seq(Moves)
    BY <1>1, <1>12 DEF IInv, NodesAddUp, IsTree
  <2>2. /\ tree[d].visits \in Nat /\ tree[d].virtualLosses \in Int
        /\ VisitsOf(tree, Children(tree, d)) \in Nat
    BY <1>1, <1>12, VisitsNat DEF IsTree, NodeData, Children
  <2>3. /\ tree'[d].visits = tree[d].visits /\ tree'[d].leaf = tree[d].leaf
        /\ tree'[d].nn = tree[d].nn
        /\ tree'[d].virtualLosses = tree[d].virtualLosses + (IF d = c THEN VirtualLosses ELSE 0)
    BY <1>1, <1>12, <2>2
  <2>4. Children(tree', d) = Children(tree, d) \cup (IF d = n THEN {c} ELSE {})
    BY <1>1, <1>12 DEF Children
  <2>5. VisitsOf(tree', Children(tree', d)) = VisitsOf(tree, Children(tree, d))
    <3> DEFINE C == Children(tree, d)
    <3>1. C \subseteq DOMAIN tree /\ C \subseteq DOMAIN tree'
      BY <1>1 DEF Children
    <3>2. \A x \in C : tree'[x].visits = tree[x].visits
      BY <1>1, <3>1
    <3> HIDE DEF C
    <3>3. VisitsOf(tree', C) = VisitsOf(tree, C)
      BY <1>1, <3>1, <3>2, VisitsSame
    <3>4. CASE d # n \/ c \in DOMAIN tree
      <4>1. Children(tree', d) = C
        <5>1. c \in DOMAIN tree => c \in Children(tree, n)
          BY <1>1 DEF Children
        <5> QED
          BY <2>4, <3>4, <5>1 DEF C
      <4> QED
        BY <3>3, <4>1 DEF C
    <3>5. CASE d = n /\ c \notin DOMAIN tree
      <4>1. Children(tree', d) = C \cup {c} /\ c \notin C /\ c \in DOMAIN tree'
        BY <1>1, <2>4, <3>1, <3>5 DEF C
      <4>2. VisitsOf(tree', C \cup {c}) = VisitsOf(tree', C) + tree'[c].visits
        BY <1>1, <3>1, <4>1, VisitsInsert
      <4>3. tree'[c].visits = 0 /\ VisitsOf(tree, C) \in Nat
        BY <1>1, <2>2, <3>5 DEF C
      <4> QED
        BY <3>3, <4>1, <4>2, <4>3 DEF C
    <3> QED
      BY <3>4, <3>5
  <2>6. tree'[d].visits + Cardinality(Returning(d)')
          = tree'[d].leaf + VisitsOf(tree', Children(tree', d))
    BY <1>8, <2>1, <2>3, <2>5 DEF NodeAddsUp
  <2>7. tree'[d].virtualLosses = (IF d = game THEN 0 ELSE VirtualLosses * Cardinality(Inside(d)'))
    <3>1. tree[d].virtualLosses = (IF d = game THEN 0 ELSE VirtualLosses * Cardinality(Inside(d)))
      BY <2>1 DEF NodeAddsUp
    <3>2. CASE d = c
      BY <1>1, <1>11, <2>3, <3>1, <3>2
    <3>3. CASE d # c
      <4>1. Inside(d)' = Inside(d)
        BY <1>9, <2>1, <3>3
      <4> QED
        BY <2>2, <2>3, <3>1, <3>3, <4>1
    <3> QED
      BY <3>2, <3>3
  <2>8. /\ tree'[d].visits = 0 => (d = game \/ Inside(d)' # {}) /\ Children(tree', d) = {}
        /\ tree'[d].nn => tree'[d].visits > 0
        /\ ~tree'[d].nn => Children(tree', d) = {}
    <3>1. /\ tree[d].visits = 0 => (d = game \/ Inside(d) # {}) /\ Children(tree, d) = {}
          /\ tree[d].nn => tree[d].visits > 0
          /\ ~tree[d].nn => Children(tree, d) = {}
      BY <2>1 DEF NodeAddsUp
    <3>2. Inside(d) \subseteq Inside(d)'
      BY <1>9, <2>1
    <3>3. CASE d = n
      BY <1>2, <2>2, <2>3, <3>1, <3>3
    <3>4. CASE d # n
      BY <2>3, <2>4, <3>1, <3>2, <3>4
    <3> QED
      BY <3>3, <3>4
  <2> QED
    BY <1>2, <2>6, <2>7, <2>8 DEF NodeAddsUp
<1>13. ASSUME c \notin DOMAIN tree PROVE NodeAddsUp(c)'
  <2>1. Returning(c)' = {}
    <3>1. \A u \in Threads : th[u].pc \in InTree => th[u].at # c
      BY <1>13 DEF IInv, Positions
    <3>2. Returning(c) = {}
      BY <3>1 DEF Returning, InTree, Up
    <3> QED
      BY <1>8, <3>2
  <2>2. Children(tree', c) = {}
    <3> SUFFICES ASSUME NEW x \in Children(tree', c) PROVE FALSE
      OBVIOUS
    <3>1. x \in DOMAIN tree' /\ Len(x) = Len(c) + 1 /\ Front(x) = c /\ x \in Seq(Moves)
      BY <1>1 DEF Children, IsTree
    <3>2. PICK y \in Moves : x = Append(c, y)
      BY <1>1, <3>1, ChildIs
    <3>3. IsPrefix(c, x) /\ x # c
      BY <1>1, <3>2, AppendFacts
    <3> QED
      BY <1>1, <1>6, <1>13, <3>1, <3>3
  <2>3. VisitsOf(tree', {}) = 0 /\ Cardinality({}) = 0
    BY SumEmpty, FS_EmptySet DEF VisitsOf
  <2>4. Inside(c) = {}
    <3>1. \A u \in Threads : th[u].pc \in InTree => ~IsPrefix(c, th[u].at)
      BY <1>7, <1>13
    <3> QED
      BY <1>3, <3>1 DEF Inside
  <2>5. Inside(c)' # {} /\ VirtualLosses * Cardinality(Inside(c)') = VirtualLosses
    <3>1. VirtualLosses * 0 = 0 /\ 0 + VirtualLosses = VirtualLosses
      BY <1>4
    <3> QED
      BY <1>1, <1>9, <1>11, <2>3, <2>4, <3>1
  <2>6. /\ tree'[c].visits = 0 /\ tree'[c].leaf = 0 /\ ~tree'[c].nn
        /\ tree'[c].virtualLosses = VirtualLosses
    BY <1>1, <1>13
  <2>7. tree'[c].visits + Cardinality(Returning(c)')
          = tree'[c].leaf + VisitsOf(tree', Children(tree', c))
    BY <2>1, <2>2, <2>3, <2>6
  <2> QED
    BY <1>1, <1>2, <2>2, <2>5, <2>6, <2>7 DEF NodeAddsUp
<1> QED
  BY <1>1, <1>12, <1>13 DEF NodesAddUp

LEMMA SelectKept ==
  ASSUME IInv, NEW t \in Threads, NEW m \in Moves, SelectChild(t, m)
  PROVE  IInv'
<1>a. PICK n : n = th[t].at
  OBVIOUS
<1>b. PICK c : c = Append(n, m)
  OBVIOUS
<1>c. Enters(n, c)
  BY <1>a, <1>b, SelectedTree
<1>1. /\ n \in DOMAIN tree /\ n \in Seq(Moves) /\ c \in Seq(Moves) /\ game \in Seq(Moves)
      /\ IsPrefix(game, n) /\ IsPrefix(game, c) /\ c # game
      /\ IsTree(tree) /\ IsTree(tree') /\ DOMAIN tree' = DOMAIN tree \cup {c}
      /\ \A d \in DOMAIN tree : d # c => tree'[d] = tree[d]
      /\ \A p \in Seq(Moves) : IsPrefix(p, c) <=> IsPrefix(p, n) \/ p = c
      /\ tree'[c].hasEntry = HasBiasKey(c)
      /\ c \in DOMAIN tree => tree'[c].lastWeight = tree[c].lastWeight
      /\ c \notin DOMAIN tree => tree'[c].lastWeight = 0
  BY <1>c DEF Enters
<1>2. /\ searching /\ th[t].pc = "descend" /\ table \in [DOMAIN table -> Int]
      /\ UNCHANGED <<game, searches, searching, playouts, oldVisits>>
      /\ table' = IF HasBiasKey(c) /\ BiasKey(c) \notin DOMAIN table
                  THEN With(table, BiasKey(c), 0) ELSE table
  BY <1>a, <1>b DEF IInv, TypeOK, SelectChild, AtNode, At
<1>3. /\ th' \in [Threads -> ThreadData] /\ \A u \in Threads \ {t} : th'[u] = th[u]
      /\ th'[t].pc = "descend" /\ th'[t].at = c /\ th'[t].numPlayouts = th[t].numPlayouts
  <2>1. th \in [Threads -> ThreadData]
    BY DEF IInv, TypeOK
  <2>2. th' = [th EXCEPT ![t].pc = "descend", ![t].at = c]
    BY <1>a, <1>b DEF SelectChild
  <2> QED
    BY <1>1, <2>1, <2>2 DEF ThreadData, InTree
<1>4. /\ table' \in [DOMAIN table' -> Int] /\ DOMAIN table \subseteq DOMAIN table'
      /\ \A k \in DOMAIN table : table'[k] = table[k]
      /\ \A k \in DOMAIN table' : k \notin DOMAIN table => k = BiasKey(c) /\ table'[k] = 0
      /\ HasBiasKey(c) => BiasKey(c) \in DOMAIN table'
  BY <1>2 DEF With
<1>5. TypeOK'
  BY <1>1, <1>2, <1>3, <1>4 DEF IInv, TypeOK
<1>6. Shape'
  <2>1. ASSUME NEW d \in DOMAIN tree', NEW p \in Seq(Moves), IsPrefix(game, p), IsPrefix(p, d)
        PROVE  p \in DOMAIN tree'
    <3>1. CASE d \in DOMAIN tree
      BY <1>1, <2>1, <3>1 DEF IInv, Shape, Rooted
    <3>2. CASE d = c
      <4>1. IsPrefix(p, n) \/ p = c
        BY <1>1, <2>1, <3>2
      <4> QED
        BY <1>1, <2>1, <4>1 DEF IInv, Shape, Rooted
    <3> QED
      BY <1>1, <3>1, <3>2
  <2>2. \A d \in DOMAIN tree' : IsPrefix(game, d)
    BY <1>1 DEF IInv, Shape, Rooted
  <2> QED
    BY <1>1, <1>2, <2>1, <2>2 DEF IInv, Shape, Rooted
<1>7. Positions'
  BY <1>1, <1>2, <1>3 DEF IInv, Positions
<1>8. NodesAddUp'
  BY <1>5, SelectedNodes
<1>9. RootAddsUp'
  <2>1. tree'[game] = tree[game]
    BY <1>1, <1>2 DEF IInv, Shape
  <2> QED
    BY <1>2, <1>3, <2>1, RootStays
<1>10. LimitKept'
  <2>1. t \in Unaware
    BY <1>2 DEF IInv, LimitKept, InTree, Up
  <2> QED
    BY <1>2, <1>3, <2>1, LimitStays
<1>11. Weighed'
  \* The weights are those of before: the child had no weight if it had no entry.
  <2>1. \A d \in DOMAIN tree : tree'[d].lastWeight = tree[d].lastWeight
    BY <1>1
  <2>2. \A d \in DOMAIN tree : tree[d].hasEntry => tree'[d].hasEntry
    <3>1. c \in DOMAIN tree /\ tree[c].hasEntry => HasBiasKey(c)
      BY DEF IInv, Weighed
    <3> QED
      BY <1>1, <3>1
  <2>3. \A d \in DOMAIN tree : tree'[d].hasEntry /\ ~tree[d].hasEntry => d = c
    BY <1>1
  <2>4. (c \notin DOMAIN tree \/ ~tree[c].hasEntry) => tree'[c].lastWeight = 0
    BY <1>1 DEF IInv, Weighed
  <2>5. \A k : WeightsOf(tree', Sharing(tree', DOMAIN tree', k))
                 = WeightsOf(tree, Sharing(tree, DOMAIN tree, k))
    <3> TAKE k
    <3> DEFINE S == Sharing(tree, DOMAIN tree, k)
               T == Sharing(tree', DOMAIN tree', k)
    <3>1. S \subseteq DOMAIN tree /\ S \subseteq DOMAIN tree' /\ T \subseteq DOMAIN tree'
      BY <1>1 DEF Sharing
    <3>2. T = S \/ (T = S \cup {c} /\ c \notin S /\ tree'[c].lastWeight = 0)
      <4>1. \A d \in DOMAIN tree : d # c => (d \in T <=> d \in S)
        BY <1>1 DEF Sharing
      <4>2. c \in S => c \in T
        BY <1>1, <2>2 DEF Sharing
      <4>3. c \in T /\ c \notin S => c \notin DOMAIN tree \/ ~tree[c].hasEntry
        BY DEF Sharing
      <4>4. c \in T /\ c \notin S => tree'[c].lastWeight = 0
        BY <2>4, <4>3
      <4> HIDE DEF S, T
      <4>5. \A d \in DOMAIN tree' : d # c => (d \in T <=> d \in S)
        BY <1>1, <4>1
      <4>6. c \in T <=> c \in S \/ (c \in T /\ c \notin S)
        BY <4>2
      <4> QED
        BY <3>1, <4>4, <4>5, <4>6
    <3> HIDE DEF S, T
    <3>3. WeightsOf(tree', S) = WeightsOf(tree, S)
      BY <1>1, <2>1, <3>1, VisitsSame
    <3>4. WeightsOf(tree', S) \in Nat
      BY <1>1, <3>1, VisitsNat
    <3>5. T = S \cup {c} /\ c \notin S =>
            WeightsOf(tree', T) = WeightsOf(tree', S) + tree'[c].lastWeight
      <4>1. c \in DOMAIN tree'
        BY <1>1
      <4>2. c \notin S => WeightsOf(tree', S \cup {c}) = WeightsOf(tree', S) + tree'[c].lastWeight
        BY <1>1, <3>1, <4>1, VisitsInsert
      <4> QED
        BY <4>2
    <3>6. WeightsOf(tree', T) = WeightsOf(tree, S)
      BY <3>2, <3>3, <3>4, <3>5
    <3> QED
      BY <3>6 DEF S, T
  <2>6. \A k \in DOMAIN table : WeighsRight(k)'
    BY <1>2, <1>4, <2>5 DEF IInv, Weighed, WeighsRight
  \* An entry that is made now belongs to no other node.
  <2>7. \A k \in DOMAIN table' : k \notin DOMAIN table => WeighsRight(k)'
    <3> TAKE k \in DOMAIN table'
    <3>1. HAVE k \notin DOMAIN table
    <3>2. Sharing(tree, DOMAIN tree, k) = {}
      BY <3>1 DEF IInv, Weighed, Sharing
    <3>3. WeightsOf(tree, {}) = 0
      BY SumEmpty DEF WeightsOf
    <3> QED
      BY <1>4, <2>5, <3>1, <3>2, <3>3 DEF WeighsRight
  <2>8. \A k \in DOMAIN table' : WeighsRight(k)'
    BY <2>6, <2>7
  <2>9. \A d \in DOMAIN tree' : IF tree'[d].hasEntry
                                  THEN HasBiasKey(d) /\ BiasKey(d) \in DOMAIN table'
                                  ELSE tree'[d].lastWeight = 0
    <3> TAKE d \in DOMAIN tree'
    <3>1. CASE d = c
      <4>1. ~HasBiasKey(c) => tree'[c].lastWeight = 0
        BY <1>1, <2>2, <2>4
      <4> QED
        BY <1>1, <1>4, <3>1, <4>1
    <3>2. CASE d # c
      <4>1. d \in DOMAIN tree /\ tree'[d] = tree[d]
        BY <1>1, <3>2
      <4> QED
        BY <1>4, <4>1 DEF IInv, Weighed
    <3> QED
      BY <3>1, <3>2
  <2> QED
    BY <2>8, <2>9 DEF Weighed
<1> QED
  BY <1>5, <1>6, <1>7, <1>8, <1>9, <1>10, <1>11 DEF IInv

-----------------------------------------------------------------------------
(* The theorems                                                            *)

LEMMA NextKept == IInv /\ [Next]_vars => IInv'
<1> SUFFICES ASSUME IInv, [Next]_vars PROVE IInv'
  OBVIOUS
<1>1. CASE clearSearch
  BY <1>1, ClearKept
<1>2. ASSUME NEW m \in Moves, makeMove(m) PROVE IInv'
  BY <1>2, MoveKept
<1>3. ASSUME NEW refused, beginSearch(refused) PROVE IInv'
  BY <1>3, BeginKept
<1>4. ASSUME NEW t \in Threads, ThreadStep(t) PROVE IInv'
  <2>1. CASE StartThread(t) \/ Stop(t) \/ StartPlayout(t)
    BY <2>1, LoopKept
  <2>2. CASE CountPlayout(t)
    BY <2>2, CountKept
  <2>3. CASE HitTerminal(t) \/ FinishEvaluation(t) \/ VisitAgain(t) \/ WriteStats(t)
    <3>1. PICK isLeaf \in BOOLEAN : Counts(t, isLeaf)
      BY <2>3, VisitsCount
    <3> QED
      BY <3>1, CountsKept
  <2>4. CASE HitLeaf(t) \/ GetStuck(t) \/ ReadChildren(t)
    BY <2>4, LookKept
  <2>5. ASSUME NEW m \in Moves, SelectChild(t, m) PROVE IInv'
    BY <2>5, SelectKept
  <2>6. CASE UpdateBias(t)
    BY <2>6, BiasKept
  <2> QED
    BY <1>4, <2>1, <2>2, <2>3, <2>4, <2>5, <2>6 DEF ThreadStep
<1>5. CASE endSearch
  BY <1>5, EndKept
<1>6. CASE AskToStop
  BY <1>6, StutterKept DEF AskToStop
<1>7. CASE UNCHANGED vars
  BY <1>7, StutterKept DEF vars
<1> QED
  BY <1>1, <1>2, <1>3, <1>4, <1>5, <1>6, <1>7 DEF Next

\* The inductive invariant holds of every search: the tree is well shaped, threads are
\* where they can be, and visits, virtual losses and weights are where they belong.
THEOREM Invariance == Spec => []IInv
<1>1. Init => IInv
  BY InitIInv
<1>2. IInv /\ [Next]_vars => IInv'
  BY NextKept
<1> QED
  BY <1>1, <1>2, PTL DEF Spec

\* Every playout is counted once on its whole path, virtual losses are taken back, and a
\* search goes beyond its visits by less than its number of threads.
THEOREM VisitsAddUpAlways == Spec => []VisitsAddUp
<1>1. IInv => VisitsAddUp
  <2> SUFFICES ASSUME IInv PROVE VisitsAddUp
    OBVIOUS
  <2>1. \A n \in DOMAIN tree :
          /\ tree[n].visits + Cardinality(Returning(n))
               = tree[n].leaf + VisitsOf(tree, Children(tree, n))
          /\ tree[n].virtualLosses
               = (IF n = game THEN 0 ELSE VirtualLosses * Cardinality(Inside(n)))
          /\ tree[n].visits = 0 => (n = game \/ Inside(n) # {}) /\ Children(tree, n) = {}
          /\ tree[n].nn => tree[n].visits > 0
          /\ ~tree[n].nn => Children(tree, n) = {}
    BY DEF IInv, NodesAddUp, NodeAddsUp
  <2>2. searching => tree[game].visits = oldVisits + playouts
                       + Cardinality({t \in Threads : th[t].pc = "count"})
    BY DEF IInv, RootAddsUp, Counting
  <2>3. ASSUME searching PROVE playouts <= Bound
    <3>1. playouts \in Nat /\ PlayoutsAllowed \in Nat
      BY <2>3, OneLimit DEF IInv, TypeOK
    <3>2. /\ Cardinality(Unaware) \in Nat
          /\ Cardinality(Threads) \in Nat /\ Cardinality(Threads) >= 1
      BY SearchAssumption, FS_Subset, FS_CardinalityType, FS_EmptySet DEF Unaware
    <3>3. Bound \in Int /\ Bound >= PlayoutsAllowed
      BY <3>1, <3>2 DEF Bound
    <3>4. playouts >= PlayoutsAllowed => playouts + Cardinality(Unaware) <= Bound
      BY <2>3 DEF IInv, LimitKept
    <3> QED
      BY <3>1, <3>2, <3>3, <3>4
  <2> QED
    BY <2>1, <2>2, <2>3 DEF VisitsAddUp, Bound
<1> QED
  BY <1>1, Invariance, PTL

\* The bias table has the weights of the nodes of the tree, and of no others.
THEOREM BiasConservedAlways == Spec => []BiasConserved
<1>1. IInv => BiasConserved
  BY DEF IInv, Weighed, WeighsRight, BiasConserved
<1> QED
  BY <1>1, Invariance, PTL
=============================================================================
