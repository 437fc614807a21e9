----------------------------- MODULE GoGameProofs -----------------------------
(***************************************************************************)
(* Of GoGame, for boards of any size, games of any length and rings of     *)
(* any size: ChainsAreGroups and RefinesRules as long as no recorded move  *)
(* is taken back, and HistoryTellsGame.                                    *)
(*                                                                         *)
(* The board first.  GoodBoard says of a board all that its operations     *)
(* rely on; BoardOK says it of a board in the middle of a move, with the   *)
(* point of the new stone, the chains of its colour it has not been joined *)
(* to yet, and the opponent's chains that still count it as a liberty.     *)
(* Plays says exactly what a move does, and Living that every chain of a   *)
(* board has a liberty.  Then the groups of GoRules are shown to be the    *)
(* chains, and Plays the move of GoRules; and at last the history of a     *)
(* game.                                                                   *)
(***************************************************************************)
EXTENDS GoGame, FiniteSetTheorems, WellFoundedInduction, TLAPS

-----------------------------------------------------------------------------
(* Induction, and the functions that are defined by recursion              *)

LEMMA ByInduction ==
  ASSUME NEW T, T \subseteq Nat, 0 \in T, \A n \in T : n + 1 \in T
  PROVE  T = Nat
<1> DEFINE Less == OpToRel(<, Nat)
<1>1. IsWellFoundedOn(Less, Nat)
  BY NatLessThanWellFounded
<1> SUFFICES ASSUME Nat \ T # {} PROVE FALSE
  OBVIOUS
<1>2. \A y, x \in Nat : y < x => <<y, x>> \in Less
  BY DEF OpToRel
<1>3. PICK x \in Nat \ T : \A y \in Nat \ T : <<y, x>> \notin Less
  <2> HIDE DEF Less
  <2>1. Nat \ T \subseteq Nat
    OBVIOUS
  <2> QED
    BY <1>1, <2>1, WFMin
<1> HIDE DEF Less
<1>4. x \in Nat /\ x # 0
  OBVIOUS
<1>5. PICK y \in Nat : x = y + 1
  BY <1>4
<1>6. y < x /\ x \in Nat
  BY <1>4, <1>5
<1>7. <<y, x>> \in Less
  BY <1>2, <1>6
<1>8. y \in T
  BY <1>3, <1>7
<1> QED
  BY <1>5, <1>8

\* The first n values of the function that starts at s and takes F for its next value.
Approximates(f, F, s, n) ==
  f[0] = s /\ \A i \in 0 .. n - 1 : f[i + 1] = F[<<i + 1, f[i]>>]

LEMMA ApproximationsExist ==
  ASSUME NEW S, NEW s \in S, NEW F \in [Nat \X S -> S], NEW n \in Nat
  PROVE  \E f \in [0 .. n -> S] : Approximates(f, F, s, n)
<1> DEFINE T == {k \in Nat : \E f \in [0 .. k -> S] : Approximates(f, F, s, k)}
<1>1. 0 \in T
  <2> DEFINE f == [i \in 0 .. 0 |-> s]
  <2>1. f \in [0 .. 0 -> S] /\ Approximates(f, F, s, 0)
    BY DEF Approximates
  <2> QED
    BY <2>1
<1>2. ASSUME NEW k \in T PROVE k + 1 \in T
  <2>1. PICK f \in [0 .. k -> S] : Approximates(f, F, s, k)
    OBVIOUS
  <2> DEFINE g == [i \in 0 .. k + 1 |-> IF i = k + 1 THEN F[<<k + 1, f[k]>>] ELSE f[i]]
  <2>2. g \in [0 .. k + 1 -> S]
    <3>1. <<k + 1, f[k]>> \in Nat \X S
      OBVIOUS
    <3> QED
      BY <3>1
  <2>3. Approximates(g, F, s, k + 1)
    <3>1. g[0] = s
      BY <2>1 DEF Approximates
    <3>2. ASSUME NEW i \in 0 .. (k + 1) - 1 PROVE g[i + 1] = F[<<i + 1, g[i]>>]
      <4>1. CASE i = k
        <5>1. k \in 0 .. k + 1 /\ k + 1 \in 0 .. k + 1 /\ k # k + 1
          OBVIOUS
        <5>2. g[k + 1] = F[<<k + 1, f[k]>>] /\ g[k] = f[k]
          BY <5>1
        <5> QED
          BY <4>1, <5>2
      <4>2. CASE i # k
        <5>1. i \in 0 .. k - 1 /\ i + 1 \in 0 .. k /\ i + 1 # k + 1
          BY <4>2
        <5> QED
          BY <2>1, <5>1 DEF Approximates
      <4> QED
        BY <4>1, <4>2
    <3> QED
      BY <3>1, <3>2 DEF Approximates
  <2> QED
    BY <2>2, <2>3
<1>3. T = Nat
  <2> HIDE DEF T
  <2>1. T \subseteq Nat
    BY DEF T
  <2> QED
    BY <1>1, <1>2, <2>1, ByInduction
<1> QED
  BY <1>3

LEMMA ApproximationsAgree ==
  ASSUME NEW F, NEW s, NEW m \in Nat, NEW n \in Nat, NEW f, NEW g,
         Approximates(f, F, s, m), Approximates(g, F, s, n), NEW i \in Nat, i <= m, i <= n
  PROVE  f[i] = g[i]
<1> DEFINE T == {k \in Nat : k <= m /\ k <= n => f[k] = g[k]}
<1>1. 0 \in T
  BY DEF Approximates
<1>2. ASSUME NEW k \in T PROVE k + 1 \in T
  <2> SUFFICES ASSUME k + 1 <= m, k + 1 <= n PROVE f[k + 1] = g[k + 1]
    OBVIOUS
  <2>1. k \in 0 .. m - 1 /\ k \in 0 .. n - 1 /\ f[k] = g[k]
    OBVIOUS
  <2> QED
    BY <2>1 DEF Approximates
<1>3. T = Nat
  <2> HIDE DEF T
  <2>1. T \subseteq Nat
    BY DEF T
  <2> QED
    BY <1>1, <1>2, <2>1, ByInduction
<1> QED
  BY <1>3

Follows(g, F, s) == g[0] = s /\ \A n \in Nat : g[n + 1] = F[<<n + 1, g[n]>>]

LEMMA RecursionExists ==
  ASSUME NEW S, NEW s \in S, NEW F \in [Nat \X S -> S]
  PROVE  \E g \in [Nat -> S] : Follows(g, F, s)
<1> DEFINE a(n) == CHOOSE f \in [0 .. n -> S] : Approximates(f, F, s, n)
           g == [n \in Nat |-> a(n)[n]]
<1>1. \A n \in Nat : a(n) \in [0 .. n -> S] /\ Approximates(a(n), F, s, n)
  BY ApproximationsExist
<1> HIDE DEF a
<1>2. g \in [Nat -> S]
  BY <1>1
<1>3. g[0] = s
  BY <1>1 DEF Approximates
<1>4. ASSUME NEW n \in Nat PROVE g[n + 1] = F[<<n + 1, g[n]>>]
  <2>1. a(n + 1)[n + 1] = F[<<n + 1, a(n + 1)[n]>>]
    <3>1. n + 1 \in Nat /\ n \in 0 .. (n + 1) - 1
      OBVIOUS
    <3> QED
      BY <1>1, <3>1 DEF Approximates
  <2>2. a(n + 1)[n] = a(n)[n]
    <3>1. n + 1 \in Nat /\ n <= n + 1 /\ n <= n
      OBVIOUS
    <3> QED
      BY <1>1, <3>1, ApproximationsAgree
  <2> QED
    BY <2>1, <2>2
<1> QED
  BY <1>2, <1>3, <1>4 DEF Follows

-----------------------------------------------------------------------------
(* Circular lists                                                          *)

\* The list next runs round C: it stays in C and through nothing less than C.
CircularOn(next, C) ==
  /\ \A l \in C : next[l] \in C
  /\ \A S \in SUBSET C : S # {} /\ (\A l \in S : next[l] \in S) => S = C

\* The sequence s is the list round C from loc.
Lists(s, next, C, loc) ==
  /\ s \in Seq(C) /\ Len(s) \in Nat \ {0} /\ Len(s) = Cardinality(C)
  /\ ToSet(s) = C
  /\ s[1] = loc
  /\ \A i, j \in 1 .. Len(s) : s[i] = s[j] => i = j
  /\ Last(s) \in C /\ next[Last(s)] = loc

LEMMA Least ==
  ASSUME NEW T, T \subseteq Nat, T # {}
  PROVE  \E n \in T : \A m \in T : n <= m
<1> SUFFICES ASSUME \A n \in T : \E m \in T : m < n PROVE FALSE
  OBVIOUS
<1> DEFINE U == {k \in Nat : \A i \in 0 .. k : i \notin T}
<1>1. 0 \in U
  OBVIOUS
<1>2. ASSUME NEW k \in U PROVE k + 1 \in U
  <2>1. k + 1 \notin T
    OBVIOUS
  <2> QED
    BY <2>1
<1>3. U = Nat
  <2> HIDE DEF U
  <2>1. U \subseteq Nat
    BY DEF U
  <2> QED
    BY <1>1, <1>2, <2>1, ByInduction
<1>4. PICK n \in T : n \in Nat
  OBVIOUS
<1>5. n \in U /\ n \in 0 .. n
  BY <1>3, <1>4
<1> QED
  BY <1>5

\* stone comes back to loc after n steps, when it has been everywhere in C once.
Rounds(n, stone, C, loc) ==
  /\ stone[n] = loc /\ \A i \in 1 .. n - 1 : stone[i] # loc
  /\ n = Cardinality(C)
  /\ \A l \in C : \E i \in 0 .. n - 1 : stone[i] = l
  /\ \A i, j \in 0 .. n - 1 : stone[i] = stone[j] => i = j

\* From any point of C the list comes back to it, after every other point once.
LEMMA RoundTrip ==
  ASSUME NEW C, IsFiniteSet(C), NEW next, CircularOn(next, C), NEW loc \in C,
         NEW stone \in [Nat -> C], stone[0] = loc, \A n \in Nat : stone[n + 1] = next[stone[n]]
  PROVE  \E n \in Nat \ {0} : Rounds(n, stone, C, loc)
<1>1. \E n \in Nat \ {0} : stone[n] = loc
  <2> DEFINE S == {stone[n] : n \in Nat \ {0}}
  <2>1. S \in SUBSET C /\ S # {}
    <3>1. 1 \in Nat \ {0}
      OBVIOUS
    <3> QED
      BY <3>1
  <2>2. ASSUME NEW l \in S PROVE next[l] \in S
    <3>1. PICK n \in Nat \ {0} : l = stone[n]
      OBVIOUS
    <3>2. n + 1 \in Nat \ {0} /\ stone[n + 1] = next[l]
      BY <3>1
    <3> QED
      BY <3>2
  <2>3. S = C
    BY <2>1, <2>2 DEF CircularOn
  <2> QED
    BY <2>3
<1>2. PICK n \in Nat \ {0} : stone[n] = loc /\ \A m \in Nat \ {0} : stone[m] = loc => n <= m
  <2> DEFINE T == {m \in Nat \ {0} : stone[m] = loc}
  <2>1. T \subseteq Nat /\ T # {}
    BY <1>1
  <2> HIDE DEF T
  <2>2. PICK m \in T : \A k \in T : m <= k
    BY <2>1, Least
  <2> QED
    BY <2>2 DEF T
<1>3. \A i \in 1 .. n - 1 : stone[i] # loc
  BY <1>2
<1>4. \A l \in C : \E i \in 0 .. n - 1 : stone[i] = l
  <2> DEFINE S == {stone[i] : i \in 0 .. n - 1}
  <2>1. S \in SUBSET C /\ S # {}
    <3>1. 0 \in 0 .. n - 1
      OBVIOUS
    <3> QED
      BY <3>1
  <2>2. ASSUME NEW l \in S PROVE next[l] \in S
    <3>1. PICK i \in 0 .. n - 1 : l = stone[i]
      OBVIOUS
    <3>2. stone[i + 1] = next[l] /\ i + 1 \in Nat
      BY <3>1
    <3>3. CASE i + 1 = n
      <4>1. next[l] = stone[0] /\ 0 \in 0 .. n - 1
        BY <1>2, <3>2, <3>3
      <4> QED
        BY <4>1
    <3>4. CASE i + 1 # n
      <4>1. i + 1 \in 0 .. n - 1
        BY <3>4
      <4> QED
        BY <3>2, <4>1
    <3> QED
      BY <3>3, <3>4
  <2>3. S = C
    BY <2>1, <2>2 DEF CircularOn
  <2> QED
    BY <2>3
<1>5. ASSUME NEW i \in 0 .. n - 1, NEW j \in 0 .. n - 1, stone[i] = stone[j], i < j
      PROVE  FALSE
  <2> DEFINE S == {stone[k] : k \in i .. j - 1}
  <2>1. S \in SUBSET C /\ S # {}
    <3>1. i \in i .. j - 1
      BY <1>5
    <3> QED
      BY <3>1
  <2>2. ASSUME NEW l \in S PROVE next[l] \in S
    <3>1. PICK k \in i .. j - 1 : l = stone[k]
      OBVIOUS
    <3>2. stone[k + 1] = next[l] /\ k + 1 \in Nat
      BY <3>1
    <3>3. CASE k + 1 = j
      <4>1. next[l] = stone[i] /\ i \in i .. j - 1
        BY <1>5, <3>2, <3>3
      <4> QED
        BY <4>1
    <3>4. CASE k + 1 # j
      <4>1. k + 1 \in i .. j - 1
        BY <3>4
      <4> QED
        BY <3>2, <4>1
    <3> QED
      BY <3>3, <3>4
  <2>3. S = C
    BY <2>1, <2>2 DEF CircularOn
  <2>4. PICK k \in i .. j - 1 : stone[k] = loc
    BY <2>3
  <2>5. k = 0
    BY <1>3, <2>4
  <2>6. stone[j] = loc /\ j \in 1 .. n - 1
    BY <1>5, <2>4, <2>5
  <2> QED
    BY <1>3, <2>6
<1>6. \A i, j \in 0 .. n - 1 : stone[i] = stone[j] => i = j
  <2> SUFFICES ASSUME NEW i \in 0 .. n - 1, NEW j \in 0 .. n - 1, stone[i] = stone[j], i # j
               PROVE  FALSE
    OBVIOUS
  <2>1. i < j \/ j < i
    OBVIOUS
  <2> QED
    BY <1>5, <2>1
<1>7. n = Cardinality(C)
  <2> DEFINE f == [i \in 0 .. n - 1 |-> stone[i]]
  <2>1. f \in Bijection(0 .. n - 1, C)
    <3>1. f \in [0 .. n - 1 -> C]
      OBVIOUS
    <3>2. f \in Injection(0 .. n - 1, C)
      BY <1>6, <3>1 DEF Injection, IsInjective
    <3>3. f \in Surjection(0 .. n - 1, C)
      BY <1>4, <3>1 DEF Surjection
    <3> QED
      BY <3>2, <3>3 DEF Bijection
  <2>2. IsFiniteSet(0 .. n - 1) /\ Cardinality(0 .. n - 1) = n
    BY FS_Interval
  <2>3. ExistsBijection(0 .. n - 1, C)
    BY <2>1 DEF ExistsBijection
  <2> QED
    BY <2>2, <2>3, FS_Bijection
<1> QED
  BY <1>2, <1>3, <1>4, <1>6, <1>7 DEF Rounds

LEMMA ChainIsListed ==
  ASSUME NEW b, IsFiniteSet(Locs(b)), NEW C, C \subseteq Locs(b),
         CircularOn(b.next_in_chain, C), NEW loc \in C
  PROVE  Lists(ChainOf(b, loc), b.next_in_chain, C, loc)
<1> DEFINE Def(f) == f = [i \in Nat |-> IF i = 0 THEN loc ELSE b.next_in_chain[f[i - 1]]]
           stone == CHOOSE f : Def(f)
           IsSize(n) == stone[n] = loc /\ \A i \in 1 .. n - 1 : stone[i] # loc
           size == CHOOSE n \in 1 .. Cardinality(Locs(b)) : IsSize(n)
           s == [i \in 1 .. size |-> stone[i - 1]]
<1>1. \E f : Def(f)
  <2> DEFINE F == [p \in Nat \X C |-> b.next_in_chain[p[2]]]
  <2>1. F \in [Nat \X C -> C]
    BY DEF CircularOn
  <2> HIDE DEF F
  <2>2. PICK g \in [Nat -> C] : Follows(g, F, loc)
    BY <2>1, RecursionExists
  <2>3. g[0] = loc /\ \A n \in Nat : g[n + 1] = F[<<n + 1, g[n]>>]
    BY <2>2 DEF Follows
  <2>4. ASSUME NEW i \in Nat
        PROVE  g[i] = IF i = 0 THEN loc ELSE b.next_in_chain[g[i - 1]]
    <3>1. CASE i = 0
      BY <2>3, <3>1
    <3>2. CASE i # 0
      <4>1. PICK n \in Nat : i = n + 1
        BY <3>2
      <4>2. <<n + 1, g[n]>> \in Nat \X C /\ i - 1 = n
        BY <4>1
      <4>3. g[n + 1] = b.next_in_chain[g[n]]
        BY <2>3, <4>2 DEF F
      <4> QED
        BY <3>2, <4>1, <4>2, <4>3
    <3> QED
      BY <3>1, <3>2
  <2>5. Def(g)
    BY <2>4
  <2> QED
    BY <2>5
<1>2. Def(stone)
  BY <1>1
<1> HIDE DEF stone
<1>3. stone[0] = loc /\ \A n \in Nat : stone[n + 1] = b.next_in_chain[stone[n]]
  <2>1. \A n \in Nat : n + 1 \in Nat /\ n + 1 # 0 /\ (n + 1) - 1 = n
    OBVIOUS
  <2> QED
    BY <1>2, <2>1
<1>4. stone \in [Nat -> C]
  <2> DEFINE T == {n \in Nat : stone[n] \in C}
  <2>1. 0 \in T
    BY <1>3
  <2>2. \A n \in T : n + 1 \in T
    BY <1>3 DEF CircularOn
  <2>3. T = Nat
    <3> HIDE DEF T
    <3>1. T \subseteq Nat
      BY DEF T
    <3> QED
      BY <2>1, <2>2, <3>1, ByInduction
  <2> QED
    BY <1>2, <2>3
<1> HIDE DEF Def
<1>5. IsFiniteSet(C) /\ Cardinality(C) <= Cardinality(Locs(b)) /\ Cardinality(Locs(b)) \in Nat
  BY FS_Subset, FS_CardinalityType
<1>60. PICK n \in Nat \ {0} : Rounds(n, stone, C, loc)
  <2>1. PICK next : next = b.next_in_chain
    OBVIOUS
  <2>2. CircularOn(next, C) /\ \A n \in Nat : stone[n + 1] = next[stone[n]]
    BY <1>3, <2>1
  <2>3. stone[0] = loc
    BY <1>3
  <2> QED
    BY <1>4, <1>5, <2>2, <2>3, RoundTrip
<1>6. /\ stone[n] = loc /\ \A i \in 1 .. n - 1 : stone[i] # loc
      /\ n = Cardinality(C)
      /\ \A l \in C : \E i \in 0 .. n - 1 : stone[i] = l
      /\ \A i, j \in 0 .. n - 1 : stone[i] = stone[j] => i = j
  BY <1>60 DEF Rounds
<1>7. size = n
  <2>1. n \in 1 .. Cardinality(Locs(b))
    BY <1>5, <1>6
  <2>2. \A m \in 1 .. Cardinality(Locs(b)) : IsSize(m) => m = n
    BY <1>6
  <2> HIDE DEF IsSize
  <2> QED
    BY <1>6, <2>1, <2>2
<1> HIDE DEF size
<1>80. s = [i \in 1 .. n |-> stone[i - 1]]
  BY <1>7
<1>81. \A i \in 1 .. n : i - 1 \in 0 .. n - 1 /\ i - 1 \in Nat
  OBVIOUS
<1> HIDE DEF s
<1>8. s \in Seq(C) /\ Len(s) = n /\ DOMAIN s = 1 .. n /\ s[1] = loc
  BY <1>3, <1>4, <1>80, <1>81
<1>9. ToSet(s) = C
  <2>1. ASSUME NEW l \in C PROVE \E i \in 1 .. n : s[i] = l
    <3>1. PICK i \in 0 .. n - 1 : stone[i] = l
      BY <1>6
    <3>2. i + 1 \in 1 .. n /\ (i + 1) - 1 = i
      OBVIOUS
    <3>3. s[i + 1] = l
      BY <1>80, <3>1, <3>2
    <3> QED
      BY <3>2, <3>3
  <2>2. \A i \in 1 .. n : s[i] \in C
    BY <1>4, <1>80, <1>81
  <2> QED
    BY <1>8, <2>1, <2>2 DEF ToSet
<1>10. \A i, j \in 1 .. n : s[i] = s[j] => i = j
  <2> SUFFICES ASSUME NEW i \in 1 .. n, NEW j \in 1 .. n, s[i] = s[j] PROVE i = j
    OBVIOUS
  <2>1. i - 1 = j - 1
    BY <1>6, <1>80, <1>81
  <2> QED
    BY <2>1
<1>11. Last(s) \in C /\ b.next_in_chain[Last(s)] = loc
  <2>1. n \in 1 .. n /\ n - 1 \in Nat /\ (n - 1) + 1 = n
    OBVIOUS
  <2>2. Last(s) = stone[n - 1]
    BY <1>80, <1>8, <2>1 DEF Last
  <2>3. stone[n] = b.next_in_chain[stone[n - 1]]
    BY <1>3, <2>1
  <2> QED
    BY <1>4, <1>6, <2>1, <2>2, <2>3
<1>12. ChainOf(b, loc) = s
  BY DEF ChainOf, stone, Def, s, size
<1> QED
  BY <1>6, <1>8, <1>9, <1>10, <1>11, <1>12 DEF Lists

-----------------------------------------------------------------------------
(* What a board keeps                                                      *)

Stones(b) == {l \in Locs(b) : b.colors[l] # C_EMPTY}
Chain(b, h) == {l \in Stones(b) : b.chain_head[l] = h}
LibsOf(b, S) == {a \in Locs(b) : b.colors[a] = C_EMPTY /\ \E m \in Adj(b, a) : m \in S}
IsHead(b, h) == h \in Stones(b) /\ b.chain_head[h] = h

ChainData == [owner : 0 .. 2, num_locs : Int, num_liberties : Int]

Boards(w, L) ==
  [x_size : {w}, y_size : Nat, colors : [L -> 0 .. 2], chain_data : [L -> ChainData],
   chain_head : [L -> Int], next_in_chain : [L -> Int], ko_loc : Int,
   pos_hash : SUBSET (Int \X (0 .. 2)), captures : [Players -> Int]]

Typed(b) ==
  /\ IsFiniteSet(Locs(b)) /\ Locs(b) \subseteq Int
  /\ b.x_size \in Nat \ {0}
  /\ b \in Boards(b.x_size, Locs(b))

\* Nothing less than C holds a point of C and its neighbours in C.
ConnectedOn(b, C) ==
  \A S \in SUBSET C :
    S # {} /\ (\A l \in S, m \in C : m \in Adj(b, l) => m \in S) => S = C

HeadsOK(b) ==
  \A l \in Stones(b) : IsHead(b, b.chain_head[l]) /\ b.colors[b.chain_head[l]] = b.colors[l]

ListsOK(b) == \A h : IsHead(b, h) => CircularOn(b.next_in_chain, Chain(b, h))

ConnectedOK(b) == \A h : IsHead(b, h) => ConnectedOn(b, Chain(b, h))

\* Neighbours of a colour are in the same chain, except for loc and the points of Y.
MaximalBut(b, loc, Y) ==
  \A l \in Stones(b) : \A m \in Adj(b, l) :
    b.colors[m] = b.colors[l] =>
      b.chain_head[m] = b.chain_head[l] \/ (l = loc /\ m \in Y) \/ (m = loc /\ l \in Y)

\* The counts are right, except that the chains with heads in U have one liberty more.
CountsOK(b, U) ==
  \A h : IsHead(b, h) =>
    b.chain_data[h] =
      [owner |-> b.colors[h], num_locs |-> Cardinality(Chain(b, h)),
       num_liberties |-> Cardinality(LibsOf(b, Chain(b, h))) + (IF h \in U THEN 1 ELSE 0)]

HashOK(b) == b.pos_hash = {<<l, b.colors[l]>> : l \in Stones(b)}

BoardOK(b, loc, Y, U) ==
  /\ Typed(b) /\ HeadsOK(b) /\ ListsOK(b) /\ ConnectedOK(b)
  /\ MaximalBut(b, loc, Y) /\ CountsOK(b, U) /\ HashOK(b)

GoodBoard(b) == BoardOK(b, NULL_LOC, {}, {})

LEMMA AdjIsSymmetric ==
  ASSUME NEW b, Typed(b), NEW l \in Locs(b), NEW a \in Adj(b, l)
  PROVE  a \in Locs(b) /\ a # l /\ l \in Adj(b, a)
BY DEF Typed, Adj

LEMMA SameAdj ==
  ASSUME NEW b, NEW c, c.x_size = b.x_size, Locs(c) = Locs(b), NEW l
  PROVE  Adj(c, l) = Adj(b, l)
BY DEF Adj

LEMMA SameChains ==
  ASSUME NEW b, NEW c, c.colors = b.colors, c.chain_head = b.chain_head
  PROVE  /\ Locs(c) = Locs(b) /\ Stones(c) = Stones(b)
         /\ \A h : Chain(c, h) = Chain(b, h) /\ (IsHead(c, h) <=> IsHead(b, h))
BY DEF Locs, Stones, Chain, IsHead

\* The list from a stone is its chain.
LEMMA StonesOfChain ==
  ASSUME NEW b, Typed(b), HeadsOK(b), ListsOK(b), NEW l \in Stones(b)
  PROVE  Lists(ChainOf(b, l), b.next_in_chain, Chain(b, b.chain_head[l]), l)
<1> DEFINE C == Chain(b, b.chain_head[l])
<1>1. l \in C /\ C \subseteq Locs(b)
  BY DEF Chain, Stones
<1>2. CircularOn(b.next_in_chain, C)
  BY DEF HeadsOK, ListsOK
<1>3. IsFiniteSet(Locs(b))
  BY DEF Typed
<1> HIDE DEF C
<1>4. Lists(ChainOf(b, l), b.next_in_chain, C, l)
  BY <1>1, <1>2, <1>3, ChainIsListed
<1> QED
  BY <1>4 DEF C

LEMMA FiniteParts ==
  ASSUME NEW b, Typed(b), NEW S, S \subseteq Locs(b)
  PROVE  IsFiniteSet(S) /\ Cardinality(S) \in Nat
BY FS_Subset, FS_CardinalityType DEF Typed

-----------------------------------------------------------------------------
(* Removing a chain                                                        *)

Removed(b, n, C, color) ==
  /\ n \in Boards(b.x_size, Locs(b)) /\ Locs(n) = Locs(b)
  /\ n.x_size = b.x_size /\ n.y_size = b.y_size
  /\ n.chain_head = b.chain_head /\ n.next_in_chain = b.next_in_chain
  /\ n.ko_loc = b.ko_loc /\ n.captures = b.captures
  /\ n.pos_hash = Xor(b.pos_hash, C \X {color})
  /\ n.colors = [l \in Locs(b) |-> IF l \in C THEN C_EMPTY ELSE b.colors[l]]

\* The points of C next to the chain with the given head.
Opened(b, C, color, head) ==
  {l \in C : head \in {b.chain_head[a] : a \in AdjOf(b, l, getOpp(color))}}

LEMMA RemovedFields ==
  ASSUME NEW b, Typed(b), HeadsOK(b), ListsOK(b), NEW c \in Stones(b),
         NEW n, n = removeChain(b, c)
  PROVE  /\ Removed(b, n, Chain(b, b.chain_head[c]), b.colors[c])
         /\ \A h \in Locs(b) : n.chain_data[h] =
              [b.chain_data[h] EXCEPT !.num_liberties =
                 @ + Cardinality(Opened(b, Chain(b, b.chain_head[c]), b.colors[c], h))]
<1> DEFINE C == Chain(b, b.chain_head[c])
           color == b.colors[c]
<1>1. ToSet(ChainOf(b, c)) = C
  BY StonesOfChain DEF Lists
<1>2. b \in Boards(b.x_size, Locs(b)) /\ C \subseteq Locs(b) /\ color \in 0 .. 2 /\ Locs(b) \subseteq Int
  BY DEF Typed, Chain, Stones, Boards
<1>3. n = [b EXCEPT
        !.pos_hash = Xor(@, C \X {color}),
        !.colors = [l \in Locs(b) |-> IF l \in C THEN C_EMPTY ELSE b.colors[l]],
        !.chain_data = [h \in Locs(b) |-> [b.chain_data[h] EXCEPT !.num_liberties =
                                            @ + Cardinality(Opened(b, C, color, h))]]]
  BY <1>1 DEF removeChain, Opened
<1>4. ASSUME NEW h \in Locs(b) PROVE Cardinality(Opened(b, C, color, h)) \in Nat
  <2>1. Opened(b, C, color, h) \subseteq Locs(b)
    BY <1>2 DEF Opened
  <2> QED
    BY <2>1, FiniteParts
<1> HIDE DEF C, color
<1>5. n.chain_data = [h \in Locs(b) |-> [b.chain_data[h] EXCEPT !.num_liberties =
                                          @ + Cardinality(Opened(b, C, color, h))]]
  BY <1>2, <1>3 DEF Boards
<1>6. n.chain_data \in [Locs(b) -> ChainData]
  <2>1. ASSUME NEW h \in Locs(b)
        PROVE  [b.chain_data[h] EXCEPT !.num_liberties =
                  @ + Cardinality(Opened(b, C, color, h))] \in ChainData
    <3>1. b.chain_data[h] \in ChainData
      BY <1>2 DEF Boards
    <3>2. PICK k \in Nat : k = Cardinality(Opened(b, C, color, h))
      BY <1>4
    <3>3. [b.chain_data[h] EXCEPT !.num_liberties = @ + k] \in ChainData
      BY <3>1 DEF ChainData
    <3> QED
      BY <3>2, <3>3
  <2> QED
    BY <1>5, <2>1
<1>7. n.colors = [l \in Locs(b) |-> IF l \in C THEN C_EMPTY ELSE b.colors[l]]
  BY <1>2, <1>3 DEF Boards
<1>8. n.pos_hash = Xor(b.pos_hash, C \X {color})
  BY <1>2, <1>3 DEF Boards
<1>9. Xor(b.pos_hash, C \X {color}) \subseteq Int \X (0 .. 2)
  <2>1. b.pos_hash \subseteq Int \X (0 .. 2) /\ C \X {color} \subseteq Int \X (0 .. 2)
    BY <1>2 DEF Boards
  <2> QED
    BY <2>1 DEF Xor
<1>10. n.colors \in [Locs(b) -> 0 .. 2] /\ Locs(n) = Locs(b)
  BY <1>2, <1>7 DEF Boards, C_EMPTY, Locs
<1>11. /\ n.x_size = b.x_size /\ n.y_size = b.y_size
       /\ n.chain_head = b.chain_head /\ n.next_in_chain = b.next_in_chain
       /\ n.ko_loc = b.ko_loc /\ n.captures = b.captures
  BY <1>2, <1>3 DEF Boards
<1>12. DOMAIN n = DOMAIN b
  BY <1>3
<1>13. n \in Boards(b.x_size, Locs(b))
  BY <1>2, <1>3, <1>6, <1>8, <1>9, <1>10, <1>11 DEF Boards
<1> QED
  BY <1>5, <1>7, <1>8, <1>10, <1>11, <1>13 DEF Removed, C, color

\* What is left of the stones and of the chains.
LEMMA RestOfStones ==
  ASSUME NEW b, Typed(b), HeadsOK(b), NEW h0, IsHead(b, h0),
         NEW n, Removed(b, n, Chain(b, h0), b.colors[h0])
  PROVE  /\ Stones(n) = Stones(b) \ Chain(b, h0)
         /\ \A l \in Stones(n) : n.colors[l] = b.colors[l]
         /\ \A h : h # h0 => Chain(n, h) = Chain(b, h)
         /\ \A h : IsHead(n, h) <=> IsHead(b, h) /\ h # h0
<1> DEFINE C == Chain(b, h0)
<1>1. Locs(n) = Locs(b) /\ n.chain_head = b.chain_head
      /\ n.colors = [l \in Locs(b) |-> IF l \in C THEN C_EMPTY ELSE b.colors[l]]
  BY DEF Removed
<1>2. C \subseteq Locs(b) /\ \A l \in C : l \in Stones(b) /\ b.chain_head[l] = h0
  BY DEF Chain, Stones
<1>3. \A l \in Stones(b) : b.chain_head[l] = h0 => l \in C
  BY DEF Chain
<1> HIDE DEF C
<1>4. Stones(n) = Stones(b) \ C /\ \A l \in Stones(n) : n.colors[l] = b.colors[l]
  BY <1>1 DEF Stones
<1>5. \A h : h # h0 => Chain(n, h) = Chain(b, h)
  BY <1>1, <1>2, <1>4 DEF Chain
<1>6. \A h : IsHead(n, h) <=> IsHead(b, h) /\ h # h0
  BY <1>1, <1>2, <1>3, <1>4 DEF IsHead
<1> QED
  BY <1>4, <1>5, <1>6 DEF C

LEMMA RestIsWhole ==
  ASSUME NEW b, NEW loc, NEW Y, NEW U, BoardOK(b, loc, Y, U), NEW h0, IsHead(b, h0),
         NEW n, Removed(b, n, Chain(b, h0), b.colors[h0])
  PROVE  Typed(n) /\ HeadsOK(n) /\ ListsOK(n) /\ ConnectedOK(n) /\ MaximalBut(n, loc, Y)
<1>1. Typed(b) /\ HeadsOK(b) /\ ListsOK(b) /\ ConnectedOK(b) /\ MaximalBut(b, loc, Y)
  BY DEF BoardOK
<1>2. /\ Stones(n) = Stones(b) \ Chain(b, h0)
      /\ \A l \in Stones(n) : n.colors[l] = b.colors[l]
      /\ \A h : h # h0 => Chain(n, h) = Chain(b, h)
      /\ \A h : IsHead(n, h) <=> IsHead(b, h) /\ h # h0
  BY <1>1, RestOfStones
<1>3. /\ Locs(n) = Locs(b) /\ n.chain_head = b.chain_head /\ n.next_in_chain = b.next_in_chain
      /\ n.x_size = b.x_size /\ n \in Boards(b.x_size, Locs(b))
  BY DEF Removed
<1>4. \A l : Adj(n, l) = Adj(b, l)
  BY <1>3, SameAdj
<1>5. Typed(n)
  BY <1>1, <1>3 DEF Typed
<1>6. HeadsOK(n)
  <2> SUFFICES ASSUME NEW l \in Stones(n)
               PROVE  /\ IsHead(n, n.chain_head[l])
                      /\ n.colors[n.chain_head[l]] = n.colors[l]
    BY DEF HeadsOK
  <2>1. l \in Stones(b) /\ n.chain_head[l] = b.chain_head[l] /\ b.chain_head[l] # h0
    BY <1>2, <1>3 DEF Chain
  <2>2. IsHead(b, b.chain_head[l]) /\ b.colors[b.chain_head[l]] = b.colors[l]
    BY <1>1, <2>1 DEF HeadsOK
  <2>3. IsHead(n, b.chain_head[l])
    BY <1>2, <2>1, <2>2
  <2>4. n.colors[b.chain_head[l]] = b.colors[b.chain_head[l]] /\ n.colors[l] = b.colors[l]
    BY <1>2, <2>3 DEF IsHead
  <2> QED
    BY <2>1, <2>2, <2>3, <2>4
<1>7. ListsOK(n)
  BY <1>1, <1>2, <1>3 DEF ListsOK
<1>8. ConnectedOK(n)
  BY <1>1, <1>2, <1>4 DEF ConnectedOK, ConnectedOn
<1>9. MaximalBut(n, loc, Y)
  <2> SUFFICES ASSUME NEW l \in Stones(n), NEW m \in Adj(n, l), n.colors[m] = n.colors[l]
               PROVE  \/ n.chain_head[m] = n.chain_head[l]
                      \/ (l = loc /\ m \in Y) \/ (m = loc /\ l \in Y)
    BY DEF MaximalBut
  <2>1. m \in Stones(n)
    BY <1>5, AdjIsSymmetric DEF Stones
  <2>2. l \in Stones(b) /\ m \in Adj(b, l) /\ b.colors[m] = b.colors[l]
    BY <1>2, <1>4, <2>1
  <2>3. \/ b.chain_head[m] = b.chain_head[l]
        \/ (l = loc /\ m \in Y) \/ (m = loc /\ l \in Y)
    BY <1>1, <2>2 DEF MaximalBut
  <2> QED
    BY <1>3, <2>3
<1> QED
  BY <1>5, <1>6, <1>7, <1>8, <1>9

LEMMA PlayersColors ==
  ASSUME NEW b, Typed(b), NEW l \in Stones(b)
  PROVE  b.colors[l] \in {1, 2} /\ l \in Locs(b)
BY DEF Typed, Boards, Stones, C_EMPTY

\* Two different chains of a colour do not touch.
LEMMA Apart ==
  ASSUME NEW b, NEW loc, NEW Y, Typed(b), HeadsOK(b), MaximalBut(b, loc, Y),
         NEW h0, IsHead(b, h0), b.colors[h0] # b.colors[loc] \/ Y = {},
         NEW h, IsHead(b, h), h # h0, NEW l \in Chain(b, h0), NEW m \in Chain(b, h), m \in Adj(b, l)
  PROVE  b.colors[m] = getOpp(b.colors[h0])
<1>1. /\ l \in Stones(b) /\ b.chain_head[l] = h0 /\ b.colors[l] = b.colors[h0]
      /\ m \in Stones(b) /\ b.chain_head[m] = h
  BY DEF Chain, HeadsOK
<1>2. b.colors[m] # b.colors[l]
  BY <1>1 DEF MaximalBut
<1>3. b.colors[m] \in {1, 2} /\ b.colors[l] \in {1, 2}
  BY <1>1, PlayersColors
<1> QED
  BY <1>1, <1>2, <1>3 DEF getOpp

LEMMA RestIsCounted ==
  ASSUME NEW b, NEW loc, NEW Y, NEW U, BoardOK(b, loc, Y, U), NEW h0, IsHead(b, h0),
         b.colors[h0] # b.colors[loc] \/ Y = {},
         NEW n, Removed(b, n, Chain(b, h0), b.colors[h0]),
         \A h \in Locs(b) : n.chain_data[h] =
           [b.chain_data[h] EXCEPT !.num_liberties =
              @ + Cardinality(Opened(b, Chain(b, h0), b.colors[h0], h))]
  PROVE  CountsOK(n, U) /\ HashOK(n)
<1> DEFINE C == Chain(b, h0)
           color == b.colors[h0]
<1>1. Typed(b) /\ HeadsOK(b) /\ MaximalBut(b, loc, Y) /\ CountsOK(b, U) /\ HashOK(b)
  BY DEF BoardOK
<1>2. /\ Stones(n) = Stones(b) \ C
      /\ \A l \in Stones(n) : n.colors[l] = b.colors[l]
      /\ \A h : h # h0 => Chain(n, h) = Chain(b, h)
      /\ \A h : IsHead(n, h) <=> IsHead(b, h) /\ h # h0
  BY <1>1, RestOfStones
<1>3. /\ Locs(n) = Locs(b) /\ n.x_size = b.x_size
      /\ n.colors = [l \in Locs(b) |-> IF l \in C THEN C_EMPTY ELSE b.colors[l]]
      /\ n.pos_hash = Xor(b.pos_hash, C \X {color})
  BY DEF Removed
<1>4. \A l : Adj(n, l) = Adj(b, l)
  BY <1>3, SameAdj
<1>5. C \subseteq Stones(b) /\ C \subseteq Locs(b) /\ \A l \in C : b.colors[l] = color
  BY <1>1 DEF Chain, Stones, HeadsOK
<1>6. ASSUME NEW h, IsHead(n, h)
      PROVE  n.chain_data[h] =
               [owner |-> n.colors[h], num_locs |-> Cardinality(Chain(n, h)),
                num_liberties |-> Cardinality(LibsOf(n, Chain(n, h))) + (IF h \in U THEN 1 ELSE 0)]
  <2> DEFINE D == Chain(b, h)
             opened == Opened(b, C, color, h)
             extra == IF h \in U THEN 1 ELSE 0
  <2>1. IsHead(b, h) /\ h # h0 /\ Chain(n, h) = D /\ h \in Locs(b) /\ n.colors[h] = b.colors[h]
    BY <1>2, <1>6 DEF IsHead, Stones
  <2>2. D \subseteq Locs(b) /\ opened \subseteq C
    BY DEF Chain, Stones, Opened
  <2>3. LibsOf(n, D) = LibsOf(b, D) \cup opened
    <3>1. ASSUME NEW l \in C PROVE l \in opened <=> \E m \in Adj(b, l) : m \in D
      <4>1. ASSUME l \in opened PROVE \E m \in Adj(b, l) : m \in D
        <5>1. PICK a \in AdjOf(b, l, getOpp(color)) : b.chain_head[a] = h
          BY <4>1 DEF Opened
        <5>2. a \in Adj(b, l) /\ b.colors[a] = getOpp(color) /\ a \in Locs(b)
          BY DEF AdjOf, Adj
        <5>3. color \in {1, 2}
          BY <1>1, PlayersColors DEF IsHead
        <5>4. a \in D
          BY <5>1, <5>2, <5>3 DEF Chain, Stones, getOpp, C_EMPTY
        <5> QED
          BY <5>2, <5>4
      <4>2. ASSUME NEW m \in Adj(b, l), m \in D PROVE l \in opened
        <5>1. b.colors[m] = getOpp(color)
          BY <1>1, <2>1, <4>2, Apart
        <5>2. b.chain_head[m] = h /\ m \in AdjOf(b, l, getOpp(color))
          BY <4>2, <5>1 DEF Chain, AdjOf
        <5> QED
          BY <5>2 DEF Opened
      <4> QED
        BY <4>1, <4>2
    <3>2. ASSUME NEW a \in Locs(b)
          PROVE  a \in LibsOf(n, D) <=> a \in LibsOf(b, D) \cup opened
      <4>1. CASE a \in C
        <5>1. n.colors[a] = C_EMPTY
          BY <1>3, <4>1
        <5>2. b.colors[a] # C_EMPTY
          BY <1>5, <4>1 DEF Stones
        <5> HIDE DEF opened, D, C
        <5> QED
          BY <1>3, <1>4, <3>1, <4>1, <5>1, <5>2 DEF LibsOf
      <4>2. CASE a \notin C
        <5>1. n.colors[a] = b.colors[a] /\ a \notin opened
          BY <1>3, <2>2, <4>2
        <5> HIDE DEF opened, D, C
        <5> QED
          BY <1>3, <1>4, <5>1 DEF LibsOf
      <4> QED
        BY <4>1, <4>2
    <3>3. LibsOf(n, D) \subseteq Locs(b) /\ LibsOf(b, D) \cup opened \subseteq Locs(b)
      BY <1>3, <1>5, <2>2 DEF LibsOf
    <3> HIDE DEF opened, D
    <3> QED
      BY <3>2, <3>3
  <2>4. LibsOf(b, D) \cap opened = {} /\ LibsOf(b, D) \subseteq Locs(b)
    BY <1>5, <2>2 DEF LibsOf, Stones
  <2> HIDE DEF opened
  <2>5. Cardinality(LibsOf(n, D)) = Cardinality(LibsOf(b, D)) + Cardinality(opened)
    <3>1. /\ IsFiniteSet(LibsOf(b, D)) /\ IsFiniteSet(opened)
          /\ Cardinality(LibsOf(b, D)) \in Nat /\ Cardinality(opened) \in Nat
      BY <1>1, <1>5, <2>2, <2>4, FiniteParts
    <3>2. Cardinality(LibsOf(n, D)) = Cardinality(LibsOf(b, D)) + Cardinality(opened)
                                        - Cardinality({})
      BY <2>3, <2>4, <3>1, FS_Union
    <3> QED
      BY <3>1, <3>2, FS_EmptySet
  <2>6. b.chain_data[h] = [owner |-> b.colors[h], num_locs |-> Cardinality(D),
                           num_liberties |-> Cardinality(LibsOf(b, D)) + extra]
    BY <1>1, <2>1 DEF CountsOK
  <2>7. n.chain_data[h] = [b.chain_data[h] EXCEPT !.num_liberties = @ + Cardinality(opened)]
    BY <2>1 DEF opened
  <2>8. PICK k, i, j : /\ k = Cardinality(LibsOf(b, D)) /\ i = Cardinality(opened) /\ j = extra
                       /\ k \in Int /\ i \in Int /\ j \in Int
    BY <1>1, <1>5, <2>2, <2>4, FiniteParts
  <2>9. k + j + i = k + i + j
    BY <2>8
  <2> HIDE DEF extra, D
  <2> QED
    BY <2>1, <2>5, <2>6, <2>7, <2>8, <2>9 DEF extra
<1>7. HashOK(n)
  <2>1. b.pos_hash = {<<l, b.colors[l]>> : l \in Stones(b)}
    BY <1>1 DEF HashOK
  <2>2. n.pos_hash = {<<l, b.colors[l]>> : l \in Stones(b) \ C}
    <3> HIDE DEF C, color
    <3>1. ASSUME NEW x PROVE x \in Xor(b.pos_hash, C \X {color})
                             <=> x \in {<<l, b.colors[l]>> : l \in Stones(b) \ C}
      <4>1. x \in C \X {color} <=> \E l \in C : x = <<l, b.colors[l]>>
        BY <1>5
      <4>2. x \in b.pos_hash <=> \E l \in Stones(b) : x = <<l, b.colors[l]>>
        BY <2>1
      <4> QED
        BY <1>5, <4>1, <4>2 DEF Xor
    <3> QED
      BY <1>3, <3>1
  <2> QED
    BY <1>2, <2>2 DEF HashOK
<1> QED
  BY <1>6, <1>7 DEF CountsOK

\* A chain is removed, of another colour than loc or when nothing is exempt.
LEMMA RemoveChainIsOK ==
  ASSUME NEW b, NEW loc, NEW Y, NEW U, BoardOK(b, loc, Y, U), NEW c \in Stones(b),
         b.colors[c] # b.colors[loc] \/ Y = {}, NEW n, n = removeChain(b, c)
  PROVE  /\ BoardOK(n, loc, Y, U)
         /\ Removed(b, n, Chain(b, b.chain_head[c]), b.colors[c])
<1>1. Typed(b) /\ HeadsOK(b) /\ ListsOK(b)
  BY DEF BoardOK
<1>2. IsHead(b, b.chain_head[c]) /\ b.colors[b.chain_head[c]] = b.colors[c]
  BY <1>1 DEF HeadsOK
<1>3. /\ Removed(b, n, Chain(b, b.chain_head[c]), b.colors[c])
      /\ \A h \in Locs(b) : n.chain_data[h] =
           [b.chain_data[h] EXCEPT !.num_liberties =
              @ + Cardinality(Opened(b, Chain(b, b.chain_head[c]), b.colors[c], h))]
  BY <1>1, RemovedFields
<1>4. PICK h0 : h0 = b.chain_head[c]
  OBVIOUS
<1>5. /\ IsHead(b, h0) /\ Removed(b, n, Chain(b, h0), b.colors[h0])
      /\ \A h \in Locs(b) : n.chain_data[h] =
           [b.chain_data[h] EXCEPT !.num_liberties =
              @ + Cardinality(Opened(b, Chain(b, h0), b.colors[h0], h))]
      /\ b.colors[h0] # b.colors[loc] \/ Y = {}
  BY <1>2, <1>3, <1>4
<1>6. Typed(n) /\ HeadsOK(n) /\ ListsOK(n) /\ ConnectedOK(n) /\ MaximalBut(n, loc, Y)
  BY <1>5, RestIsWhole
<1>7. CountsOK(n, U) /\ HashOK(n)
  BY <1>5, RestIsCounted
<1> QED
  BY <1>3, <1>6, <1>7 DEF BoardOK

-----------------------------------------------------------------------------
(* Joining two chains                                                      *)

\* Two lists become one when last, of the second, goes on with what follows h1 in the
\* first one, and h1 goes on with h2, which follows last.
LEMMA ListsJoin ==
  ASSUME NEW L, NEW next \in [L -> Int], NEW C1, NEW C2, C1 \subseteq L, C2 \subseteq L,
         C1 \cap C2 = {}, CircularOn(next, C1), CircularOn(next, C2),
         NEW h1 \in C1, NEW h2 \in C2, NEW last \in C2, next[last] = h2,
         NEW joint, joint = [next EXCEPT ![last] = next[h1], ![h1] = h2]
  PROVE  CircularOn(joint, C1 \cup C2)
<1>1. /\ joint[last] = next[h1] /\ joint[h1] = h2
      /\ \A l \in L : l # last /\ l # h1 => joint[l] = next[l]
  OBVIOUS
<1>2. /\ \A l \in C1 : next[l] \in C1
      /\ \A l \in C2 : next[l] \in C2
  BY DEF CircularOn
<1>3. \A l \in C1 \cup C2 : joint[l] \in C1 \cup C2
  BY <1>1, <1>2
<1>4. ASSUME NEW S \in SUBSET (C1 \cup C2), S # {}, \A l \in S : joint[l] \in S
      PROVE  S = C1 \cup C2
  <2> DEFINE S1 == S \cap C1
             S2 == S \cap C2
  <2>1. ASSUME S2 # {} PROVE S2 = C2
    <3>1. S2 \in SUBSET C2
      OBVIOUS
    <3>2. CASE last \in S /\ h2 \notin S
      <4>1. S1 # {}
        BY <1>1, <1>2, <1>4, <3>2
      <4>2. h1 \notin S
        BY <1>1, <1>4, <3>2
      <4>3. \A l \in S1 : next[l] \in S1
        BY <1>1, <1>2, <1>4, <4>2
      <4>4. S1 = C1
        BY <4>1, <4>3 DEF CircularOn
      <4> QED
        BY <4>2, <4>4
    <3>3. CASE last \notin S \/ h2 \in S
      <4>1. \A l \in S2 : next[l] \in S2
        BY <1>1, <1>2, <1>4, <3>3
      <4> QED
        BY <2>1, <3>1, <4>1 DEF CircularOn
    <3> QED
      BY <3>2, <3>3
  <2>2. ASSUME S1 # {} PROVE S1 = C1
    <3>1. S1 \in SUBSET C1
      OBVIOUS
    <3>2. CASE h1 \in S
      <4>1. h2 \in S
        BY <1>1, <1>4, <3>2
      <4>2. last \in S
        BY <2>1, <4>1
      <4>3. next[h1] \in S
        BY <1>1, <1>4, <4>2
      <4>4. \A l \in S1 : next[l] \in S1
        BY <1>1, <1>2, <1>4, <4>3
      <4> QED
        BY <2>2, <3>1, <4>4 DEF CircularOn
    <3>3. CASE h1 \notin S
      <4>1. \A l \in S1 : next[l] \in S1
        BY <1>1, <1>2, <1>4, <3>3
      <4> QED
        BY <2>2, <3>1, <4>1 DEF CircularOn
    <3> QED
      BY <3>2, <3>3
  <2>3. S1 # {} /\ S2 # {}
    <3>1. CASE S2 # {}
      <4>1. last \in S
        BY <2>1, <3>1
      <4>2. next[h1] \in S /\ next[h1] \in C1
        BY <1>1, <1>2, <1>4, <4>1
      <4> QED
        BY <3>1, <4>2
    <3>2. CASE S2 = {}
      <4>1. S1 = C1
        BY <1>4, <2>2, <3>2
      <4>2. h2 \in S
        BY <1>1, <1>4, <4>1
      <4> QED
        BY <3>2, <4>2
    <3> QED
      BY <3>1, <3>2
  <2> QED
    BY <2>1, <2>2, <2>3
<1> QED
  BY <1>3, <1>4 DEF CircularOn

LEMMA OtherListsStay ==
  ASSUME NEW L, NEW next \in [L -> Int], NEW C, C \subseteq L, CircularOn(next, C),
         NEW joint, \A l \in C : joint[l] = next[l]
  PROVE  CircularOn(joint, C)
BY DEF CircularOn

LEMMA ConnectedSetsJoin ==
  ASSUME NEW b, Typed(b), NEW C1, NEW C2, C1 \subseteq Locs(b), C2 \subseteq Locs(b),
         ConnectedOn(b, C1), ConnectedOn(b, C2),
         NEW l1 \in C1, NEW l2 \in C2, l2 \in Adj(b, l1)
  PROVE  ConnectedOn(b, C1 \cup C2)
<1> SUFFICES ASSUME NEW S \in SUBSET (C1 \cup C2), S # {},
                    \A l \in S, m \in C1 \cup C2 : m \in Adj(b, l) => m \in S
             PROVE  S = C1 \cup C2
  BY DEF ConnectedOn
<1> DEFINE S1 == S \cap C1
           S2 == S \cap C2
<1>1. S1 # {} => S1 = C1
  <2>1. S1 \in SUBSET C1 /\ \A l \in S1, m \in C1 : m \in Adj(b, l) => m \in S1
    OBVIOUS
  <2> QED
    BY <2>1 DEF ConnectedOn
<1>2. S2 # {} => S2 = C2
  <2>1. S2 \in SUBSET C2 /\ \A l \in S2, m \in C2 : m \in Adj(b, l) => m \in S2
    OBVIOUS
  <2> QED
    BY <2>1 DEF ConnectedOn
<1>3. l1 \in Adj(b, l2)
  BY AdjIsSymmetric
<1>4. S1 # {} => S2 # {}
  BY <1>1
<1>5. S2 # {} => S1 # {}
  BY <1>2, <1>3
<1>6. S1 # {} \/ S2 # {}
  OBVIOUS
<1> QED
  BY <1>1, <1>2, <1>4, <1>5, <1>6

\* n is b with the chain of h2 in that of h1; last is the end of the list from h2.
Joined(b, n, h1, h2, last) ==
  /\ n \in Boards(b.x_size, Locs(b)) /\ Locs(n) = Locs(b)
  /\ n.x_size = b.x_size /\ n.y_size = b.y_size
  /\ n.colors = b.colors /\ n.pos_hash = b.pos_hash
  /\ n.ko_loc = b.ko_loc /\ n.captures = b.captures
  /\ last \in Chain(b, h2) /\ b.next_in_chain[last] = h2
  /\ n.chain_head = [l \in Locs(b) |-> IF l \in Chain(b, h2) THEN h1 ELSE b.chain_head[l]]
  /\ n.next_in_chain = [b.next_in_chain EXCEPT ![last] = b.next_in_chain[h1], ![h1] = h2]
  /\ \A h \in Locs(b) : h # h1 => n.chain_data[h] = b.chain_data[h]
  /\ n.chain_data[h1].owner = b.chain_data[h1].owner
  /\ n.chain_data[h1].num_locs = b.chain_data[h1].num_locs + b.chain_data[h2].num_locs
  /\ n.chain_data[h1].num_liberties =
       b.chain_data[h1].num_liberties
         + Cardinality(LibsOf(b, Chain(b, h2)) \ LibsOf(b, Chain(b, h1)))

LEMMA NewLiberties ==
  ASSUME NEW b, Typed(b), HeadsOK(b), NEW h1, IsHead(b, h1), NEW C2, C2 \subseteq Locs(b)
  PROVE  {a \in UNION {AdjOf(b, stone, C_EMPTY) : stone \in C2} : ~isLibertyOf(b, a, h1)}
           = LibsOf(b, C2) \ LibsOf(b, Chain(b, h1))
<1>1. \A a : a \in UNION {AdjOf(b, stone, C_EMPTY) : stone \in C2} <=> a \in LibsOf(b, C2)
  <2> TAKE a
  <2>1. ASSUME NEW stone \in C2, a \in AdjOf(b, stone, C_EMPTY) PROVE a \in LibsOf(b, C2)
    <3>1. a \in Adj(b, stone) /\ b.colors[a] = C_EMPTY
      BY <2>1 DEF AdjOf
    <3>2. a \in Locs(b) /\ stone \in Adj(b, a)
      BY <3>1, AdjIsSymmetric
    <3> QED
      BY <3>1, <3>2 DEF LibsOf
  <2>2. ASSUME a \in LibsOf(b, C2) PROVE \E stone \in C2 : a \in AdjOf(b, stone, C_EMPTY)
    <3>1. PICK m \in Adj(b, a) : m \in C2
      BY <2>2 DEF LibsOf
    <3>2. a \in Adj(b, m) /\ b.colors[a] = C_EMPTY
      BY <2>2, <3>1, AdjIsSymmetric DEF LibsOf
    <3> QED
      BY <3>1, <3>2 DEF AdjOf
  <2> QED
    BY <2>1, <2>2
<1>2. \A a \in LibsOf(b, C2) : isLibertyOf(b, a, h1) <=> a \in LibsOf(b, Chain(b, h1))
  <2> TAKE a \in LibsOf(b, C2)
  <2>1. a \in Locs(b) /\ b.colors[a] = C_EMPTY
    BY DEF LibsOf
  <2>2. b.colors[h1] # C_EMPTY
    BY DEF IsHead, Stones
  <2>3. \A m \in Adj(b, a) : m \in Chain(b, h1) <=> b.colors[m] = b.colors[h1] /\ b.chain_head[m] = h1
    <3>1. \A m \in Adj(b, a) : m \in Locs(b)
      BY DEF Adj
    <3> QED
      BY <2>2, <3>1 DEF Chain, Stones, HeadsOK
  <2> QED
    BY <2>1, <2>3 DEF isLibertyOf, AdjOf, LibsOf
<1> QED
  BY <1>1, <1>2

LEMMA JoinedFields ==
  ASSUME NEW b, NEW loc, NEW Y, NEW U, BoardOK(b, loc, Y, U),
         NEW h1, IsHead(b, h1), NEW h2, IsHead(b, h2), NEW n, n = joinChain(b, h1, h2)
  PROVE  \E last : Joined(b, n, h1, h2, last)
<1>1. Typed(b) /\ HeadsOK(b) /\ ListsOK(b) /\ CountsOK(b, U)
  BY DEF BoardOK
<1> DEFINE C2 == Chain(b, h2)
           last == Last(ChainOf(b, h2))
           new == LibsOf(b, C2) \ LibsOf(b, Chain(b, h1))
<1>2. h2 \in Stones(b) /\ b.chain_head[h2] = h2 /\ h1 \in Locs(b) /\ h2 \in Locs(b)
  BY DEF IsHead, Stones
<1>3. ToSet(ChainOf(b, h2)) = C2 /\ last \in C2 /\ b.next_in_chain[last] = h2
  BY <1>1, <1>2, StonesOfChain DEF Lists
<1>4. C2 \subseteq Locs(b) /\ new \subseteq Locs(b)
  BY DEF Chain, Stones, LibsOf
<1>5. {a \in UNION {AdjOf(b, stone, C_EMPTY) : stone \in C2} : ~isLibertyOf(b, a, h1)} = new
  BY <1>1, <1>4, NewLiberties
<1>6. n = [b EXCEPT
        !.chain_data[h1].num_locs = @ + b.chain_data[h2].num_locs,
        !.chain_data[h1].num_liberties = @ + Cardinality(new),
        !.chain_head = [l \in Locs(b) |-> IF l \in C2 THEN h1 ELSE b.chain_head[l]],
        !.next_in_chain = [@ EXCEPT ![last] = b.next_in_chain[h1], ![h1] = h2]]
  BY <1>3, <1>5 DEF joinChain
<1>7. PICK k \in Nat : k = Cardinality(new)
  BY <1>1, <1>4, FiniteParts
<1> HIDE DEF new, C2, last
<1>8. b \in Boards(b.x_size, Locs(b)) /\ Locs(b) \subseteq Int
  BY <1>1 DEF Typed
<1>9. b.chain_data[h1] \in ChainData /\ b.chain_data[h2] \in ChainData
  BY <1>2, <1>8 DEF Boards
<1> DEFINE d == [b.chain_data[h1] EXCEPT !.num_locs = @ + b.chain_data[h2].num_locs,
                                         !.num_liberties = @ + k]
<1>10. d \in ChainData
  <2>1. PICK r, i : /\ r = b.chain_data[h1] /\ i = b.chain_data[h2].num_locs
                    /\ r \in ChainData /\ i \in Int
    BY <1>9 DEF ChainData
  <2>2. PICK x, y : /\ x = r.num_locs + i /\ y = r.num_liberties + k
                    /\ x \in Int /\ y \in Int
    BY <2>1 DEF ChainData
  <2>3. [r EXCEPT !.num_locs = x, !.num_liberties = y] \in ChainData
    BY <2>1, <2>2 DEF ChainData
  <2> QED
    BY <2>1, <2>2, <2>3
<1>11. n = [b EXCEPT
        !.chain_data = [@ EXCEPT ![h1] = d],
        !.chain_head = [l \in Locs(b) |-> IF l \in C2 THEN h1 ELSE b.chain_head[l]],
        !.next_in_chain = [@ EXCEPT ![last] = b.next_in_chain[h1], ![h1] = h2]]
  BY ZenonT(30), <1>2, <1>6, <1>7, <1>8, <1>9 DEF Boards, ChainData
<1>12. /\ d.owner = b.chain_data[h1].owner
       /\ d.num_locs = b.chain_data[h1].num_locs + b.chain_data[h2].num_locs
       /\ d.num_liberties = b.chain_data[h1].num_liberties + k
  <2>1. PICK r, i : r = b.chain_data[h1] /\ i = b.chain_data[h2].num_locs /\ r \in ChainData /\ i \in Int
    BY <1>9 DEF ChainData
  <2>2. d = [r EXCEPT !.num_locs = @ + i, !.num_liberties = @ + k]
    BY <2>1
  <2> HIDE DEF d
  <2>3. d.owner = r.owner /\ d.num_locs = r.num_locs + i /\ d.num_liberties = r.num_liberties + k
    BY <2>1, <2>2 DEF ChainData
  <2> QED
    BY <2>1, <2>3
<1> HIDE DEF d
<1>13. /\ n.x_size = b.x_size /\ n.y_size = b.y_size
       /\ n.colors = b.colors /\ n.pos_hash = b.pos_hash
       /\ n.ko_loc = b.ko_loc /\ n.captures = b.captures
       /\ n.chain_data = [b.chain_data EXCEPT ![h1] = d]
       /\ n.chain_head = [l \in Locs(b) |-> IF l \in C2 THEN h1 ELSE b.chain_head[l]]
       /\ n.next_in_chain = [b.next_in_chain EXCEPT ![last] = b.next_in_chain[h1], ![h1] = h2]
  BY <1>8, <1>11 DEF Boards
<1>14. n \in Boards(b.x_size, Locs(b)) /\ Locs(n) = Locs(b)
  <2>1. n.chain_data \in [Locs(b) -> ChainData]
    <3>1. PICK f \in [Locs(b) -> ChainData] : f = b.chain_data
      BY <1>8 DEF Boards
    <3>2. [f EXCEPT ![h1] = d] \in [Locs(b) -> ChainData]
      BY <1>10
    <3> QED
      BY <1>13, <3>1, <3>2
  <2>2. n.chain_head \in [Locs(b) -> Int]
    BY <1>2, <1>8, <1>13 DEF Boards
  <2>3. n.next_in_chain \in [Locs(b) -> Int]
    BY <1>2, <1>8, <1>13 DEF Boards
  <2> QED
    BY <1>8, <1>11, <1>13, <2>1, <2>2, <2>3 DEF Boards, Locs
<1>15. n.chain_data[h1] = d /\ \A h \in Locs(b) : h # h1 => n.chain_data[h] = b.chain_data[h]
  BY <1>2, <1>8, <1>13 DEF Boards
<1>16. Joined(b, n, h1, h2, last)
  BY <1>3, <1>7, <1>12, <1>13, <1>14, <1>15 DEF Joined, C2, new
<1> QED
  BY <1>16

LEMMA JoinedStones ==
  ASSUME NEW b, Typed(b), HeadsOK(b), NEW h1, IsHead(b, h1), NEW h2, IsHead(b, h2), h1 # h2,
         NEW n, NEW last, Joined(b, n, h1, h2, last)
  PROVE  /\ Stones(n) = Stones(b)
         /\ Chain(n, h1) = Chain(b, h1) \cup Chain(b, h2)
         /\ \A h : h # h1 /\ h # h2 => Chain(n, h) = Chain(b, h)
         /\ \A h : IsHead(n, h) <=> IsHead(b, h) /\ h # h2
<1>1. /\ Locs(n) = Locs(b) /\ n.colors = b.colors
      /\ n.chain_head = [l \in Locs(b) |-> IF l \in Chain(b, h2) THEN h1 ELSE b.chain_head[l]]
  BY DEF Joined
<1>2. Stones(n) = Stones(b) /\ Stones(b) \subseteq Locs(b)
  BY <1>1 DEF Stones
<1>3. \A l \in Stones(b) :
        n.chain_head[l] = IF b.chain_head[l] = h2 THEN h1 ELSE b.chain_head[l]
  BY <1>1, <1>2 DEF Chain
<1>4. Chain(n, h1) = Chain(b, h1) \cup Chain(b, h2)
  BY <1>2, <1>3 DEF Chain
<1>5. \A h : h # h1 /\ h # h2 => Chain(n, h) = Chain(b, h)
  BY <1>2, <1>3 DEF Chain
<1>6. \A h : IsHead(n, h) <=> IsHead(b, h) /\ h # h2
  BY <1>2, <1>3 DEF IsHead
<1> QED
  BY <1>2, <1>4, <1>5, <1>6

LEMMA JoinIsOK ==
  ASSUME NEW b, NEW loc, NEW Y, NEW U, BoardOK(b, loc, Y, U),
         NEW h1, IsHead(b, h1), NEW h2, IsHead(b, h2), h1 # h2, b.colors[h1] = b.colors[h2],
         h1 \notin U, h2 \notin U,
         NEW l1 \in Chain(b, h1), NEW l2 \in Chain(b, h2), l2 \in Adj(b, l1),
         NEW n, NEW last, Joined(b, n, h1, h2, last)
  PROVE  BoardOK(n, loc, Y, U)
<1> DEFINE C1 == Chain(b, h1)
           C2 == Chain(b, h2)
<1>1. /\ Typed(b) /\ HeadsOK(b) /\ ListsOK(b) /\ ConnectedOK(b) /\ MaximalBut(b, loc, Y)
      /\ CountsOK(b, U) /\ HashOK(b)
  BY DEF BoardOK
<1>2. /\ Stones(n) = Stones(b)
      /\ Chain(n, h1) = C1 \cup C2
      /\ \A h : h # h1 /\ h # h2 => Chain(n, h) = Chain(b, h)
      /\ \A h : IsHead(n, h) <=> IsHead(b, h) /\ h # h2
  BY <1>1, JoinedStones
<1>3. /\ Locs(n) = Locs(b) /\ n.x_size = b.x_size /\ n \in Boards(b.x_size, Locs(b))
      /\ n.colors = b.colors /\ n.pos_hash = b.pos_hash
      /\ n.chain_head = [l \in Locs(b) |-> IF l \in C2 THEN h1 ELSE b.chain_head[l]]
      /\ n.next_in_chain = [b.next_in_chain EXCEPT ![last] = b.next_in_chain[h1], ![h1] = h2]
      /\ last \in C2 /\ b.next_in_chain[last] = h2
  BY DEF Joined
<1>4. \A l : Adj(n, l) = Adj(b, l)
  BY <1>3, SameAdj
<1>5. C1 \subseteq Locs(b) /\ C2 \subseteq Locs(b) /\ C1 \cap C2 = {} /\ h1 \in C1 /\ h2 \in C2
  BY DEF Chain, Stones, IsHead
<1>6. Typed(n)
  BY <1>1, <1>3 DEF Typed
<1>7. HeadsOK(n)
  <2> SUFFICES ASSUME NEW l \in Stones(n)
               PROVE  /\ IsHead(n, n.chain_head[l])
                      /\ n.colors[n.chain_head[l]] = n.colors[l]
    BY DEF HeadsOK
  <2>1. l \in Stones(b) /\ l \in Locs(b) /\ IsHead(b, b.chain_head[l])
        /\ b.colors[b.chain_head[l]] = b.colors[l]
    BY <1>1, <1>2 DEF HeadsOK, Stones
  <2>2. CASE l \in C2
    <3>1. n.chain_head[l] = h1 /\ b.chain_head[l] = h2
      BY <1>3, <2>1, <2>2 DEF Chain
    <3> QED
      BY <1>2, <1>3, <2>1, <3>1
  <2>3. CASE l \notin C2
    <3>1. n.chain_head[l] = b.chain_head[l] /\ b.chain_head[l] # h2
      BY <1>3, <2>1, <2>3 DEF Chain
    <3> QED
      BY <1>2, <1>3, <2>1, <3>1
  <2> QED
    BY <2>2, <2>3
<1>8. ListsOK(n)
  <2> SUFFICES ASSUME NEW h, IsHead(n, h) PROVE CircularOn(n.next_in_chain, Chain(n, h))
    BY DEF ListsOK
  <2>1. IsHead(b, h) /\ h # h2
    BY <1>2
  <2>2. b.next_in_chain \in [Locs(b) -> Int]
    BY <1>1 DEF Typed, Boards
  <2>3. CASE h = h1
    <3>1. CircularOn(b.next_in_chain, C1) /\ CircularOn(b.next_in_chain, C2)
      BY <1>1 DEF ListsOK
    <3> HIDE DEF C1, C2
    <3>2. CircularOn(n.next_in_chain, C1 \cup C2)
      <4>1. PICK L, next, joint : L = Locs(b) /\ next = b.next_in_chain /\ joint = n.next_in_chain
        OBVIOUS
      <4>2. /\ next \in [L -> Int] /\ C1 \subseteq L /\ C2 \subseteq L
            /\ CircularOn(next, C1) /\ CircularOn(next, C2) /\ last \in C2 /\ next[last] = h2
            /\ joint = [next EXCEPT ![last] = next[h1], ![h1] = h2]
        BY <1>3, <1>5, <2>2, <3>1, <4>1
      <4>3. CircularOn(joint, C1 \cup C2)
        BY <1>5, <4>2, ListsJoin
      <4> QED
        BY <4>1, <4>3
    <3> QED
      BY <1>2, <2>3, <3>2
  <2>4. CASE h # h1
    <3>1. Chain(n, h) = Chain(b, h) /\ Chain(b, h) \subseteq Locs(b)
      BY <1>2, <2>1, <2>4 DEF Chain, Stones
    <3>2. \A l \in Chain(b, h) : l # last /\ l # h1
      BY <1>3, <1>5, <2>1, <2>4 DEF Chain
    <3>3. \A l \in Chain(b, h) : n.next_in_chain[l] = b.next_in_chain[l]
      BY <1>3, <2>2, <3>1, <3>2
    <3>4. CircularOn(b.next_in_chain, Chain(b, h))
      BY <1>1, <2>1 DEF ListsOK
    <3>5. CircularOn(n.next_in_chain, Chain(b, h))
      BY <2>2, <3>1, <3>3, <3>4, OtherListsStay
    <3> QED
      BY <3>1, <3>5
  <2> QED
    BY <2>3, <2>4
<1>9. ConnectedOK(n)
  <2> SUFFICES ASSUME NEW h, IsHead(n, h) PROVE ConnectedOn(n, Chain(n, h))
    BY DEF ConnectedOK
  <2>1. IsHead(b, h) /\ h # h2
    BY <1>2
  <2>2. \A C : ConnectedOn(b, C) => ConnectedOn(n, C)
    BY <1>4 DEF ConnectedOn
  <2>3. CASE h = h1
    <3>1. ConnectedOn(b, C1) /\ ConnectedOn(b, C2)
      BY <1>1 DEF ConnectedOK
    <3>2. l1 \in C1 /\ l2 \in C2
      OBVIOUS
    <3> HIDE DEF C1, C2
    <3>3. ConnectedOn(b, C1 \cup C2)
      BY <1>1, <1>5, <3>1, <3>2, ConnectedSetsJoin
    <3> QED
      BY <1>2, <2>2, <2>3, <3>3
  <2>4. CASE h # h1
    <3>1. ConnectedOn(b, Chain(b, h))
      BY <1>1, <2>1 DEF ConnectedOK
    <3> QED
      BY <1>2, <2>1, <2>2, <2>4, <3>1
  <2> QED
    BY <2>3, <2>4
<1>10. MaximalBut(n, loc, Y)
  <2> SUFFICES ASSUME NEW l \in Stones(n), NEW m \in Adj(n, l), n.colors[m] = n.colors[l]
               PROVE  \/ n.chain_head[m] = n.chain_head[l]
                      \/ (l = loc /\ m \in Y) \/ (m = loc /\ l \in Y)
    BY DEF MaximalBut
  <2>1. m \in Stones(n)
    BY <1>6, AdjIsSymmetric DEF Stones
  <2>2. l \in Stones(b) /\ m \in Adj(b, l) /\ b.colors[m] = b.colors[l] /\ m \in Stones(b)
    BY <1>2, <1>3, <1>4, <2>1
  <2>3. \/ b.chain_head[m] = b.chain_head[l]
        \/ (l = loc /\ m \in Y) \/ (m = loc /\ l \in Y)
    BY <1>1, <2>2 DEF MaximalBut
  <2>4. b.chain_head[m] = b.chain_head[l] => n.chain_head[m] = n.chain_head[l]
    BY <1>3, <2>2 DEF Chain, Stones
  <2> QED
    BY <2>3, <2>4
<1>11. CountsOK(n, U)
  <2> SUFFICES ASSUME NEW h, IsHead(n, h)
               PROVE  n.chain_data[h] =
                 [owner |-> n.colors[h], num_locs |-> Cardinality(Chain(n, h)),
                  num_liberties |-> Cardinality(LibsOf(n, Chain(n, h)))
                                      + (IF h \in U THEN 1 ELSE 0)]
    BY DEF CountsOK
  <2>1. IsHead(b, h) /\ h # h2 /\ h \in Locs(b)
    BY <1>2 DEF IsHead, Stones
  <2>2. \A C : LibsOf(n, C) = LibsOf(b, C)
    BY <1>3, <1>4 DEF LibsOf
  <2>3. CASE h # h1
    <3>1. n.chain_data[h] = b.chain_data[h]
      BY <2>1, <2>3 DEF Joined
    <3>2. b.chain_data[h] =
            [owner |-> b.colors[h], num_locs |-> Cardinality(Chain(b, h)),
             num_liberties |-> Cardinality(LibsOf(b, Chain(b, h))) + (IF h \in U THEN 1 ELSE 0)]
      BY <1>1, <2>1 DEF CountsOK
    <3> QED
      BY <1>2, <1>3, <2>1, <2>2, <2>3, <3>1, <3>2
  <2>4. CASE h = h1
    <3> DEFINE A1 == LibsOf(b, C1)
               A2 == LibsOf(b, C2)
    <3>1. /\ IsFiniteSet(C1) /\ IsFiniteSet(C2) /\ Cardinality(C1) \in Nat /\ Cardinality(C2) \in Nat
      BY <1>1, <1>5, FiniteParts
    <3>2. A1 \subseteq Locs(b) /\ A2 \ A1 \subseteq Locs(b)
      BY DEF LibsOf
    <3>3. /\ IsFiniteSet(A1) /\ IsFiniteSet(A2 \ A1)
          /\ Cardinality(A1) \in Nat /\ Cardinality(A2 \ A1) \in Nat
      BY <1>1, <3>2, FiniteParts
    <3>4. LibsOf(b, C1 \cup C2) = A1 \cup (A2 \ A1)
      BY DEF LibsOf
    <3>5. b.chain_data[h1] = [owner |-> b.colors[h1], num_locs |-> Cardinality(C1),
                              num_liberties |-> Cardinality(A1) + 0]
      <4>1. b.chain_data[h1] = [owner |-> b.colors[h1], num_locs |-> Cardinality(C1),
                 num_liberties |-> Cardinality(A1) + (IF h1 \in U THEN 1 ELSE 0)]
        BY <1>1 DEF CountsOK
      <4>2. (IF h1 \in U THEN 1 ELSE 0) = 0
        OBVIOUS
      <4> QED
        BY <4>1, <4>2, Zenon
    <3>6. b.chain_data[h2].num_locs = Cardinality(C2)
      <4>1. b.chain_data[h2] = [owner |-> b.colors[h2], num_locs |-> Cardinality(C2),
                 num_liberties |-> Cardinality(A2) + (IF h2 \in U THEN 1 ELSE 0)]
        BY <1>1 DEF CountsOK
      <4> HIDE DEF C2
      <4> QED
        BY <4>1
    <3> HIDE DEF C1, C2, A1, A2
    <3>7. Cardinality(C1 \cup C2) = Cardinality(C1) + Cardinality(C2)
      <4>1. Cardinality(C1 \cup C2) = Cardinality(C1) + Cardinality(C2) - Cardinality({})
        BY <1>5, <3>1, FS_Union
      <4> QED
        BY <3>1, <4>1, FS_EmptySet
    <3>8. Cardinality(LibsOf(b, C1 \cup C2)) = Cardinality(A1) + Cardinality(A2 \ A1)
      <4>1. A1 \cap (A2 \ A1) = {}
        OBVIOUS
      <4>2. Cardinality(A1 \cup (A2 \ A1)) = Cardinality(A1) + Cardinality(A2 \ A1) - Cardinality({})
        BY <3>3, <4>1, FS_Union
      <4>3. PICK i, j : i = Cardinality(A1) /\ j = Cardinality(A2 \ A1) /\ i \in Nat /\ j \in Nat
        BY <3>3
      <4>4. i + j - Cardinality({}) = i + j
        BY <4>3, FS_EmptySet
      <4> QED
        BY <3>4, <4>2, <4>3, <4>4
    <3>9. /\ n.chain_data[h1].owner = b.chain_data[h1].owner
          /\ n.chain_data[h1].num_locs = b.chain_data[h1].num_locs + b.chain_data[h2].num_locs
          /\ n.chain_data[h1].num_liberties = b.chain_data[h1].num_liberties + Cardinality(A2 \ A1)
      BY DEF Joined, A1, A2, C1, C2
    <3>10. n.chain_data[h1] \in ChainData
      BY <1>3, <2>1, <2>4 DEF Boards
    <3>11. /\ n.chain_data[h1].owner = n.colors[h1]
           /\ n.chain_data[h1].num_locs = Cardinality(C1 \cup C2)
           /\ n.chain_data[h1].num_liberties = Cardinality(LibsOf(b, C1 \cup C2)) + 0
      <4>1. Cardinality(A1) + 0 + Cardinality(A2 \ A1) = Cardinality(A1) + Cardinality(A2 \ A1) + 0
        BY <3>3
      <4> QED
        BY <1>3, <3>5, <3>6, <3>7, <3>8, <3>9, <4>1
    <3>12. n.chain_data[h1] = [owner |-> n.colors[h1], num_locs |-> Cardinality(C1 \cup C2),
                               num_liberties |-> Cardinality(LibsOf(b, C1 \cup C2)) + 0]
      BY <3>10, <3>11 DEF ChainData
    <3> QED
      BY <1>2, <2>2, <2>4, <3>12
  <2> QED
    BY <2>3, <2>4
<1>12. HashOK(n)
  BY <1>1, <1>2, <1>3 DEF HashOK
<1> QED
  BY <1>6, <1>7, <1>8, <1>9, <1>10, <1>11, <1>12 DEF BoardOK

-----------------------------------------------------------------------------
(* Operations that leave the stones alone                                  *)

\* The two boards have the same stones in the same chains.
SameStones(n, b) ==
  /\ n.x_size = b.x_size /\ n.colors = b.colors /\ n.pos_hash = b.pos_hash
  /\ \A l \in Stones(b) :
       n.chain_head[l] = b.chain_head[l] /\ n.next_in_chain[l] = b.next_in_chain[l]

LEMMA SameParts ==
  ASSUME NEW n, NEW b, SameStones(n, b)
  PROVE  /\ Locs(n) = Locs(b) /\ Stones(n) = Stones(b)
         /\ \A l : Adj(n, l) = Adj(b, l)
         /\ \A h : Chain(n, h) = Chain(b, h) /\ (IsHead(n, h) <=> IsHead(b, h))
         /\ \A S : LibsOf(n, S) = LibsOf(b, S)
<1>1. Locs(n) = Locs(b) /\ Stones(n) = Stones(b)
  BY DEF SameStones, Locs, Stones
<1>2. \A l : Adj(n, l) = Adj(b, l)
  BY <1>1, SameAdj DEF SameStones
<1>3. \A h : Chain(n, h) = Chain(b, h) /\ (IsHead(n, h) <=> IsHead(b, h))
  BY <1>1 DEF SameStones, Chain, IsHead
<1>4. \A S : LibsOf(n, S) = LibsOf(b, S)
  BY <1>1, <1>2 DEF SameStones, LibsOf
<1> QED
  BY <1>1, <1>2, <1>3, <1>4

LEMMA SameStonesOK ==
  ASSUME NEW n, NEW b, SameStones(n, b), Typed(n), NEW loc, NEW Y, NEW U, BoardOK(b, loc, Y, U)
  PROVE  HeadsOK(n) /\ ListsOK(n) /\ ConnectedOK(n) /\ MaximalBut(n, loc, Y) /\ HashOK(n)
<1>1. Typed(b) /\ HeadsOK(b) /\ ListsOK(b) /\ ConnectedOK(b) /\ MaximalBut(b, loc, Y) /\ HashOK(b)
  BY DEF BoardOK
<1>2. /\ Locs(n) = Locs(b) /\ Stones(n) = Stones(b)
      /\ \A l : Adj(n, l) = Adj(b, l)
      /\ \A h : Chain(n, h) = Chain(b, h) /\ (IsHead(n, h) <=> IsHead(b, h))
  BY SameParts
<1>3. /\ n.colors = b.colors /\ n.pos_hash = b.pos_hash
      /\ \A l \in Stones(b) :
           n.chain_head[l] = b.chain_head[l] /\ n.next_in_chain[l] = b.next_in_chain[l]
  BY DEF SameStones
<1>4. HeadsOK(n)
  BY <1>1, <1>2, <1>3 DEF HeadsOK
<1>5. ListsOK(n)
  <2> SUFFICES ASSUME NEW h, IsHead(b, h) PROVE CircularOn(n.next_in_chain, Chain(b, h))
    BY <1>2 DEF ListsOK
  <2>1. CircularOn(b.next_in_chain, Chain(b, h))
    BY <1>1 DEF ListsOK
  <2>2. \A l \in Chain(b, h) : n.next_in_chain[l] = b.next_in_chain[l]
    BY <1>3 DEF Chain
  <2> QED
    BY <2>1, <2>2 DEF CircularOn
<1>6. ConnectedOK(n)
  BY <1>1, <1>2 DEF ConnectedOK, ConnectedOn
<1>7. MaximalBut(n, loc, Y)
  <2> SUFFICES ASSUME NEW l \in Stones(n), NEW m \in Adj(n, l), n.colors[m] = n.colors[l]
               PROVE  \/ n.chain_head[m] = n.chain_head[l]
                      \/ (l = loc /\ m \in Y) \/ (m = loc /\ l \in Y)
    BY DEF MaximalBut
  <2>1. m \in Stones(n)
    BY AdjIsSymmetric DEF Stones
  <2> QED
    BY <1>1, <1>2, <1>3, <2>1 DEF MaximalBut
<1>8. HashOK(n)
  BY <1>1, <1>2, <1>3 DEF HashOK
<1> QED
  BY <1>4, <1>5, <1>6, <1>7, <1>8

\* What chain_data says away from the heads does not matter.
LEMMA RecountIsOK ==
  ASSUME NEW n, NEW b, SameStones(n, b), Typed(n), NEW loc, NEW Y, NEW U, BoardOK(b, loc, Y, U),
         \A h : IsHead(b, h) => n.chain_data[h] = b.chain_data[h]
  PROVE  BoardOK(n, loc, Y, U)
<1>1. HeadsOK(n) /\ ListsOK(n) /\ ConnectedOK(n) /\ MaximalBut(n, loc, Y) /\ HashOK(n)
  BY SameStonesOK
<1>2. CountsOK(n, U)
  <2>1. /\ n.colors = b.colors
        /\ \A h : Chain(n, h) = Chain(b, h) /\ (IsHead(n, h) <=> IsHead(b, h))
        /\ \A S : LibsOf(n, S) = LibsOf(b, S)
    BY SameParts DEF SameStones
  <2> QED
    BY <2>1 DEF BoardOK, CountsOK
<1> QED
  BY <1>1, <1>2 DEF BoardOK

LEMMA CountedSame ==
  ASSUME NEW b, NEW U, NEW V, CountsOK(b, U), \A h : IsHead(b, h) => (h \in U <=> h \in V)
  PROVE  CountsOK(b, V)
BY DEF CountsOK

\* Tidy resets what no chain uses.
LEMMA TidyIsOK ==
  ASSUME NEW b, NEW loc, NEW Y, NEW U, BoardOK(b, loc, Y, U), NEW n, n = Tidy(b)
  PROVE  /\ BoardOK(n, loc, Y, U) /\ n.colors = b.colors
         /\ n.x_size = b.x_size /\ n.y_size = b.y_size
         /\ n.ko_loc = b.ko_loc /\ n.captures = b.captures
<1> DEFINE stones == {l \in Locs(b) : b.colors[l] # C_EMPTY}
           heads == {l \in stones : b.chain_head[l] = l}
           data == [l \in Locs(b) |-> IF l \in heads THEN b.chain_data[l] ELSE NoChain]
           head == [l \in Locs(b) |-> IF l \in stones THEN b.chain_head[l] ELSE NULL_LOC]
           next == [l \in Locs(b) |-> IF l \in stones THEN b.next_in_chain[l] ELSE NULL_LOC]
<1>1. Typed(b) /\ b \in Boards(b.x_size, Locs(b))
  BY DEF BoardOK, Typed
<1>3. n = [b EXCEPT !.chain_data = data, !.chain_head = head, !.next_in_chain = next]
  BY DEF Tidy
<1>4. /\ data \in [Locs(b) -> ChainData] /\ head \in [Locs(b) -> Int]
      /\ next \in [Locs(b) -> Int]
  <2>1. NoChain \in ChainData /\ NULL_LOC \in Int
    BY DEF NoChain, ChainData, NULL_LOC, C_EMPTY
  <2> HIDE DEF stones, heads
  <2> QED
    BY <1>1, <2>1 DEF Boards
<1>5. /\ \A h : IsHead(b, h) => data[h] = b.chain_data[h]
      /\ \A l \in Stones(b) : head[l] = b.chain_head[l] /\ next[l] = b.next_in_chain[l]
  BY DEF IsHead, Stones
<1> HIDE DEF data, head, next, stones, heads
<1>6. /\ n.chain_data = data /\ n.chain_head = head /\ n.next_in_chain = next
      /\ n.colors = b.colors /\ n.x_size = b.x_size /\ n.y_size = b.y_size
      /\ n.pos_hash = b.pos_hash /\ n.ko_loc = b.ko_loc /\ n.captures = b.captures
      /\ n \in Boards(b.x_size, Locs(b))
  BY <1>1, <1>3, <1>4 DEF Boards
<1>7. Typed(n)
  <2>1. Locs(n) = Locs(b)
    BY <1>6 DEF Locs
  <2> QED
    BY <1>1, <1>6, <2>1 DEF Typed
<1>8. SameStones(n, b) /\ \A h : IsHead(b, h) => n.chain_data[h] = b.chain_data[h]
  BY <1>5, <1>6 DEF SameStones
<1> QED
  BY <1>6, <1>7, <1>8, RecountIsOK

Marked(n, b, k, caps) == n = [b EXCEPT !.ko_loc = k, !.captures = caps]

LEMMA KoAndCapturesAreFree ==
  ASSUME NEW b, NEW loc, NEW Y, NEW U, BoardOK(b, loc, Y, U),
         NEW k \in Int, NEW caps \in [Players -> Int], NEW n, Marked(n, b, k, caps)
  PROVE  /\ BoardOK(n, loc, Y, U) /\ SameStones(n, b)
         /\ n.chain_head = b.chain_head /\ n.y_size = b.y_size /\ n.captures = caps
         /\ n.chain_data = b.chain_data /\ n.ko_loc = k
<1>1. Typed(b) /\ b \in Boards(b.x_size, Locs(b))
  BY DEF BoardOK, Typed
<1>2. /\ n.chain_data = b.chain_data /\ n.chain_head = b.chain_head
      /\ n.next_in_chain = b.next_in_chain
      /\ n.colors = b.colors /\ n.x_size = b.x_size /\ n.pos_hash = b.pos_hash
      /\ n.y_size = b.y_size /\ n.captures = caps /\ n.ko_loc = k
      /\ n \in Boards(b.x_size, Locs(b))
  BY <1>1 DEF Boards, Marked
<1>3. Typed(n)
  <2>1. Locs(n) = Locs(b)
    BY <1>2 DEF Locs
  <2> QED
    BY <1>1, <1>2, <2>1 DEF Typed
<1>4. SameStones(n, b) /\ \A h : IsHead(b, h) => n.chain_data[h] = b.chain_data[h]
  BY <1>2 DEF SameStones
<1> QED
  BY <1>2, <1>3, <1>4, RecountIsOK

\* A chain loses the liberty it had too much.
LEMMA EatingIsOK ==
  ASSUME NEW b, NEW loc, NEW Y, NEW U, BoardOK(b, loc, Y, U), NEW h0, IsHead(b, h0), h0 \in U,
         NEW n, n = addLiberties(b, h0, -1)
  PROVE  /\ BoardOK(n, loc, Y, U \ {h0}) /\ SameStones(n, b)
         /\ n.chain_head = b.chain_head /\ n.y_size = b.y_size /\ n.captures = b.captures
<1>1. Typed(b) /\ b \in Boards(b.x_size, Locs(b)) /\ CountsOK(b, U)
  BY DEF BoardOK, Typed
<1>2. h0 \in Locs(b)
  BY DEF IsHead, Stones
<1>3. PICK r : r = b.chain_data[h0] /\ r \in ChainData
  BY <1>1, <1>2 DEF Boards
<1>4. PICK k \in Int : k = r.num_liberties + -1 /\ k = r.num_liberties - 1
  <2>1. r.num_liberties \in Int
    BY <1>3 DEF ChainData
  <2>2. PICK i \in Int : i = r.num_liberties
    BY <2>1
  <2>3. i + -1 = i - 1 /\ i - 1 \in Int
    OBVIOUS
  <2> QED
    BY <2>2, <2>3
<1> DEFINE d == [r EXCEPT !.num_liberties = k]
<1>5. /\ d \in ChainData /\ d.owner = r.owner /\ d.num_locs = r.num_locs /\ d.num_liberties = k
  <2>1. d \in ChainData
    BY <1>3, <1>4 DEF ChainData
  <2>2. d.owner = r.owner
    BY <1>3 DEF ChainData
  <2>3. d.num_locs = r.num_locs
    BY <1>3 DEF ChainData
  <2>4. d.num_liberties = k
    BY <1>3 DEF ChainData
  <2> QED
    BY <2>1, <2>2, <2>3, <2>4
<1>6. n = [b EXCEPT !.chain_data = [@ EXCEPT ![h0] = d]]
  BY <1>1, <1>2, <1>3, <1>4 DEF addLiberties, Boards
<1> HIDE DEF d
<1>7. /\ n.chain_data = [b.chain_data EXCEPT ![h0] = d] /\ n.chain_head = b.chain_head
      /\ n.next_in_chain = b.next_in_chain
      /\ n.colors = b.colors /\ n.x_size = b.x_size /\ n.pos_hash = b.pos_hash
      /\ n.y_size = b.y_size /\ n.captures = b.captures
      /\ n \in Boards(b.x_size, Locs(b))
  BY <1>1, <1>2, <1>5, <1>6 DEF Boards
<1>8. Typed(n)
  <2>1. Locs(n) = Locs(b)
    BY <1>7 DEF Locs
  <2> QED
    BY <1>1, <1>7, <2>1 DEF Typed
<1>9. SameStones(n, b)
  BY <1>7 DEF SameStones
<1>10. HeadsOK(n) /\ ListsOK(n) /\ ConnectedOK(n) /\ MaximalBut(n, loc, Y) /\ HashOK(n)
  BY <1>8, <1>9, SameStonesOK
<1>11. CountsOK(n, U \ {h0})
  <2> SUFFICES ASSUME NEW h, IsHead(n, h)
               PROVE  n.chain_data[h] =
                 [owner |-> n.colors[h], num_locs |-> Cardinality(Chain(n, h)),
                  num_liberties |-> Cardinality(LibsOf(n, Chain(n, h)))
                                      + (IF h \in U \ {h0} THEN 1 ELSE 0)]
    BY DEF CountsOK
  <2>1. /\ IsHead(b, h) /\ Chain(n, h) = Chain(b, h) /\ n.colors = b.colors
        /\ LibsOf(n, Chain(b, h)) = LibsOf(b, Chain(b, h))
    BY <1>7, <1>9, SameParts
  <2>2. b.chain_data[h] =
            [owner |-> b.colors[h], num_locs |-> Cardinality(Chain(b, h)),
             num_liberties |-> Cardinality(LibsOf(b, Chain(b, h))) + (IF h \in U THEN 1 ELSE 0)]
    BY <1>1, <2>1 DEF CountsOK
  <2>3. h \in Locs(b) /\ DOMAIN b.chain_data = Locs(b)
    BY <1>1, <2>1 DEF IsHead, Stones, Boards
  <2>4. CASE h # h0
    <3>1. n.chain_data[h] = b.chain_data[h]
      BY <1>7, <2>3, <2>4
    <3>2. (IF h \in U THEN 1 ELSE 0) = (IF h \in U \ {h0} THEN 1 ELSE 0)
      BY <2>4
    <3> QED
      BY <2>1, <2>2, <3>1, <3>2, Zenon
  <2>5. CASE h = h0
    <3>1. n.chain_data[h] = d
      BY <1>7, <2>3, <2>5
    <3>2. Chain(b, h) \subseteq Locs(b) /\ LibsOf(b, Chain(b, h)) \subseteq Locs(b)
      BY DEF Chain, Stones, LibsOf
    <3>3. PICK i \in Nat : i = Cardinality(LibsOf(b, Chain(b, h)))
      BY <1>1, <3>2, FiniteParts
    <3>4. r = [owner |-> b.colors[h], num_locs |-> Cardinality(Chain(b, h)),
               num_liberties |-> i + 1]
      BY <1>3, <2>2, <2>5, <3>3
    <3>5. k = i + 0
      BY <1>4, <3>3, <3>4
    <3>6. d = [owner |-> b.colors[h], num_locs |-> Cardinality(Chain(b, h)),
               num_liberties |-> i + 0]
      BY <1>5, <3>4, <3>5 DEF ChainData
    <3>7. (IF h \in U \ {h0} THEN 1 ELSE 0) = 0
      BY <2>5
    <3> QED
      BY <2>1, <3>1, <3>3, <3>6, <3>7
  <2> QED
    BY <2>4, <2>5
<1> QED
  BY <1>7, <1>8, <1>9, <1>10, <1>11 DEF BoardOK

-----------------------------------------------------------------------------
(* A stone is placed                                                       *)

Alone(b, loc, pla) ==
  [placeStone(b, loc, pla) EXCEPT
     !.chain_data[loc] = [owner |-> pla, num_locs |-> 1,
                          num_liberties |-> getNumImmediateLiberties(b, loc)],
     !.chain_head[loc] = loc,
     !.next_in_chain[loc] = loc]

Placed(b, n, loc, pla) ==
  /\ n \in Boards(b.x_size, Locs(b)) /\ Locs(n) = Locs(b)
  /\ n.x_size = b.x_size /\ n.y_size = b.y_size /\ n.captures = b.captures
  /\ n.colors = [b.colors EXCEPT ![loc] = pla]
  /\ n.chain_head = [b.chain_head EXCEPT ![loc] = loc]
  /\ n.next_in_chain = [b.next_in_chain EXCEPT ![loc] = loc]
  /\ n.pos_hash = Xor(b.pos_hash, {<<loc, pla>>})
  /\ n.chain_data = [b.chain_data EXCEPT ![loc] =
       [owner |-> pla, num_locs |-> 1, num_liberties |-> Cardinality(AdjOf(b, loc, C_EMPTY))]]

LEMMA PlacedFields ==
  ASSUME NEW b, Typed(b), NEW loc \in Locs(b), NEW pla \in Players,
         NEW n, n = Alone(b, loc, pla)
  PROVE  Placed(b, n, loc, pla)
<1>1. b \in Boards(b.x_size, Locs(b)) /\ Locs(b) \subseteq Int /\ pla \in 0 .. 2
  BY DEF Typed, Players, P_BLACK, P_WHITE
<1>2. PICK i \in Nat : i = Cardinality(AdjOf(b, loc, C_EMPTY))
  <2>1. AdjOf(b, loc, C_EMPTY) \subseteq Locs(b)
    BY DEF AdjOf, Adj
  <2> QED
    BY <2>1, FiniteParts
<1> DEFINE d == [owner |-> pla, num_locs |-> 1, num_liberties |-> i]
<1>3. d \in ChainData
  BY <1>1 DEF ChainData
<1>4. n = [b EXCEPT !.colors = [@ EXCEPT ![loc] = pla], !.pos_hash = Xor(@, {<<loc, pla>>}),
                    !.chain_data = [@ EXCEPT ![loc] = d],
                    !.chain_head = [@ EXCEPT ![loc] = loc],
                    !.next_in_chain = [@ EXCEPT ![loc] = loc]]
  BY <1>1, <1>2 DEF Alone, placeStone, getNumImmediateLiberties, Boards
<1> HIDE DEF d
<1>5. /\ n.x_size = b.x_size /\ n.y_size = b.y_size /\ n.captures = b.captures
      /\ n.ko_loc = b.ko_loc
      /\ n.colors = [b.colors EXCEPT ![loc] = pla]
      /\ n.chain_head = [b.chain_head EXCEPT ![loc] = loc]
      /\ n.next_in_chain = [b.next_in_chain EXCEPT ![loc] = loc]
      /\ n.pos_hash = Xor(b.pos_hash, {<<loc, pla>>})
      /\ n.chain_data = [b.chain_data EXCEPT ![loc] = d]
  BY <1>1, <1>4 DEF Boards
<1>6. /\ n.colors \in [Locs(b) -> 0 .. 2] /\ n.chain_head \in [Locs(b) -> Int]
      /\ n.next_in_chain \in [Locs(b) -> Int] /\ n.chain_data \in [Locs(b) -> ChainData]
  BY <1>1, <1>3, <1>5 DEF Boards
<1>7. n.pos_hash \subseteq Int \X (0 .. 2)
  <2>1. b.pos_hash \subseteq Int \X (0 .. 2) /\ {<<loc, pla>>} \subseteq Int \X (0 .. 2)
    BY <1>1 DEF Boards
  <2> QED
    BY <1>5, <2>1 DEF Xor
<1>8. n \in Boards(b.x_size, Locs(b)) /\ Locs(n) = Locs(b)
  BY <1>1, <1>4, <1>5, <1>6, <1>7 DEF Boards, Locs
<1> QED
  BY <1>2, <1>5, <1>8 DEF Placed, d

\* The heads of the chains around loc, without those of the set seen and that of loc:
\* each still counts loc as a liberty.
Waiting(b, loc, seen) ==
  {b.chain_head[m] : m \in Adj(b, loc) \cap Stones(b)} \ (seen \cup {b.chain_head[loc]})

\* The stones after a stone is placed on an empty point.
LEMMA PlacedStones ==
  ASSUME NEW b, Typed(b), HeadsOK(b), NEW loc \in Locs(b), b.colors[loc] = C_EMPTY,
         NEW pla \in Players, NEW n, Placed(b, n, loc, pla)
  PROVE  /\ Stones(n) = Stones(b) \cup {loc} /\ loc \notin Stones(b)
         /\ n.colors[loc] = pla /\ n.chain_head[loc] = loc /\ n.next_in_chain[loc] = loc
         /\ \A l \in Locs(b) : l # loc =>
              /\ n.colors[l] = b.colors[l] /\ n.chain_head[l] = b.chain_head[l]
              /\ n.next_in_chain[l] = b.next_in_chain[l] /\ n.chain_data[l] = b.chain_data[l]
         /\ Chain(n, loc) = {loc}
         /\ \A h : h # loc => Chain(n, h) = Chain(b, h)
         /\ \A h : IsHead(n, h) <=> IsHead(b, h) \/ h = loc
         /\ ~IsHead(b, loc)
<1>1. b \in Boards(b.x_size, Locs(b)) /\ pla # C_EMPTY
  BY DEF Typed, Players, P_BLACK, P_WHITE, C_EMPTY
<1>2. loc \notin Stones(b) /\ Stones(b) \subseteq Locs(b)
  BY DEF Stones
<1>3. n.colors[loc] = pla /\ n.chain_head[loc] = loc /\ n.next_in_chain[loc] = loc
  BY <1>1 DEF Placed, Boards
<1>4. \A l \in Locs(b) : l # loc =>
        /\ n.colors[l] = b.colors[l] /\ n.chain_head[l] = b.chain_head[l]
        /\ n.next_in_chain[l] = b.next_in_chain[l] /\ n.chain_data[l] = b.chain_data[l]
  BY <1>1 DEF Placed, Boards
<1>5. Stones(n) = Stones(b) \cup {loc}
  <2>1. Locs(n) = Locs(b)
    BY DEF Placed
  <2> QED
    BY <1>1, <1>3, <1>4, <2>1 DEF Stones
<1>6. ~IsHead(b, loc) /\ \A l \in Stones(b) : b.chain_head[l] # loc
  BY <1>2 DEF IsHead, HeadsOK
<1>7. \A l \in Stones(b) : l \in Locs(b) /\ l # loc
  BY <1>2
<1>8. Chain(n, loc) = {loc}
  BY <1>3, <1>4, <1>5, <1>6, <1>7 DEF Chain
<1>9. \A h : h # loc => Chain(n, h) = Chain(b, h)
  BY <1>3, <1>4, <1>5, <1>7 DEF Chain
<1>10. \A h : IsHead(n, h) <=> IsHead(b, h) \/ h = loc
  BY <1>3, <1>4, <1>5, <1>7 DEF IsHead
<1> QED
  BY <1>2, <1>3, <1>4, <1>5, <1>6, <1>8, <1>9, <1>10

LEMMA PlacingIsWhole ==
  ASSUME NEW b, GoodBoard(b), NEW loc \in Locs(b), b.colors[loc] = C_EMPTY,
         NEW pla \in Players, NEW n, Placed(b, n, loc, pla)
  PROVE  /\ Typed(n) /\ HeadsOK(n) /\ ListsOK(n) /\ ConnectedOK(n)
         /\ MaximalBut(n, loc, Adj(n, loc)) /\ HashOK(n)
<1>1. /\ Typed(b) /\ HeadsOK(b) /\ ListsOK(b) /\ ConnectedOK(b)
      /\ MaximalBut(b, NULL_LOC, {}) /\ HashOK(b)
  BY DEF GoodBoard, BoardOK
<1>2. /\ Stones(n) = Stones(b) \cup {loc} /\ loc \notin Stones(b)
      /\ n.colors[loc] = pla /\ n.chain_head[loc] = loc /\ n.next_in_chain[loc] = loc
      /\ \A l \in Locs(b) : l # loc =>
           /\ n.colors[l] = b.colors[l] /\ n.chain_head[l] = b.chain_head[l]
           /\ n.next_in_chain[l] = b.next_in_chain[l]
      /\ Chain(n, loc) = {loc}
      /\ \A h : h # loc => Chain(n, h) = Chain(b, h)
      /\ \A h : IsHead(n, h) <=> IsHead(b, h) \/ h = loc
      /\ ~IsHead(b, loc)
  BY <1>1, PlacedStones
<1>3. /\ n \in Boards(b.x_size, Locs(b)) /\ Locs(n) = Locs(b) /\ n.x_size = b.x_size
      /\ n.pos_hash = Xor(b.pos_hash, {<<loc, pla>>})
  BY DEF Placed
<1>4. \A l : Adj(n, l) = Adj(b, l)
  BY <1>3, SameAdj
<1>5. \A l \in Stones(b) : l \in Locs(b) /\ l # loc
  BY <1>2 DEF Stones
<1>6. Typed(n)
  BY <1>1, <1>3 DEF Typed
<1>7. HeadsOK(n)
  <2> SUFFICES ASSUME NEW l \in Stones(n)
               PROVE  /\ IsHead(n, n.chain_head[l])
                      /\ n.colors[n.chain_head[l]] = n.colors[l]
    BY DEF HeadsOK
  <2>1. CASE l = loc
    BY <1>2, <2>1
  <2>2. CASE l # loc
    <3>1. l \in Stones(b) /\ n.chain_head[l] = b.chain_head[l] /\ n.colors[l] = b.colors[l]
      BY <1>2, <1>5, <2>2
    <3>2. IsHead(b, b.chain_head[l]) /\ b.colors[b.chain_head[l]] = b.colors[l]
      BY <1>1, <3>1 DEF HeadsOK
    <3>3. b.chain_head[l] \in Stones(b)
      BY <3>2 DEF IsHead
    <3> QED
      BY <1>2, <1>5, <3>1, <3>2, <3>3
  <2> QED
    BY <2>1, <2>2
<1>8. ListsOK(n)
  <2> SUFFICES ASSUME NEW h, IsHead(n, h) PROVE CircularOn(n.next_in_chain, Chain(n, h))
    BY DEF ListsOK
  <2>1. CASE h = loc
    <3>1. CircularOn(n.next_in_chain, {loc})
      BY <1>2 DEF CircularOn
    <3> QED
      BY <1>2, <2>1, <3>1
  <2>2. CASE h # loc
    <3>1. CircularOn(b.next_in_chain, Chain(b, h))
      BY <1>1, <1>2, <2>2 DEF ListsOK
    <3>2. \A l \in Chain(b, h) : n.next_in_chain[l] = b.next_in_chain[l]
      BY <1>2, <1>5 DEF Chain
    <3>3. CircularOn(n.next_in_chain, Chain(b, h))
      BY <3>1, <3>2 DEF CircularOn
    <3> QED
      BY <1>2, <2>2, <3>3
  <2> QED
    BY <2>1, <2>2
<1>9. ConnectedOK(n)
  <2> SUFFICES ASSUME NEW h, IsHead(n, h) PROVE ConnectedOn(n, Chain(n, h))
    BY DEF ConnectedOK
  <2>1. CASE h = loc
    <3>1. ConnectedOn(n, {loc})
      BY DEF ConnectedOn
    <3> QED
      BY <1>2, <2>1, <3>1
  <2>2. CASE h # loc
    <3>1. ConnectedOn(b, Chain(b, h))
      BY <1>1, <1>2, <2>2 DEF ConnectedOK
    <3>2. ConnectedOn(n, Chain(b, h))
      BY <1>4, <3>1 DEF ConnectedOn
    <3> QED
      BY <1>2, <2>2, <3>2
  <2> QED
    BY <2>1, <2>2
<1>10. MaximalBut(n, loc, Adj(n, loc))
  <2> SUFFICES ASSUME NEW l \in Stones(n), NEW m \in Adj(n, l), n.colors[m] = n.colors[l],
                      l # loc, m # loc
               PROVE  n.chain_head[m] = n.chain_head[l]
    <3>1. \A l \in Stones(n) : loc \in Adj(n, l) => l \in Adj(n, loc)
      BY <1>6, AdjIsSymmetric DEF Stones
    <3> QED
      BY <3>1 DEF MaximalBut
  <2>1. m \in Stones(n)
    BY <1>6, AdjIsSymmetric DEF Stones
  <2>2. l \in Stones(b) /\ m \in Stones(b) /\ m \in Adj(b, l)
    BY <1>2, <1>4, <2>1
  <2>3. b.colors[m] = b.colors[l]
    BY <1>2, <1>5, <2>2
  <2>4. b.chain_head[m] = b.chain_head[l]
    BY <1>1, <2>2, <2>3 DEF MaximalBut
  <2> QED
    BY <1>2, <1>5, <2>2, <2>4
<1>11. HashOK(n)
  <2>1. b.pos_hash = {<<l, b.colors[l]>> : l \in Stones(b)}
    BY <1>1 DEF HashOK
  <2>2. \A x : x \in Xor(b.pos_hash, {<<loc, pla>>})
                <=> x \in {<<l, n.colors[l]>> : l \in Stones(b) \cup {loc}}
    BY <1>2, <1>5, <2>1 DEF Xor
  <2>3. Xor(b.pos_hash, {<<loc, pla>>}) = {<<l, n.colors[l]>> : l \in Stones(b) \cup {loc}}
    BY <2>2
  <2> QED
    BY <1>2, <1>3, <2>3 DEF HashOK
<1> QED
  BY <1>6, <1>7, <1>8, <1>9, <1>10, <1>11

LEMMA PlacingIsCounted ==
  ASSUME NEW b, GoodBoard(b), NEW loc \in Locs(b), b.colors[loc] = C_EMPTY,
         NEW pla \in Players, NEW n, Placed(b, n, loc, pla)
  PROVE  CountsOK(n, Waiting(n, loc, {}))
<1>1. Typed(b) /\ HeadsOK(b) /\ CountsOK(b, {})
  BY DEF GoodBoard, BoardOK
<1>2. /\ Stones(n) = Stones(b) \cup {loc} /\ loc \notin Stones(b)
      /\ n.colors[loc] = pla /\ n.chain_head[loc] = loc
      /\ \A l \in Locs(b) : l # loc =>
           /\ n.colors[l] = b.colors[l] /\ n.chain_head[l] = b.chain_head[l]
           /\ n.chain_data[l] = b.chain_data[l]
      /\ Chain(n, loc) = {loc}
      /\ \A h : h # loc => Chain(n, h) = Chain(b, h)
      /\ \A h : IsHead(n, h) <=> IsHead(b, h) \/ h = loc
  BY <1>1, PlacedStones
<1>3. /\ Locs(n) = Locs(b) /\ n.x_size = b.x_size
      /\ n.chain_data[loc] =
           [owner |-> pla, num_locs |-> 1, num_liberties |-> Cardinality(AdjOf(b, loc, C_EMPTY))]
  BY <1>1 DEF Placed, Typed, Boards
<1>4. \A l : Adj(n, l) = Adj(b, l)
  BY <1>3, SameAdj
<1>5. \A l \in Stones(b) : l \in Locs(b) /\ l # loc
  BY <1>2 DEF Stones
<1>6. pla # C_EMPTY
  BY DEF Players, P_BLACK, P_WHITE, C_EMPTY
<1>7. Adj(b, loc) \subseteq Locs(b) \ {loc}
  BY <1>1, AdjIsSymmetric
<1> SUFFICES ASSUME NEW h, IsHead(n, h)
             PROVE  n.chain_data[h] =
               [owner |-> n.colors[h], num_locs |-> Cardinality(Chain(n, h)),
                num_liberties |-> Cardinality(LibsOf(n, Chain(n, h)))
                                    + (IF h \in Waiting(n, loc, {}) THEN 1 ELSE 0)]
  BY DEF CountsOK
<1>8. CASE h = loc
  <2>1. h \notin Waiting(n, loc, {})
    BY <1>2, <1>8 DEF Waiting
  <2>2. LibsOf(n, {loc}) = AdjOf(b, loc, C_EMPTY)
    <3>1. \A a \in Locs(b) : loc \in Adj(b, a) <=> a \in Adj(b, loc)
      BY <1>1, AdjIsSymmetric
    <3>2. \A a \in LibsOf(n, {loc}) : a \in AdjOf(b, loc, C_EMPTY)
      BY <1>2, <1>3, <1>4, <1>6, <1>7, <3>1 DEF LibsOf, AdjOf
    <3>3. \A a \in AdjOf(b, loc, C_EMPTY) : a \in LibsOf(n, {loc})
      BY <1>2, <1>3, <1>4, <1>7, <3>1 DEF LibsOf, AdjOf
    <3> QED
      BY <3>2, <3>3
  <2>3. AdjOf(b, loc, C_EMPTY) \subseteq Locs(b)
    BY DEF AdjOf, Adj
  <2>4. PICK i \in Nat : i = Cardinality(AdjOf(b, loc, C_EMPTY))
    BY <1>1, <2>3, FiniteParts
  <2>5. Cardinality({loc}) = 1
    BY FS_Singleton
  <2>6. i + 0 = i
    OBVIOUS
  <2> QED
    BY <1>2, <1>3, <1>8, <2>1, <2>2, <2>4, <2>5, <2>6
<1>9. CASE h # loc
  <2> DEFINE D == Chain(b, h)
             waits == h \in Waiting(n, loc, {})
  <2>1. IsHead(b, h) /\ Chain(n, h) = D /\ h \in Locs(b) /\ D \subseteq Locs(b)
        /\ n.chain_data[h] = b.chain_data[h] /\ n.colors[h] = b.colors[h]
    BY <1>2, <1>5, <1>9 DEF IsHead, Chain, Stones
  <2>2. waits <=> \E m \in Adj(b, loc) : m \in D
    <3>1. \A m \in Adj(b, loc) : m \in Stones(n) <=> m \in Stones(b)
      BY <1>2, <1>7
    <3>2. \A m \in Adj(b, loc) : n.chain_head[m] = b.chain_head[m]
      BY <1>2, <1>7
    <3> QED
      BY <1>2, <1>4, <1>9, <3>1, <3>2 DEF Waiting, Chain
  <2>3. \A a \in Locs(b) : a # loc => (a \in LibsOf(n, D) <=> a \in LibsOf(b, D))
    BY <1>2, <1>3, <1>4 DEF LibsOf
  <2>4. loc \notin LibsOf(n, D)
    BY <1>2, <1>6 DEF LibsOf
  <2>5. loc \in LibsOf(b, D) <=> waits
    <3> HIDE DEF D, waits
    <3> QED
      BY <2>2 DEF LibsOf
  <2>6. LibsOf(n, D) \subseteq Locs(b) /\ LibsOf(b, D) \subseteq Locs(b)
    BY <1>3 DEF LibsOf
  <2>7. LibsOf(n, D) = LibsOf(b, D) \ {loc}
    BY <2>3, <2>4, <2>6
  <2>8. IsFiniteSet(LibsOf(b, D)) /\ IsFiniteSet(LibsOf(n, D))
    BY <1>1, <2>6, FiniteParts
  <2>9. PICK i, j \in Nat : i = Cardinality(LibsOf(b, D)) /\ j = Cardinality(LibsOf(n, D))
    BY <1>1, <2>6, FiniteParts
  <2> HIDE DEF D, waits
  <2>10. i + 0 = j + (IF waits THEN 1 ELSE 0)
    <3>1. CASE waits
      <4>1. Cardinality(LibsOf(b, D) \ {loc}) = Cardinality(LibsOf(b, D)) - 1
        BY <2>5, <2>8, <3>1, FS_RemoveElement
      <4> QED
        BY <2>7, <2>9, <3>1, <4>1
    <3>2. CASE ~waits
      <4>1. LibsOf(n, D) = LibsOf(b, D)
        BY <2>5, <2>7, <3>2
      <4> QED
        BY <2>9, <3>2, <4>1
    <3> QED
      BY <3>1, <3>2
  <2>11. b.chain_data[h] = [owner |-> b.colors[h], num_locs |-> Cardinality(D),
                            num_liberties |-> i + 0]
    <3>1. b.chain_data[h] =
        [owner |-> b.colors[h], num_locs |-> Cardinality(Chain(b, h)),
         num_liberties |-> Cardinality(LibsOf(b, Chain(b, h))) + (IF h \in {} THEN 1 ELSE 0)]
      BY <1>1, <2>1 DEF CountsOK
    <3>2. (IF h \in {} THEN 1 ELSE 0) = 0
      OBVIOUS
    <3> QED
      BY <2>9, <3>1, <3>2 DEF D
  <2>12. n.chain_data[h] = [owner |-> n.colors[h], num_locs |-> Cardinality(Chain(n, h)),
                            num_liberties |-> Cardinality(LibsOf(n, Chain(n, h)))
                                                + (IF waits THEN 1 ELSE 0)]
    BY <2>1, <2>9, <2>10, <2>11
  <2> QED
    BY <2>12 DEF waits
<1> QED
  BY <1>8, <1>9

-----------------------------------------------------------------------------
(* The neighbours of the stone are met one after the other                 *)

\* c has the size of b, and no stones that b does not have, except at loc.
NoNewStones(b, c, loc) ==
  /\ c.x_size = b.x_size /\ Locs(c) = Locs(b)
  /\ \A l \in Locs(b) : l # loc /\ b.colors[l] = C_EMPTY => c.colors[l] = C_EMPTY

\* The board when the neighbours of X have been met: those of the colour of the stone
\* are in its chain, the opponent's chains are in seen.
Met(b, loc, pla, X, seen) ==
  /\ BoardOK(b, loc, Adj(b, loc) \ X, Waiting(b, loc, seen))
  /\ loc \in Stones(b) /\ b.colors[loc] = pla
  /\ \A m \in X : b.colors[m] = pla => b.chain_head[m] = b.chain_head[loc]
  /\ \A m \in X : b.colors[m] = getOpp(pla) => b.chain_head[m] \in seen
  /\ \A h \in seen : b.colors[h] # pla
  /\ X \subseteq Locs(b) /\ seen \subseteq Locs(b)

LEMMA MetNothing ==
  ASSUME NEW b, GoodBoard(b), NEW loc \in Locs(b), b.colors[loc] = C_EMPTY,
         NEW pla \in Players, NEW n, n = Alone(b, loc, pla)
  PROVE  Met(n, loc, pla, {}, {}) /\ NoNewStones(b, n, loc)
<1>1. Typed(b) /\ HeadsOK(b)
  BY DEF GoodBoard, BoardOK
<1>2. Placed(b, n, loc, pla)
  BY <1>1, PlacedFields
<1>3. BoardOK(n, loc, Adj(n, loc), Waiting(n, loc, {}))
  BY <1>2, PlacingIsWhole, PlacingIsCounted DEF BoardOK
<1>4. Adj(n, loc) \ {} = Adj(n, loc)
  OBVIOUS
<1>5. /\ Stones(n) = Stones(b) \cup {loc} /\ n.colors[loc] = pla
      /\ \A l \in Locs(b) : l # loc => n.colors[l] = b.colors[l]
  BY <1>1, <1>2, PlacedStones
<1>6. n.x_size = b.x_size /\ Locs(n) = Locs(b)
  BY <1>2 DEF Placed
<1> QED
  BY <1>3, <1>4, <1>5, <1>6 DEF Met, NoNewStones

\* There is nothing to do about adj.
LEMMA MetFreely ==
  ASSUME NEW b, NEW loc, NEW pla, NEW X, NEW seen, Met(b, loc, pla, X, seen),
         NEW adj \in Adj(b, loc),
         b.colors[adj] = pla => b.chain_head[adj] = b.chain_head[loc],
         b.colors[adj] = getOpp(pla) => b.chain_head[adj] \in seen
  PROVE  Met(b, loc, pla, X \cup {adj}, seen)
<1>1. BoardOK(b, loc, Adj(b, loc) \ X, Waiting(b, loc, seen)) /\ b.colors[loc] = pla
      /\ loc \in Stones(b)
  BY DEF Met
<1>2. MaximalBut(b, loc, Adj(b, loc) \ (X \cup {adj}))
  <2>1. MaximalBut(b, loc, Adj(b, loc) \ X)
    BY <1>1 DEF BoardOK
  <2>2. b.colors[adj] = b.colors[loc] => b.chain_head[adj] = b.chain_head[loc]
    BY <1>1
  <2> SUFFICES ASSUME NEW l \in Stones(b), NEW m \in Adj(b, l), b.colors[m] = b.colors[l]
               PROVE  \/ b.chain_head[m] = b.chain_head[l]
                      \/ (l = loc /\ m \in Adj(b, loc) \ (X \cup {adj}))
                      \/ (m = loc /\ l \in Adj(b, loc) \ (X \cup {adj}))
    BY DEF MaximalBut
  <2>3. \/ b.chain_head[m] = b.chain_head[l]
        \/ (l = loc /\ m \in Adj(b, loc) \ X) \/ (m = loc /\ l \in Adj(b, loc) \ X)
    BY <2>1 DEF MaximalBut
  <2>4. l = loc /\ m = adj => b.chain_head[m] = b.chain_head[l]
    BY <2>2
  <2>5. m = loc /\ l = adj => b.chain_head[m] = b.chain_head[l]
    BY <2>2
  <2> QED
    BY <2>3, <2>4, <2>5
<1>3. BoardOK(b, loc, Adj(b, loc) \ (X \cup {adj}), Waiting(b, loc, seen))
  BY <1>1, <1>2 DEF BoardOK
<1>4. adj \in Locs(b)
  BY DEF Adj
<1> QED
  BY <1>3, <1>4 DEF Met

\* What the stone's chain and a chain around it are, before either changes.
LEMMA AroundStone ==
  ASSUME NEW b, NEW loc, NEW pla, NEW X, NEW seen, Met(b, loc, pla, X, seen),
         NEW adj \in Adj(b, loc), b.colors[adj] # C_EMPTY
  PROVE  /\ adj \in Stones(b) /\ IsHead(b, b.chain_head[adj]) /\ IsHead(b, b.chain_head[loc])
         /\ b.colors[b.chain_head[adj]] = b.colors[adj] /\ b.colors[b.chain_head[loc]] = pla
         /\ adj \in Chain(b, b.chain_head[adj]) /\ loc \in Chain(b, b.chain_head[loc])
         /\ b.chain_head[adj] # b.chain_head[loc] /\ b.chain_head[adj] \notin seen
              => b.chain_head[adj] \in Waiting(b, loc, seen)
<1>1. HeadsOK(b) /\ loc \in Stones(b) /\ b.colors[loc] = pla
  BY DEF Met, BoardOK
<1>2. adj \in Stones(b)
  BY DEF Adj, Stones
<1> QED
  BY <1>1, <1>2 DEF HeadsOK, Chain, Waiting

\* The next neighbour to meet is of an opponent's chain that was not seen yet.
MeetsOther(b, loc, pla, X, seen, adj, h) ==
  /\ Met(b, loc, pla, X, seen) /\ adj \in Adj(b, loc) /\ b.colors[adj] = getOpp(pla)
  /\ h = b.chain_head[adj] /\ h \notin seen

Eaten(n, b, loc, pla, X, seen, adj, h) ==
  /\ Met(n, loc, pla, X \cup {adj}, seen \cup {h})
  /\ SameStones(n, b) /\ n.chain_head = b.chain_head /\ n.captures = b.captures

LEMMA EatenIsMet ==
  ASSUME NEW b, NEW loc, NEW pla \in Players, NEW X, NEW seen, NEW adj, NEW h,
         MeetsOther(b, loc, pla, X, seen, adj, h), NEW n, n = addLiberties(b, h, -1)
  PROVE  Eaten(n, b, loc, pla, X, seen, adj, h)
<1> USE DEF MeetsOther, Eaten
<1> DEFINE U == Waiting(b, loc, seen)
<1>1. getOpp(pla) # pla /\ getOpp(pla) # C_EMPTY
  BY DEF getOpp, Players, P_BLACK, P_WHITE, C_EMPTY
<1>2. /\ IsHead(b, h) /\ b.colors[h] = getOpp(pla) /\ b.colors[b.chain_head[loc]] = pla
  BY <1>1, AroundStone
<1>3. h # b.chain_head[loc]
  BY <1>1, <1>2
<1>4. h \in U
  BY <1>1, <1>3, AroundStone
<1>5. BoardOK(b, loc, Adj(b, loc) \ X, U)
  BY DEF Met
<1> HIDE DEF U
<1>6. /\ BoardOK(n, loc, Adj(b, loc) \ X, U \ {h}) /\ SameStones(n, b)
      /\ n.chain_head = b.chain_head /\ n.captures = b.captures
  BY <1>2, <1>4, <1>5, EatingIsOK
<1>7. /\ Stones(n) = Stones(b) /\ n.colors = b.colors /\ \A l : Adj(n, l) = Adj(b, l)
  BY <1>6, SameParts DEF SameStones
<1>8. Waiting(n, loc, seen \cup {h}) = U \ {h}
  BY <1>6, <1>7 DEF Waiting, U
<1>9. Met(n, loc, pla, X, seen \cup {h})
  <2>1. BoardOK(n, loc, Adj(n, loc) \ X, Waiting(n, loc, seen \cup {h}))
    BY <1>6, <1>7, <1>8
  <2>2. \A g \in seen \cup {h} : n.colors[g] # pla
    BY <1>1, <1>2, <1>7 DEF Met
  <2>3. h \in Locs(b) /\ Locs(n) = Locs(b)
    BY <1>2, <1>6, SameParts DEF IsHead, Stones
  <2> QED
    BY <1>6, <1>7, <2>1, <2>2, <2>3 DEF Met
<1>10. Met(n, loc, pla, X \cup {adj}, seen \cup {h})
  <2>1. n.colors[adj] = getOpp(pla) /\ n.chain_head[adj] = h /\ adj \in Adj(n, loc)
    BY <1>6, <1>7
  <2> QED
    BY <1>1, <1>9, <2>1, MetFreely
<1> QED
  BY <1>6, <1>10

\* The opponent's chain at adj, which has been met, is removed.
LEMMA CapturedIsMet ==
  ASSUME NEW b, NEW loc, NEW pla \in Players, NEW X, NEW seen, Met(b, loc, pla, X, seen),
         NEW adj \in Stones(b), b.colors[adj] = getOpp(pla), b.chain_head[adj] \in seen,
         NEW n, n = removeChain(b, adj)
  PROVE  Met(n, loc, pla, X, seen) /\ NoNewStones(b, n, loc)
<1> DEFINE h0 == b.chain_head[adj]
           U == Waiting(b, loc, seen)
           Y == Adj(b, loc) \ X
<1>1. getOpp(pla) # pla /\ getOpp(pla) # C_EMPTY /\ pla # C_EMPTY
  BY DEF getOpp, Players, P_BLACK, P_WHITE, C_EMPTY
<1>2. BoardOK(b, loc, Y, U) /\ b.colors[loc] = pla /\ loc \in Stones(b) /\ HeadsOK(b)
  BY DEF Met, BoardOK
<1>3. /\ BoardOK(n, loc, Y, U)
      /\ Removed(b, n, Chain(b, h0), b.colors[adj])
  <2>1. b.colors[adj] # b.colors[loc]
    BY <1>1, <1>2
  <2> HIDE DEF Y, U
  <2> QED
    BY <1>2, <2>1, RemoveChainIsOK
<1>4. IsHead(b, h0) /\ b.colors[h0] = b.colors[adj]
  BY <1>2 DEF HeadsOK
<1>5. /\ Stones(n) = Stones(b) \ Chain(b, h0)
      /\ \A l \in Stones(n) : n.colors[l] = b.colors[l]
      /\ \A h : IsHead(n, h) <=> IsHead(b, h) /\ h # h0
  <2>1. Removed(b, n, Chain(b, h0), b.colors[h0])
    BY <1>3, <1>4
  <2>2. Typed(b)
    BY <1>2 DEF BoardOK
  <2> HIDE DEF h0
  <2> QED
    BY <1>2, <1>4, <2>1, <2>2, RestOfStones
<1>6. /\ n.x_size = b.x_size /\ Locs(n) = Locs(b) /\ n.chain_head = b.chain_head
      /\ n.colors = [l \in Locs(b) |-> IF l \in Chain(b, h0) THEN C_EMPTY ELSE b.colors[l]]
  BY <1>3 DEF Removed
<1>7. \A l : Adj(n, l) = Adj(b, l)
  BY <1>6, SameAdj
<1>8. loc \in Stones(n) /\ n.colors[loc] = pla
  <2>1. loc \notin Chain(b, h0)
    BY <1>1, <1>2, <1>4 DEF Chain, HeadsOK
  <2> QED
    BY <1>2, <1>5, <2>1
<1>9. \A l \in Locs(b) : n.colors[l] = b.colors[l] \/ n.colors[l] = C_EMPTY
  BY <1>6
<1>10. CountsOK(n, Waiting(n, loc, seen))
  <2>1. \A h : IsHead(n, h) => (h \in U <=> h \in Waiting(n, loc, seen))
    <3> SUFFICES ASSUME NEW h, IsHead(n, h) PROVE h \in U <=> h \in Waiting(n, loc, seen)
      OBVIOUS
    <3>1. h # h0
      BY <1>5
    <3>2. \A m \in Stones(b) : b.chain_head[m] = h => m \in Stones(n)
      BY <1>5, <3>1 DEF Chain
    <3>3. Stones(n) \subseteq Stones(b)
      BY <1>5
    <3> HIDE DEF h0
    <3> QED
      BY <1>6, <1>7, <3>2, <3>3 DEF Waiting
  <2> HIDE DEF U
  <2>2. CountsOK(n, U)
    BY <1>3 DEF BoardOK
  <2> QED
    BY <2>1, <2>2, CountedSame
<1>11. BoardOK(n, loc, Adj(n, loc) \ X, Waiting(n, loc, seen))
  BY <1>3, <1>7, <1>10 DEF BoardOK
<1>12. \A m \in X : n.colors[m] = pla => n.chain_head[m] = n.chain_head[loc]
  BY <1>1, <1>6, <1>9 DEF Met
<1>13. \A m \in X : n.colors[m] = getOpp(pla) => n.chain_head[m] \in seen
  BY <1>1, <1>6, <1>9 DEF Met
<1>14. (\A h \in seen : n.colors[h] # pla) /\ X \subseteq Locs(n) /\ seen \subseteq Locs(n)
  BY <1>1, <1>6, <1>9 DEF Met
<1> QED
  BY <1>6, <1>8, <1>9, <1>11, <1>12, <1>13, <1>14 DEF Met, NoNewStones

\* The stones are the same, and the opponent's in the same chains.
SameOpponents(b, n, pla) ==
  /\ n.colors = b.colors /\ n.captures = b.captures
  /\ \A l \in Stones(b) : b.colors[l] # pla => n.chain_head[l] = b.chain_head[l]

\* The next neighbour to meet is of another chain of the stone's colour.
MeetsOwn(b, loc, pla, X, seen, adj, h) ==
  /\ Met(b, loc, pla, X, seen) /\ adj \in Adj(b, loc) /\ b.colors[adj] = pla
  /\ h = b.chain_head[adj] /\ h # b.chain_head[loc]

InSomeOrder(h1, h2, h, g) == (h1 = h /\ h2 = g) \/ (h1 = g /\ h2 = h)

\* A chain of the stone's colour that still waited is joined with the stone's.
LEMMA JoinedIsMet ==
  ASSUME NEW b, NEW loc, NEW pla \in Players, NEW X, NEW seen, NEW adj, NEW h,
         MeetsOwn(b, loc, pla, X, seen, adj, h), NEW c, c = addLiberties(b, h, -1),
         NEW h1, NEW h2, InSomeOrder(h1, h2, h, b.chain_head[loc]),
         NEW n, n = joinChain(c, h1, h2)
  PROVE  /\ Met(n, loc, pla, X \cup {adj}, seen) /\ NoNewStones(b, n, loc)
         /\ SameOpponents(b, n, pla)
<1> USE DEF MeetsOwn
<1> DEFINE g == b.chain_head[loc]
           U == Waiting(b, loc, seen)
           Y == Adj(b, loc) \ X
<1>1. pla # C_EMPTY /\ pla # getOpp(pla)
  BY DEF getOpp, Players, P_BLACK, P_WHITE, C_EMPTY
<1>2. /\ IsHead(b, h) /\ IsHead(b, g) /\ b.colors[h] = pla /\ b.colors[g] = pla
      /\ adj \in Chain(b, h) /\ loc \in Chain(b, g) /\ adj \in Stones(b)
      /\ h # g /\ h \notin seen /\ h \in U
  <2>1. h \notin seen
    <3>1. b.colors[h] = pla
      BY <1>1, AroundStone
    <3> QED
      BY <3>1 DEF Met
  <2> QED
    BY <1>1, <2>1, AroundStone
<1>3. BoardOK(b, loc, Y, U) /\ Typed(b) /\ loc \in Stones(b)
  BY DEF Met, BoardOK
<1>4. g \notin U
  BY DEF Waiting
<1> HIDE DEF U, Y
<1>5. /\ BoardOK(c, loc, Y, U \ {h}) /\ SameStones(c, b) /\ c.chain_head = b.chain_head
      /\ c.captures = b.captures
  <2>1. c = addLiberties(b, h, -1)
    OBVIOUS
  <2>2. BoardOK(b, loc, Y, U) /\ IsHead(b, h) /\ h \in U
    BY <1>2, <1>3
  <2> QED
    BY <2>1, <2>2, EatingIsOK
<1>6. /\ Locs(c) = Locs(b) /\ Stones(c) = Stones(b) /\ c.colors = b.colors
      /\ c.x_size = b.x_size
      /\ \A l : Adj(c, l) = Adj(b, l)
      /\ \A k : Chain(c, k) = Chain(b, k) /\ (IsHead(c, k) <=> IsHead(b, k))
  BY <1>5, SameParts DEF SameStones
<1>7. loc \in Adj(b, adj)
  BY <1>3, AdjIsSymmetric DEF Stones
<1>8. (h1 = h /\ h2 = g) \/ (h1 = g /\ h2 = h)
  BY DEF InSomeOrder
<1> HIDE DEF g
<1>9. PICK l1, l2 : /\ l1 \in Chain(c, h1) /\ l2 \in Chain(c, h2) /\ l2 \in Adj(c, l1)
                    /\ {l1, l2} = {adj, loc}
  BY <1>2, <1>6, <1>7, <1>8
<1>10. /\ IsHead(c, h1) /\ IsHead(c, h2) /\ h1 # h2 /\ c.colors[h1] = c.colors[h2]
       /\ h1 \notin U \ {h} /\ h2 \notin U \ {h}
  BY <1>2, <1>4, <1>6, <1>8 DEF g
<1>11. PICK last : Joined(c, n, h1, h2, last)
  BY <1>5, <1>10, JoinedFields
<1>12. BoardOK(n, loc, Y, U \ {h})
  BY <1>5, <1>9, <1>10, <1>11, JoinIsOK
<1>13. /\ Stones(n) = Stones(c)
       /\ \A k : IsHead(n, k) <=> IsHead(c, k) /\ k # h2
  <2>1. Typed(c) /\ HeadsOK(c)
    BY <1>5 DEF BoardOK
  <2> QED
    BY <1>10, <1>11, <2>1, JoinedStones
<1>14. /\ Locs(n) = Locs(b) /\ n.x_size = b.x_size /\ n.colors = b.colors
       /\ n.chain_head = [l \in Locs(b) |-> IF l \in Chain(b, h2) THEN h1 ELSE b.chain_head[l]]
  <2>1. /\ Locs(n) = Locs(c) /\ n.x_size = c.x_size /\ n.colors = c.colors
        /\ n.chain_head = [l \in Locs(c) |-> IF l \in Chain(c, h2) THEN h1 ELSE c.chain_head[l]]
    BY <1>11 DEF Joined
  <2>2. c.chain_head = b.chain_head
    BY <1>5
  <2> QED
    BY <1>6, <2>1, <2>2
<1>15. \A l : Adj(n, l) = Adj(b, l)
  BY <1>14, SameAdj
<1>16. \A l \in Stones(b) :
         n.chain_head[l] = IF b.chain_head[l] \in {h1, h2} THEN h1 ELSE b.chain_head[l]
  BY <1>14 DEF Chain, Stones
<1>17. n.chain_head[adj] = h1 /\ n.chain_head[loc] = h1 /\ b.chain_head[adj] \in {h1, h2}
       /\ b.chain_head[loc] \in {h1, h2}
  BY <1>2, <1>3, <1>8, <1>16 DEF g
<1>18. CountsOK(n, Waiting(n, loc, seen))
  <2>1. \A k : IsHead(n, k) => (k \in U \ {h} <=> k \in Waiting(n, loc, seen))
    <3> SUFFICES ASSUME NEW k, IsHead(n, k) PROVE k \in U \ {h} <=> k \in Waiting(n, loc, seen)
      OBVIOUS
    <3>1. k # h2
      BY <1>13
    <3>2. CASE k = h1
      <4>1. k \notin U \ {h}
        BY <1>10, <3>2
      <4>2. k \notin Waiting(n, loc, seen)
        BY <1>17, <3>2 DEF Waiting
      <4> QED
        BY <4>1, <4>2
    <3>3. CASE k # h1
      <4>1. \A m \in Stones(b) : n.chain_head[m] = k <=> b.chain_head[m] = k
        BY <1>16, <3>1, <3>3
      <4>2. k # h /\ k # g
        BY <1>8, <3>1, <3>3
      <4>3. k \in U <=> k \notin seen /\ \E m \in Adj(b, loc) \cap Stones(b) : b.chain_head[m] = k
        BY <4>2 DEF U, Waiting, g
      <4>4. k \in Waiting(n, loc, seen)
              <=> k \notin seen /\ \E m \in Adj(b, loc) \cap Stones(b) : n.chain_head[m] = k
        BY <1>6, <1>13, <1>15, <1>17, <3>3 DEF Waiting
      <4> QED
        BY <4>1, <4>2, <4>3, <4>4
    <3> QED
      BY <3>2, <3>3
  <2>2. CountsOK(n, U \ {h})
    BY <1>12 DEF BoardOK
  <2> QED
    BY <2>1, <2>2, CountedSame
<1>19. Met(n, loc, pla, X, seen)
  <2>1. BoardOK(n, loc, Adj(n, loc) \ X, Waiting(n, loc, seen))
    BY <1>12, <1>15, <1>18 DEF BoardOK, Y
  <2>2. \A m \in X : m \in Locs(b) /\ (b.colors[m] = pla => b.chain_head[m] = b.chain_head[loc])
                   /\ (b.colors[m] = getOpp(pla) => b.chain_head[m] \in seen)
    BY DEF Met
  <2>3. \A m \in X : n.colors[m] = pla => n.chain_head[m] = n.chain_head[loc]
    <3> SUFFICES ASSUME NEW m \in X, b.colors[m] = pla PROVE n.chain_head[m] = h1
      BY <1>14, <1>17
    <3>1. m \in Stones(b) /\ b.chain_head[m] \in {h1, h2}
      BY <1>1, <1>17, <2>2 DEF Stones
    <3> QED
      BY <1>16, <3>1
  <2>4. \A m \in X : n.colors[m] = getOpp(pla) => n.chain_head[m] \in seen
    <3> SUFFICES ASSUME NEW m \in X, b.colors[m] = getOpp(pla) PROVE n.chain_head[m] \in seen
      BY <1>14
    <3>1. b.chain_head[m] \in seen /\ m \in Locs(b)
      BY <2>2
    <3>2. getOpp(pla) # C_EMPTY
      BY DEF getOpp, Players, P_BLACK, P_WHITE, C_EMPTY
    <3>3. m \in Stones(b)
      BY <3>1, <3>2 DEF Stones
    <3>4. b.chain_head[m] # h1 /\ b.chain_head[m] # h2
      BY <1>2, <1>8, <3>1 DEF Met
    <3> QED
      BY <1>16, <3>1, <3>3, <3>4
  <2>5. loc \in Stones(n) /\ n.colors[loc] = pla /\ (\A k \in seen : n.colors[k] # pla)
        /\ X \subseteq Locs(n) /\ seen \subseteq Locs(n)
    BY <1>3, <1>6, <1>13, <1>14 DEF Met
  <2> QED
    BY <2>1, <2>3, <2>4, <2>5 DEF Met
<1>20. Met(n, loc, pla, X \cup {adj}, seen)
  <2>1. n.chain_head[adj] = n.chain_head[loc] /\ adj \in Adj(n, loc) /\ n.colors[adj] # getOpp(pla)
    BY <1>1, <1>14, <1>15, <1>17
  <2> QED
    BY <1>19, <2>1, MetFreely
<1>21. SameOpponents(b, n, pla)
  <2>1. n.captures = b.captures
    BY <1>5, <1>11 DEF Joined
  <2>2. ASSUME NEW l \in Stones(b), b.colors[l] # pla PROVE n.chain_head[l] = b.chain_head[l]
    <3>1. b.colors[b.chain_head[l]] = b.colors[l]
      BY <1>3 DEF BoardOK, HeadsOK
    <3>2. b.chain_head[l] # h1 /\ b.chain_head[l] # h2
      BY <1>2, <1>8, <2>2, <3>1
    <3> QED
      BY <1>16, <3>2
  <2> QED
    BY <1>14, <2>1, <2>2 DEF SameOpponents
<1> QED
  BY <1>14, <1>20, <1>21 DEF NoNewStones

MetState(s, b, loc, pla, X) ==
  /\ DOMAIN s = {"board", "captured", "ko", "seen"} /\ s.captured \in Int /\ s.ko \in Int
  /\ Met(s.board, loc, pla, X, s.seen) /\ NoNewStones(b, s.board, loc)

LEMMA NoNewStonesTwice ==
  ASSUME NEW b, NEW c, NEW d, NEW loc, NoNewStones(b, c, loc), NoNewStones(c, d, loc)
  PROVE  NoNewStones(b, d, loc)
BY DEF NoNewStones

LEMMA SizeOfChain ==
  ASSUME NEW b, Typed(b), HeadsOK(b), NEW l \in Stones(b)
  PROVE  getChainSize(b, l) \in Int /\ getNumLiberties(b, l) \in Int
<1>1. b.chain_head[l] \in Locs(b)
  BY DEF HeadsOK, IsHead, Stones
<1>2. b.chain_data[b.chain_head[l]] \in ChainData
  BY <1>1 DEF Typed, Boards
<1> QED
  BY <1>2 DEF getChainSize, getNumLiberties, ChainData

LEMMA NeighbourIsMet ==
  ASSUME NEW b, NEW loc, NEW pla \in Players, NEW X, NEW s, MetState(s, b, loc, pla, X),
         NEW adj \in Adj(b, loc), Locs(b) \subseteq Int
  PROVE  MetState(meetNeighbour(s, adj, loc, pla), b, loc, pla, X \cup {adj})
<1> SUFFICES ASSUME NEW t, t = meetNeighbour(s, adj, loc, pla)
             PROVE  MetState(t, b, loc, pla, X \cup {adj})
  OBVIOUS
<1>1. PICK c, seen : c = s.board /\ seen = s.seen
  OBVIOUS
<1>2. PICK head : head = c.chain_head[adj]
  OBVIOUS
<1>3. PICK eaten : eaten = addLiberties(c, head, -1)
  OBVIOUS
<1>4. /\ Met(c, loc, pla, X, seen) /\ NoNewStones(b, c, loc)
      /\ DOMAIN s = {"board", "captured", "ko", "seen"} /\ s.captured \in Int /\ s.ko \in Int
  BY <1>1 DEF MetState
<1>5. adj \in Adj(c, loc) /\ adj \in Locs(b)
  <2>1. Adj(c, loc) = Adj(b, loc)
    BY <1>4, SameAdj DEF NoNewStones
  <2> QED
    BY <2>1 DEF Adj
<1>6. Typed(c) /\ HeadsOK(c)
  BY <1>4 DEF Met, BoardOK
<1>7. pla # C_EMPTY /\ getOpp(pla) # C_EMPTY /\ pla # getOpp(pla)
  BY DEF getOpp, Players, P_BLACK, P_WHITE, C_EMPTY
<1>8. CASE c.colors[adj] = pla /\ head # c.chain_head[loc]
  <2>1. t = [s EXCEPT !.board = mergeChains(eaten, adj, loc)]
    BY <1>1, <1>2, <1>3, <1>8 DEF meetNeighbour
  <2>2. PICK n : n = mergeChains(eaten, adj, loc)
    OBVIOUS
  <2>3. Met(n, loc, pla, X \cup {adj}, seen) /\ NoNewStones(c, n, loc)
    <3>1. eaten.chain_head = c.chain_head
      BY <1>3 DEF addLiberties
    <3>2. PICK h, g : h = head /\ g = c.chain_head[loc]
      OBVIOUS
    <3>3. n = joinChain(eaten, h, g) \/ n = joinChain(eaten, g, h)
      BY <1>2, <2>2, <3>1, <3>2 DEF mergeChains
    <3>4. InSomeOrder(h, g, head, c.chain_head[loc]) /\ InSomeOrder(g, h, head, c.chain_head[loc])
      BY <3>2 DEF InSomeOrder
    <3>5. MeetsOwn(c, loc, pla, X, seen, adj, head) /\ eaten = addLiberties(c, head, -1)
      BY <1>2, <1>3, <1>4, <1>5, <1>8 DEF MeetsOwn
    <3>6. CASE n = joinChain(eaten, h, g)
      BY <3>4, <3>5, <3>6, JoinedIsMet
    <3>7. CASE n = joinChain(eaten, g, h)
      BY <3>4, <3>5, <3>7, JoinedIsMet
    <3> QED
      BY <3>3, <3>6, <3>7
  <2>4. t.board = n /\ t.seen = seen /\ t.captured = s.captured /\ t.ko = s.ko /\ DOMAIN t = DOMAIN s
    BY <1>1, <1>4, <2>1, <2>2
  <2>5. NoNewStones(b, n, loc)
    BY <1>4, <2>3, NoNewStonesTwice
  <2> QED
    BY <1>4, <2>3, <2>4, <2>5 DEF MetState
<1>9. CASE c.colors[adj] = getOpp(pla) /\ head \notin seen
  <2>1. /\ Met(eaten, loc, pla, X \cup {adj}, seen \cup {head})
        /\ SameStones(eaten, c) /\ eaten.chain_head = c.chain_head
    <3>1. MeetsOther(c, loc, pla, X, seen, adj, head)
      BY <1>2, <1>4, <1>5, <1>9 DEF MeetsOther
    <3>2. Eaten(eaten, c, loc, pla, X, seen, adj, head)
      BY <1>3, <3>1, EatenIsMet
    <3> QED
      BY <3>2 DEF Eaten
  <2>2. NoNewStones(c, eaten, loc)
    BY <2>1, SameParts DEF NoNewStones, SameStones
  <2>3. CASE getNumLiberties(eaten, adj) = 0
    <3>1. t = [board |-> removeChain(eaten, adj), captured |-> s.captured + getChainSize(c, adj),
               ko |-> adj, seen |-> seen \cup {head}]
      BY <1>1, <1>2, <1>3, <1>7, <1>9, <2>3 DEF meetNeighbour
    <3>2. adj \in Stones(c) /\ adj \in Stones(eaten) /\ eaten.colors = c.colors
      <4>1. adj \in Stones(c)
        BY <1>5, <1>7, <1>9 DEF Stones, Adj
      <4> QED
        BY <2>1, <4>1, SameParts DEF SameStones
    <3>3. PICK n : n = removeChain(eaten, adj)
      OBVIOUS
    <3>4. Met(n, loc, pla, X \cup {adj}, seen \cup {head}) /\ NoNewStones(eaten, n, loc)
      <4>1. eaten.chain_head[adj] \in seen \cup {head} /\ eaten.colors[adj] = getOpp(pla)
        BY <1>2, <1>9, <2>1, <3>2
      <4> QED
        BY <2>1, <3>2, <3>3, <4>1, CapturedIsMet
    <3>5. getChainSize(c, adj) \in Int
      BY <1>6, <3>2, SizeOfChain
    <3>6. PICK i \in Int : i = s.captured + getChainSize(c, adj)
      BY <1>4, <3>5
    <3>7. t.board = n /\ t.seen = seen \cup {head} /\ t.captured = i /\ t.ko = adj
          /\ DOMAIN t = {"board", "captured", "ko", "seen"}
      BY <3>1, <3>3, <3>6
    <3>8. NoNewStones(b, n, loc)
      BY <1>4, <2>2, <3>4, NoNewStonesTwice
    <3>9. adj \in Int
      BY <1>5
    <3> QED
      BY <3>4, <3>7, <3>8, <3>9 DEF MetState
  <2>4. CASE getNumLiberties(eaten, adj) # 0
    <3>1. t = [s EXCEPT !.board = eaten, !.seen = seen \cup {head}]
      BY <1>1, <1>2, <1>3, <1>7, <1>9, <2>4 DEF meetNeighbour
    <3>2. t.board = eaten /\ t.seen = seen \cup {head} /\ t.captured = s.captured /\ t.ko = s.ko
          /\ DOMAIN t = DOMAIN s
      BY <1>4, <3>1
    <3>3. NoNewStones(b, eaten, loc)
      BY <1>4, <2>2, NoNewStonesTwice
    <3> QED
      BY <1>4, <2>1, <3>2, <3>3 DEF MetState
  <2> QED
    BY <2>3, <2>4
<1>10. CASE ~(c.colors[adj] = pla /\ head # c.chain_head[loc])
            /\ ~(c.colors[adj] = getOpp(pla) /\ head \notin seen)
  <2>1. t = s
    BY <1>1, <1>2, <1>10 DEF meetNeighbour
  <2>2. Met(c, loc, pla, X \cup {adj}, seen)
    BY <1>2, <1>4, <1>5, <1>10, MetFreely
  <2> QED
    BY <1>1, <1>4, <2>1, <2>2 DEF MetState
<1> QED
  BY <1>7, <1>8, <1>9, <1>10

\* All four have been met: nothing waits any more.
LEMMA AllMet ==
  ASSUME NEW b, NEW loc, NEW pla \in Players, NEW seen, Met(b, loc, pla, Adj(b, loc), seen)
  PROVE  GoodBoard(b)
<1>1. BoardOK(b, loc, Adj(b, loc) \ Adj(b, loc), Waiting(b, loc, seen)) /\ Typed(b)
  BY DEF Met, BoardOK
<1>2. Waiting(b, loc, seen) = {}
  <2> SUFFICES ASSUME NEW m \in Adj(b, loc) \cap Stones(b)
               PROVE  b.chain_head[m] \in seen \cup {b.chain_head[loc]}
    BY DEF Waiting
  <2>1. b.colors[m] \in {1, 2}
    BY <1>1, PlayersColors
  <2>2. b.colors[m] = pla \/ b.colors[m] = getOpp(pla)
    BY <2>1 DEF getOpp, Players, P_BLACK, P_WHITE
  <2> QED
    BY <2>2 DEF Met
<1>3. MaximalBut(b, NULL_LOC, {})
  BY <1>1 DEF BoardOK, MaximalBut
<1> QED
  BY <1>1, <1>2, <1>3 DEF GoodBoard, BoardOK

-----------------------------------------------------------------------------
(* What a move takes                                                       *)

\* The stones of the opponent's chains next to the points of X whose only liberty is loc.
Taken(b, loc, pla, X) ==
  {m \in Stones(b) :
     /\ \E a \in X : b.colors[a] = getOpp(pla) /\ b.chain_head[a] = b.chain_head[m]
     /\ LibsOf(b, Chain(b, b.chain_head[m])) = {loc}}

\* The colours with a stone at loc, and without the stones of T.
WithStone(b, loc, pla, T) ==
  [l \in Locs(b) |-> IF l = loc THEN pla ELSE IF l \in T THEN C_EMPTY ELSE b.colors[l]]

\* c is b with the stone at loc, and without the stones that it takes next to X.
ExactBoard(c, b, loc, pla, X) ==
  /\ c.colors = WithStone(b, loc, pla, Taken(b, loc, pla, X)) /\ c.captures = b.captures
  /\ \A l \in Locs(b) : c.colors[l] = getOpp(pla) => c.chain_head[l] = b.chain_head[l]

ExactState(s, b, loc, pla, X) ==
  /\ ExactBoard(s.board, b, loc, pla, X)
  /\ s.captured = Cardinality(Taken(b, loc, pla, X))
  /\ Taken(b, loc, pla, X) # {} => s.ko \in Taken(b, loc, pla, X)
  /\ \A h \in s.seen : \E a \in X : b.colors[a] = getOpp(pla) /\ b.chain_head[a] = h

LEMMA TakenNot ==
  ASSUME NEW b, NEW loc, NEW pla, NEW X, NEW adj, b.colors[adj] # getOpp(pla)
  PROVE  Taken(b, loc, pla, X \cup {adj}) = Taken(b, loc, pla, X)
BY DEF Taken

LEMMA TakenAgain ==
  ASSUME NEW b, NEW loc, NEW pla, NEW X, NEW a \in X, b.colors[a] = getOpp(pla),
         NEW adj, b.chain_head[a] = b.chain_head[adj]
  PROVE  Taken(b, loc, pla, X \cup {adj}) = Taken(b, loc, pla, X)
BY DEF Taken

TakesMore(b, loc, pla, X, adj, C) ==
  Taken(b, loc, pla, X \cup {adj}) =
    Taken(b, loc, pla, X) \cup (IF LibsOf(b, C) = {loc} THEN C ELSE {})

LEMMA TakenMore ==
  ASSUME NEW b, NEW loc, NEW pla, NEW X, NEW adj, b.colors[adj] = getOpp(pla),
         NEW C, C = Chain(b, b.chain_head[adj])
  PROVE  TakesMore(b, loc, pla, X, adj, C)
<1> DEFINE T == Taken(b, loc, pla, X)
           T2 == Taken(b, loc, pla, X \cup {adj})
<1>1. \A m \in T2 : m \in T \/ (m \in C /\ LibsOf(b, C) = {loc})
  BY DEF Taken, Chain
<1>2. \A m \in T : m \in T2
  BY DEF Taken
<1>3. \A m \in C : LibsOf(b, C) = {loc} => m \in T2
  BY DEF Taken, Chain
<1> HIDE DEF T, T2
<1>4. T2 = T \cup (IF LibsOf(b, C) = {loc} THEN C ELSE {})
  <2>1. CASE LibsOf(b, C) = {loc}
    BY <1>1, <1>2, <1>3, <2>1
  <2>2. CASE LibsOf(b, C) # {loc}
    BY <1>1, <1>2, <1>3, <2>2
  <2> QED
    BY <2>1, <2>2
<1> QED
  BY <1>4 DEF T, T2, TakesMore

OnlyTaken(c, b, loc, pla, X) ==
  c.x_size = b.x_size /\ Locs(c) = Locs(b) /\ ExactBoard(c, b, loc, pla, X)

\* The chain C of b at adj is one of c, with the head h.
Stays(C, b, c, loc, pla, X, adj, h) ==
  /\ C \cap Taken(b, loc, pla, X) = {} /\ b.colors[adj] = getOpp(pla)
  /\ Chain(c, h) = C /\ LibsOf(c, C) = LibsOf(b, C) \ {loc}
  /\ loc \notin C /\ C \subseteq Stones(b)

\* An opponent's chain that was not taken is as it was, but loc is no liberty of it.
LEMMA ChainStays ==
  ASSUME NEW b, GoodBoard(b), NEW loc \in Locs(b), b.colors[loc] = C_EMPTY, NEW pla \in Players,
         NEW X \in SUBSET Locs(b), NEW c, Typed(c), HeadsOK(c),
         OnlyTaken(c, b, loc, pla, X), NEW adj \in Locs(b), c.colors[adj] = getOpp(pla),
         NEW h, h = c.chain_head[adj], NEW C, C = Chain(b, b.chain_head[adj])
  PROVE  Stays(C, b, c, loc, pla, X, adj, h)
<1> USE DEF Stays, OnlyTaken
<1> DEFINE T == Taken(b, loc, pla, X)
<1>1. getOpp(pla) # C_EMPTY /\ getOpp(pla) # pla /\ pla # C_EMPTY
  BY DEF getOpp, Players, P_BLACK, P_WHITE, C_EMPTY
<1>2. Typed(b) /\ HeadsOK(b) /\ MaximalBut(b, NULL_LOC, {})
  BY DEF GoodBoard, BoardOK
<1>3. \A l \in Locs(b) :
        c.colors[l] = IF l = loc THEN pla ELSE IF l \in T THEN C_EMPTY ELSE b.colors[l]
  BY DEF ExactBoard, WithStone
<1>4. adj # loc /\ adj \notin T /\ b.colors[adj] = getOpp(pla) /\ adj \in Stones(b)
  BY <1>1, <1>3 DEF Stones
<1>5. h = b.chain_head[adj] /\ h = c.chain_head[adj]
  BY DEF ExactBoard
<1>6. \A m \in C : /\ m \in Stones(b) /\ m \in Locs(b) /\ b.chain_head[m] = h
                   /\ b.colors[m] = getOpp(pla) /\ m # loc
  <2>1. b.colors[h] = getOpp(pla)
    BY <1>2, <1>4, <1>5 DEF HeadsOK
  <2> QED
    BY <1>1, <1>2, <1>5, <2>1 DEF Chain, HeadsOK, Stones
<1>7. C \cap T = {}
  BY <1>4, <1>5, <1>6 DEF Taken
<1>8. \A m \in C : c.colors[m] = getOpp(pla) /\ c.chain_head[m] = h /\ m \in Stones(c)
  <2>1. \A m \in C : c.colors[m] = getOpp(pla)
    BY <1>3, <1>6, <1>7
  <2> QED
    BY <1>1, <1>6, <2>1 DEF ExactBoard, Stones
<1>9. ASSUME NEW m \in Stones(c), c.chain_head[m] = h PROVE m \in C
  <2>1. h \in C
    BY <1>2, <1>4, <1>5 DEF HeadsOK, IsHead, Chain
  <2>2. c.colors[m] = getOpp(pla)
    BY <1>8, <1>9, <2>1 DEF HeadsOK
  <2>3. m \in Locs(b)
    BY DEF Stones
  <2>4. b.colors[m] = getOpp(pla) /\ b.chain_head[m] = h
    BY <1>1, <1>3, <1>9, <2>2, <2>3 DEF ExactBoard
  <2> QED
    BY <1>1, <1>5, <2>3, <2>4 DEF Chain, Stones
<1>10. Chain(c, h) = C
  BY <1>8, <1>9 DEF Chain
<1>11. \A l : Adj(c, l) = Adj(b, l)
  BY SameAdj
<1>12. ASSUME NEW a \in LibsOf(b, C), a # loc PROVE a \in LibsOf(c, C)
  <2>1. a \in Locs(b) /\ b.colors[a] = C_EMPTY
    BY DEF LibsOf
  <2>2. a \notin T
    BY <2>1 DEF Taken, Stones
  <2>3. c.colors[a] = C_EMPTY
    BY <1>3, <1>12, <2>1, <2>2
  <2> QED
    BY <1>11, <2>1, <2>3 DEF LibsOf
<1>13. ASSUME NEW a \in LibsOf(c, C) PROVE a \in LibsOf(b, C) /\ a # loc
  <2>1. PICK m \in C : m \in Adj(b, a)
    BY <1>11 DEF LibsOf
  <2>2. a \in Locs(b) /\ c.colors[a] = C_EMPTY
    BY DEF LibsOf
  <2>3. a # loc
    BY <1>1, <1>3, <2>2
  <2>4. CASE a \in T
    <3>1. a \in Stones(b)
      BY <2>4 DEF Taken
    <3>2. PICK x \in X : b.colors[x] = getOpp(pla) /\ b.chain_head[x] = b.chain_head[a]
      BY <2>4 DEF Taken
    <3>3. b.colors[a] = getOpp(pla)
      <4>1. b.colors[a] \in {1, 2} /\ b.colors[a] # pla
        <5>1. b.colors[a] \in {1, 2}
          BY <1>2, <3>1, PlayersColors
        <5>2. x \in Stones(b)
          <6>1. x \in Locs(b)
            OBVIOUS
          <6> QED
            BY <1>1, <3>2, <6>1 DEF Stones
        <5>3. b.colors[b.chain_head[a]] = b.colors[a]
          BY <1>2, <3>1 DEF HeadsOK
        <5>4. b.colors[b.chain_head[x]] = b.colors[x]
          BY <1>2, <5>2 DEF HeadsOK
        <5> QED
          BY <1>1, <3>2, <5>1, <5>3, <5>4
      <4> QED
        BY <4>1 DEF getOpp, Players, P_BLACK, P_WHITE
    <3>4. b.chain_head[m] = b.chain_head[a]
      BY <1>2, <1>6, <2>1, <3>1, <3>3 DEF MaximalBut
    <3>5. a \in C
      BY <1>5, <1>6, <3>1, <3>4 DEF Chain
    <3> QED
      BY <1>7, <2>4, <3>5
  <2>5. CASE a \notin T
    <3>1. b.colors[a] = C_EMPTY
      BY <1>3, <2>2, <2>3, <2>5
    <3> QED
      BY <2>1, <2>2, <2>3, <3>1 DEF LibsOf
  <2> QED
    BY <2>4, <2>5
<1>14. LibsOf(c, C) = LibsOf(b, C) \ {loc}
  BY <1>12, <1>13
<1> QED
  BY <1>4, <1>5, <1>6, <1>7, <1>10, <1>14

CountsDown(eaten, b, c, loc, adj, C) ==
  /\ getNumLiberties(eaten, adj) = 0 <=> LibsOf(b, C) = {loc}
  /\ getChainSize(c, adj) = Cardinality(C)

\* What the liberties of an opponent's chain come to when it has been counted down.
LEMMA CountedDown ==
  ASSUME NEW b, GoodBoard(b), NEW loc \in Locs(b), b.colors[loc] = C_EMPTY, NEW pla \in Players,
         NEW X \in SUBSET Locs(b), NEW seen, NEW c, OnlyTaken(c, b, loc, pla, X),
         NEW adj, NEW h, MeetsOther(c, loc, pla, X, seen, adj, h),
         NEW C, C = Chain(b, b.chain_head[adj]),
         NEW eaten, eaten = addLiberties(c, h, -1)
  PROVE  CountsDown(eaten, b, c, loc, adj, C)
<1>0. /\ Met(c, loc, pla, X, seen) /\ c.x_size = b.x_size /\ Locs(c) = Locs(b)
      /\ ExactBoard(c, b, loc, pla, X) /\ adj \in Adj(c, loc) /\ c.colors[adj] = getOpp(pla)
  BY DEF MeetsOther, OnlyTaken
<1>1. Typed(c) /\ HeadsOK(c) /\ CountsOK(c, Waiting(c, loc, seen)) /\ Typed(b)
  BY <1>0 DEF Met, BoardOK, GoodBoard
<1>2. h = c.chain_head[adj] /\ h \notin seen
  BY DEF MeetsOther
<1>3. /\ adj \in Locs(b) /\ loc \in Adj(b, adj) /\ adj \in Stones(c)
      /\ adj \in Adj(c, loc) /\ adj \in Adj(b, loc)
  <2>3. Adj(c, loc) = Adj(b, loc)
    BY <1>0, SameAdj
  <2>1. adj \in Locs(b) /\ loc \in Adj(b, adj)
    BY <1>0, <1>1, <2>3, AdjIsSymmetric
  <2>2. getOpp(pla) # C_EMPTY
    BY DEF getOpp, Players, P_BLACK, P_WHITE, C_EMPTY
  <2> QED
    BY <1>0, <2>1, <2>2, <2>3 DEF Stones
<1>4. /\ Chain(c, h) = C /\ LibsOf(c, C) = LibsOf(b, C) \ {loc} /\ b.colors[adj] = getOpp(pla)
      /\ C \subseteq Stones(b) /\ b.chain_head[adj] = h
  <2>1. b.chain_head[adj] = h
    BY <1>0, <1>2, <1>3 DEF ExactBoard
  <2>2. Stays(C, b, c, loc, pla, X, adj, h)
    BY <1>0, <1>1, <1>2, <1>3, ChainStays
  <2> QED
    BY <2>1, <2>2 DEF Stays
<1>5. adj \in C /\ IsHead(c, h)
  BY <1>1, <1>2, <1>3, <1>4 DEF HeadsOK, Chain
<1>6. loc \in LibsOf(b, C)
  BY <1>3, <1>5 DEF LibsOf
<1>7. /\ Met(eaten, loc, pla, X \cup {adj}, seen \cup {h})
      /\ SameStones(eaten, c) /\ eaten.chain_head = c.chain_head
  <2>1. Eaten(eaten, c, loc, pla, X, seen, adj, h)
    BY EatenIsMet
  <2> QED
    BY <2>1 DEF Eaten
<1>8. IsHead(eaten, h) /\ Chain(eaten, h) = C /\ LibsOf(eaten, C) = LibsOf(b, C) \ {loc}
  BY <1>4, <1>5, <1>7, SameParts
<1>9. PICK i \in Nat : i = Cardinality(LibsOf(eaten, C))
  <2>1. LibsOf(eaten, C) \subseteq Locs(eaten) /\ Typed(eaten)
    BY <1>7 DEF LibsOf, Met, BoardOK
  <2> QED
    BY <2>1, FiniteParts
<1>10. getNumLiberties(eaten, adj) = i
  <2>1. CountsOK(eaten, Waiting(eaten, loc, seen \cup {h}))
    BY <1>7 DEF Met, BoardOK
  <2>2. h \notin Waiting(eaten, loc, seen \cup {h})
    BY DEF Waiting
  <2>3. eaten.chain_data[h] =
           [owner |-> eaten.colors[h], num_locs |-> Cardinality(C),
            num_liberties |-> Cardinality(LibsOf(eaten, C)) +
                               (IF h \in Waiting(eaten, loc, seen \cup {h}) THEN 1 ELSE 0)]
    BY <1>8, <2>1 DEF CountsOK
  <2>4. eaten.chain_data[h].num_liberties = i + 0
    BY <1>9, <2>2, <2>3
  <2> QED
    BY <1>2, <1>7, <1>9, <2>4 DEF getNumLiberties
<1>11. i = 0 <=> LibsOf(eaten, C) = {}
  <2>1. IsFiniteSet(LibsOf(eaten, C))
    <3>1. LibsOf(eaten, C) \subseteq Locs(eaten) /\ Typed(eaten)
      BY <1>7 DEF LibsOf, Met, BoardOK
    <3> QED
      BY <3>1, FiniteParts
  <2> QED
    BY <1>9, <2>1, FS_EmptySet
<1>12. getChainSize(c, adj) = Cardinality(C)
  <2>1. c.chain_data[h] =
           [owner |-> c.colors[h], num_locs |-> Cardinality(Chain(c, h)),
            num_liberties |-> Cardinality(LibsOf(c, Chain(c, h))) +
                               (IF h \in Waiting(c, loc, seen) THEN 1 ELSE 0)]
    BY <1>1, <1>5 DEF CountsOK
  <2>2. c.chain_data[h].num_locs = Cardinality(Chain(c, h))
    BY <2>1
  <2> QED
    BY <1>2, <1>4, <2>2 DEF getChainSize
<1> QED
  BY <1>6, <1>8, <1>10, <1>11, <1>12 DEF CountsDown

LEMMA NeighbourIsExact ==
  ASSUME NEW b, GoodBoard(b), NEW loc \in Locs(b), b.colors[loc] = C_EMPTY, NEW pla \in Players,
         NEW X \in SUBSET Adj(b, loc), NEW s, MetState(s, b, loc, pla, X),
         ExactState(s, b, loc, pla, X), NEW adj \in Adj(b, loc)
  PROVE  ExactState(meetNeighbour(s, adj, loc, pla), b, loc, pla, X \cup {adj})
<1> SUFFICES ASSUME NEW t, t = meetNeighbour(s, adj, loc, pla)
             PROVE  ExactState(t, b, loc, pla, X \cup {adj})
  OBVIOUS
<1>1. PICK c, seen, head, eaten : /\ c = s.board /\ seen = s.seen /\ head = c.chain_head[adj]
                                  /\ eaten = addLiberties(c, head, -1)
  OBVIOUS
<1>2. PICK T, T2, C : /\ T = Taken(b, loc, pla, X) /\ T2 = Taken(b, loc, pla, X \cup {adj})
                      /\ C = Chain(b, b.chain_head[adj])
  OBVIOUS
<1>3. /\ Met(c, loc, pla, X, seen) /\ c.x_size = b.x_size /\ Locs(c) = Locs(b)
      /\ DOMAIN s = {"board", "captured", "ko", "seen"}
  BY <1>1 DEF MetState, NoNewStones
<1>4. /\ ExactBoard(c, b, loc, pla, X) /\ s.captured = Cardinality(T) /\ (T # {} => s.ko \in T)
      /\ \A h \in seen : \E a \in X : b.colors[a] = getOpp(pla) /\ b.chain_head[a] = h
  BY <1>1, <1>2 DEF ExactState
<1>5. /\ \A l \in Locs(b) :
           c.colors[l] = IF l = loc THEN pla ELSE IF l \in T THEN C_EMPTY ELSE b.colors[l]
      /\ \A l \in Locs(b) : c.colors[l] = getOpp(pla) => c.chain_head[l] = b.chain_head[l]
      /\ c.captures = b.captures /\ c.colors = WithStone(b, loc, pla, T)
  BY <1>2, <1>4 DEF ExactBoard, WithStone
<1>6. pla # C_EMPTY /\ getOpp(pla) # C_EMPTY /\ pla # getOpp(pla)
  BY DEF getOpp, Players, P_BLACK, P_WHITE, C_EMPTY
<1>7. /\ Typed(b) /\ adj \in Locs(b) /\ adj # loc /\ adj \in Adj(c, loc) /\ X \in SUBSET Locs(b)
      /\ Typed(c) /\ HeadsOK(c)
  <2>1. Typed(b) /\ Typed(c) /\ HeadsOK(c)
    BY <1>3 DEF GoodBoard, BoardOK, Met
  <2>2. Adj(c, loc) = Adj(b, loc)
    BY <1>3, SameAdj
  <2> QED
    BY <2>1, <2>2, AdjIsSymmetric DEF Adj
<1>8. ASSUME t.board.colors = WithStone(b, loc, pla, T2), t.board.captures = b.captures,
             \A l \in Locs(b) : t.board.colors[l] = getOpp(pla)
                                  => t.board.chain_head[l] = b.chain_head[l],
             t.captured = Cardinality(T2), T2 # {} => t.ko \in T2,
             \A h \in t.seen : h \in seen \/ (b.colors[adj] = getOpp(pla) /\ b.chain_head[adj] = h)
      PROVE  ExactState(t, b, loc, pla, X \cup {adj})
  <2>1. ExactBoard(t.board, b, loc, pla, X \cup {adj})
    BY <1>2, <1>8 DEF ExactBoard
  <2>2. \A h \in t.seen : \E a \in X \cup {adj} : b.colors[a] = getOpp(pla) /\ b.chain_head[a] = h
    BY <1>4, <1>8
  <2> QED
    BY <1>2, <1>8, <2>1, <2>2 DEF ExactState
<1>9. CASE c.colors[adj] = pla /\ head # c.chain_head[loc]
  <2>1. t = [s EXCEPT !.board = mergeChains(eaten, adj, loc)]
    BY <1>1, <1>9 DEF meetNeighbour
  <2>2. PICK n : n = mergeChains(eaten, adj, loc)
    OBVIOUS
  <2>3. /\ Met(n, loc, pla, X \cup {adj}, seen) /\ NoNewStones(c, n, loc)
        /\ SameOpponents(c, n, pla)
    <3>1. eaten.chain_head = c.chain_head
      BY <1>1 DEF addLiberties
    <3>2. PICK h, g : h = head /\ g = c.chain_head[loc]
      OBVIOUS
    <3>3. n = joinChain(eaten, h, g) \/ n = joinChain(eaten, g, h)
      BY <1>1, <2>2, <3>1, <3>2 DEF mergeChains
    <3>4. InSomeOrder(h, g, head, c.chain_head[loc]) /\ InSomeOrder(g, h, head, c.chain_head[loc])
      BY <3>2 DEF InSomeOrder
    <3>5. MeetsOwn(c, loc, pla, X, seen, adj, head) /\ eaten = addLiberties(c, head, -1)
      BY <1>1, <1>3, <1>7, <1>9 DEF MeetsOwn
    <3>6. CASE n = joinChain(eaten, h, g)
      BY <3>4, <3>5, <3>6, JoinedIsMet
    <3>7. CASE n = joinChain(eaten, g, h)
      BY <3>4, <3>5, <3>7, JoinedIsMet
    <3> QED
      BY <3>3, <3>6, <3>7
  <2>4. t.board = n /\ t.seen = seen /\ t.captured = s.captured /\ t.ko = s.ko
    BY <1>1, <1>3, <2>1, <2>2
  <2>5. b.colors[adj] # getOpp(pla)
    BY <1>5, <1>6, <1>7, <1>9
  <2>6. T2 = T
    <3>1. Taken(b, loc, pla, X \cup {adj}) = Taken(b, loc, pla, X)
      BY <2>5, TakenNot
    <3> QED
      BY <1>2, <3>1
  <2>7. n.colors = c.colors /\ n.captures = c.captures
    BY <2>3 DEF SameOpponents
  <2>8. \A l \in Locs(b) : n.colors[l] = getOpp(pla) => n.chain_head[l] = b.chain_head[l]
    BY <1>3, <1>5, <1>6, <2>3 DEF SameOpponents, Stones
  <2> QED
    BY <1>4, <1>5, <1>8, <2>4, <2>6, <2>7, <2>8
<1>10. CASE c.colors[adj] = getOpp(pla) /\ head \notin seen
  <2>0. MeetsOther(c, loc, pla, X, seen, adj, head) /\ OnlyTaken(c, b, loc, pla, X)
    BY <1>1, <1>3, <1>4, <1>7, <1>10 DEF MeetsOther, OnlyTaken
  <2>1. /\ getNumLiberties(eaten, adj) = 0 <=> LibsOf(b, C) = {loc}
        /\ getChainSize(c, adj) = Cardinality(C)
    <3>1. CountsDown(eaten, b, c, loc, adj, C)
      BY <1>1, <1>2, <1>7, <2>0, CountedDown
    <3> QED
      BY <3>1 DEF CountsDown
  <2>2. /\ SameStones(eaten, c) /\ eaten.chain_head = c.chain_head /\ eaten.captures = c.captures
        /\ Met(eaten, loc, pla, X \cup {adj}, seen \cup {head})
    <3>1. Eaten(eaten, c, loc, pla, X, seen, adj, head)
      BY <1>1, <2>0, EatenIsMet
    <3> QED
      BY <3>1 DEF Eaten
  <2>3. C \cap T = {} /\ b.colors[adj] = getOpp(pla) /\ Chain(c, head) = C /\ loc \notin C
    <3>1. Stays(C, b, c, loc, pla, X, adj, head)
      BY <1>1, <1>2, <1>3, <1>4, <1>7, <1>10, <2>0, ChainStays
    <3> QED
      BY <1>2, <3>1 DEF Stays
  <2>4. T2 = T \cup (IF LibsOf(b, C) = {loc} THEN C ELSE {})
    <3>1. TakesMore(b, loc, pla, X, adj, C)
      BY <1>2, <2>3, TakenMore
    <3> QED
      BY <1>2, <3>1 DEF TakesMore
  <2>5. head = b.chain_head[adj]
    BY <1>1, <1>5, <1>7, <1>10
  <2>6. eaten.colors = c.colors /\ Locs(eaten) = Locs(c) /\ Chain(eaten, head) = C
    BY <2>2, <2>3, SameParts DEF SameStones
  <2>7. CASE getNumLiberties(eaten, adj) = 0
    <3>1. T2 = T \cup C
      BY <2>1, <2>4, <2>7
    <3>2. t = [board |-> removeChain(eaten, adj), captured |-> s.captured + getChainSize(c, adj),
               ko |-> adj, seen |-> seen \cup {head}]
      BY <1>1, <1>6, <1>10, <2>7 DEF meetNeighbour
    <3>3. PICK n : n = removeChain(eaten, adj)
      OBVIOUS
    <3>4. adj \in Stones(eaten) /\ adj \in Stones(c)
      BY <1>3, <1>6, <1>7, <1>10, <2>6 DEF Stones
    <3>5. Removed(eaten, n, C, eaten.colors[adj])
      <4>1. Typed(eaten) /\ HeadsOK(eaten) /\ ListsOK(eaten)
        BY <2>2 DEF Met, BoardOK
      <4>2. Chain(eaten, eaten.chain_head[adj]) = C
        BY <1>1, <2>2, <2>6
      <4>3. Removed(eaten, n, Chain(eaten, eaten.chain_head[adj]), eaten.colors[adj])
        BY <3>3, <3>4, <4>1, RemovedFields
      <4> QED
        BY <4>2, <4>3
    <3>6. /\ n.chain_head = c.chain_head /\ n.captures = c.captures
          /\ n.colors = [l \in Locs(b) |-> IF l \in C THEN C_EMPTY ELSE c.colors[l]]
      BY <1>3, <2>2, <2>6, <3>5 DEF Removed
    <3>7. n.colors = WithStone(b, loc, pla, T2)
      BY <1>5, <2>3, <3>1, <3>6 DEF WithStone
    <3>8. \A l \in Locs(b) : n.colors[l] = getOpp(pla) => n.chain_head[l] = b.chain_head[l]
      BY <1>5, <1>6, <3>6
    <3>9. s.captured + getChainSize(c, adj) = Cardinality(T2)
      <4>1. T \subseteq Locs(b) /\ C \subseteq Locs(b)
        BY <1>2 DEF Taken, Chain, Stones
      <4>2. IsFiniteSet(T) /\ IsFiniteSet(C)
        BY <1>7, <4>1, FiniteParts
      <4>3. Cardinality(T \cup C) = Cardinality(T) + Cardinality(C) - Cardinality(T \cap C)
        BY <4>2, FS_Union
      <4>4. Cardinality(T \cap C) = 0
        <5>1. T \cap C = {}
          BY <2>3
        <5> QED
          BY <5>1, FS_EmptySet
      <4>5. PICK i \in Nat, j \in Nat : i = Cardinality(T) /\ j = Cardinality(C)
        BY <1>7, <4>1, FiniteParts
      <4> QED
        BY <1>4, <2>1, <3>1, <4>3, <4>4, <4>5
    <3>10. adj \in C
      BY <1>1, <2>3, <3>4 DEF Chain
    <3>11. t.board = n /\ t.captured = s.captured + getChainSize(c, adj) /\ t.ko = adj
           /\ t.seen = seen \cup {head}
      BY <3>2, <3>3
    <3> QED
      BY <1>5, <1>8, <2>3, <2>5, <3>1, <3>6, <3>7, <3>8, <3>9, <3>10, <3>11
  <2>8. CASE getNumLiberties(eaten, adj) # 0
    <3>1. T2 = T
      BY <2>1, <2>4, <2>8
    <3>2. t = [s EXCEPT !.board = eaten, !.seen = seen \cup {head}]
      BY <1>1, <1>6, <1>10, <2>8 DEF meetNeighbour
    <3>3. t.board = eaten /\ t.seen = seen \cup {head} /\ t.captured = s.captured /\ t.ko = s.ko
      BY <1>3, <3>2
    <3> QED
      BY <1>4, <1>5, <1>8, <2>2, <2>3, <2>5, <2>6, <3>1, <3>3
  <2> QED
    BY <2>7, <2>8
<1>11. CASE ~(c.colors[adj] = pla /\ head # c.chain_head[loc])
            /\ ~(c.colors[adj] = getOpp(pla) /\ head \notin seen)
  <2>1. t = s
    BY <1>1, <1>11 DEF meetNeighbour
  <2>2. ASSUME b.colors[adj] = getOpp(pla)
        PROVE  \E a \in X : b.colors[a] = getOpp(pla) /\ b.chain_head[a] = b.chain_head[adj]
    <3>1. CASE adj \in T
      BY <1>2, <3>1 DEF Taken
    <3>2. CASE adj \notin T
      <4>1. c.colors[adj] = getOpp(pla)
        BY <1>5, <1>7, <2>2, <3>2
      <4>2. head \in seen /\ head = b.chain_head[adj]
        BY <1>1, <1>5, <1>7, <1>11, <4>1
      <4> QED
        BY <1>4, <4>2
    <3> QED
      BY <3>1, <3>2
  <2>3. T2 = T
    <3>1. Taken(b, loc, pla, X \cup {adj}) = Taken(b, loc, pla, X)
      <4>1. CASE b.colors[adj] # getOpp(pla)
        BY <4>1, TakenNot
      <4>2. CASE b.colors[adj] = getOpp(pla)
        <5>1. PICK a \in X : b.colors[a] = getOpp(pla) /\ b.chain_head[a] = b.chain_head[adj]
          BY <2>2, <4>2
        <5> QED
          BY <5>1, TakenAgain
      <4> QED
        BY <4>1, <4>2
    <3> QED
      BY <1>2, <3>1
  <2>4. t.board = c /\ t.seen = seen /\ t.captured = s.captured /\ t.ko = s.ko
    BY <1>1, <2>1
  <2> QED
    BY <1>4, <1>5, <1>8, <2>3, <2>4
<1> QED
  BY <1>9, <1>10, <1>11

LEMMA AroundIsMet ==
  ASSUME NEW b, GoodBoard(b), NEW loc \in Locs(b), b.colors[loc] = C_EMPTY, NEW pla \in Players,
         NEW s, s = [board |-> Alone(b, loc, pla), captured |-> 0, ko |-> NULL_LOC, seen |-> {}]
  PROVE  \E t : /\ t = FOREACHADJ(LAMBDA u, adj : meetNeighbour(u, adj, loc, pla), s, b, loc)
                /\ MetState(t, b, loc, pla, Adj(b, loc)) /\ ExactState(t, b, loc, pla, Adj(b, loc))
<1> DEFINE Both(t, X) == /\ X \in SUBSET Adj(b, loc) /\ MetState(t, b, loc, pla, X)
                         /\ ExactState(t, b, loc, pla, X)
           OnBoard(t, a) == IF a \in Locs(b) THEN meetNeighbour(t, a, loc, pla) ELSE t
<1>1. Typed(b)
  BY DEF GoodBoard, BoardOK
<1>2. ASSUME NEW X, NEW t, Both(t, X), NEW a,
             a \in Locs(b) => a \in Adj(b, loc)
      PROVE  Both(OnBoard(t, a), X \cup ({a} \cap Locs(b)))
  <2>1. CASE a \in Locs(b)
    <3>1. {a} \cap Locs(b) = {a} /\ OnBoard(t, a) = meetNeighbour(t, a, loc, pla)
      BY <2>1
    <3>2. Locs(b) \subseteq Int /\ a \in Adj(b, loc)
      BY <1>1, <1>2, <2>1 DEF Typed
    <3> HIDE DEF OnBoard
    <3> QED
      BY <1>2, <3>1, <3>2, NeighbourIsMet, NeighbourIsExact
  <2>2. CASE a \notin Locs(b)
    <3>1. X \cup ({a} \cap Locs(b)) = X /\ OnBoard(t, a) = t
      BY <2>2
    <3> HIDE DEF OnBoard
    <3> QED
      BY <1>2, <3>1
  <2> QED
    BY <2>1, <2>2
<1>3. Both(s, {})
  <2>1. PICK n : n = Alone(b, loc, pla)
    OBVIOUS
  <2>2. s.board = n /\ s.seen = {} /\ s.captured = 0 /\ s.ko = 0
        /\ DOMAIN s = {"board", "captured", "ko", "seen"}
    BY <2>1 DEF NULL_LOC
  <2>3. Met(n, loc, pla, {}, {}) /\ NoNewStones(b, n, loc)
    BY <2>1, MetNothing
  <2>4. Placed(b, n, loc, pla)
    BY <1>1, <2>1, PlacedFields
  <2>5. Taken(b, loc, pla, {}) = {}
    BY DEF Taken
  <2>6. n.colors = [b.colors EXCEPT ![loc] = pla] /\ b.colors \in [Locs(b) -> 0 .. 2]
    BY <1>1, <2>4 DEF Placed, Typed, Boards
  <2>7. n.colors = WithStone(b, loc, pla, {})
    BY <2>6 DEF WithStone
  <2>8. \A l \in Locs(b) : n.colors[l] = getOpp(pla) => n.chain_head[l] = b.chain_head[l]
    <3>1. n.colors[loc] = pla /\ pla # getOpp(pla)
      BY <2>6 DEF getOpp, Players, P_BLACK, P_WHITE
    <3>2. n.chain_head = [b.chain_head EXCEPT ![loc] = loc]
      BY <2>4 DEF Placed
    <3> QED
      BY <3>1, <3>2
  <2>9. ExactBoard(n, b, loc, pla, {})
    BY <2>4, <2>5, <2>7, <2>8 DEF ExactBoard, Placed
  <2>10. Cardinality(Taken(b, loc, pla, {})) = 0
    BY <2>5, FS_EmptySet
  <2> QED
    BY <2>2, <2>3, <2>5, <2>9, <2>10 DEF MetState, ExactState
<1>4. PICK a1, a2, a3, a4 : /\ a1 = loc - (b.x_size + 1) /\ a2 = loc - 1 /\ a3 = loc + 1
                            /\ a4 = loc + (b.x_size + 1)
  OBVIOUS
<1>5. Adj(b, loc) = {a1, a2, a3, a4} \cap Locs(b)
  BY <1>4 DEF Adj
<1>6. PICK t1 : t1 = OnBoard(s, a1)
  OBVIOUS
<1>7. PICK t2 : t2 = OnBoard(t1, a2)
  OBVIOUS
<1>8. PICK t3 : t3 = OnBoard(t2, a3)
  OBVIOUS
<1>9. PICK t4 : t4 = OnBoard(t3, a4)
  OBVIOUS
<1>10. t4 = FOREACHADJ(LAMBDA u, adj : meetNeighbour(u, adj, loc, pla), s, b, loc)
  BY <1>4, <1>6, <1>7, <1>8, <1>9 DEF FOREACHADJ
<1> HIDE DEF OnBoard, Both
<1> DEFINE X1 == {} \cup ({a1} \cap Locs(b))
           X2 == X1 \cup ({a2} \cap Locs(b))
           X3 == X2 \cup ({a3} \cap Locs(b))
           X4 == X3 \cup ({a4} \cap Locs(b))
<1>11. Both(t1, X1)
  BY <1>2, <1>3, <1>5, <1>6
<1>12. Both(t2, X2)
  <2> HIDE DEF X1
  <2> QED
    BY <1>2, <1>5, <1>7, <1>11
<1>13. Both(t3, X3)
  <2> HIDE DEF X2
  <2> QED
    BY <1>2, <1>5, <1>8, <1>12
<1>14. Both(t4, X4)
  <2> HIDE DEF X3
  <2> QED
    BY <1>2, <1>5, <1>9, <1>13
<1>15. X4 = Adj(b, loc)
  BY <1>5
<1> QED
  BY <1>10, <1>14, <1>15 DEF Both

-----------------------------------------------------------------------------
(* What a move does                                                        *)

\* What chain_data says of a stone of a good board.
LEMMA CountsOfChain ==
  ASSUME NEW b, GoodBoard(b), NEW l \in Stones(b), NEW C, C = Chain(b, b.chain_head[l])
  PROVE  /\ getChainSize(b, l) = Cardinality(C) /\ Cardinality(C) \in Nat
         /\ getNumLiberties(b, l) = Cardinality(LibsOf(b, C)) /\ Cardinality(LibsOf(b, C)) \in Nat
         /\ Cardinality(LibsOf(b, C)) = 0 <=> LibsOf(b, C) = {}
         /\ Cardinality(C) = 1 <=> C = {l}
         /\ l \in C /\ C \subseteq Stones(b) /\ \A m \in C : b.colors[m] = b.colors[l]
<1>1. PICK h : h = b.chain_head[l]
  OBVIOUS
<1>2. Typed(b) /\ HeadsOK(b) /\ CountsOK(b, {})
  BY DEF GoodBoard, BoardOK
<1>3. C \subseteq Locs(b) /\ LibsOf(b, C) \subseteq Locs(b) /\ IsHead(b, h)
  BY <1>1, <1>2 DEF Chain, Stones, LibsOf, HeadsOK
<1>4. PICK i \in Nat, j \in Nat : i = Cardinality(C) /\ j = Cardinality(LibsOf(b, C))
  BY <1>2, <1>3, FiniteParts
<1>5. b.chain_data[h] = [owner |-> b.colors[h], num_locs |-> i, num_liberties |-> j]
  <2>1. b.chain_data[h] = [owner |-> b.colors[h], num_locs |-> Cardinality(C),
            num_liberties |-> Cardinality(LibsOf(b, C)) + (IF h \in {} THEN 1 ELSE 0)]
    BY <1>1, <1>2, <1>3 DEF CountsOK
  <2>2. j + (IF h \in {} THEN 1 ELSE 0) = j
    OBVIOUS
  <2> QED
    BY <1>4, <2>1, <2>2
<1>6. getChainSize(b, l) = i /\ getNumLiberties(b, l) = j
  BY <1>1, <1>5 DEF getChainSize, getNumLiberties
<1>7. l \in C /\ C \subseteq Stones(b) /\ \A m \in C : b.colors[m] = b.colors[l]
  BY <1>1, <1>2 DEF Chain, HeadsOK
<1>8. IsFiniteSet(C) /\ IsFiniteSet(LibsOf(b, C))
  BY <1>2, <1>3, FiniteParts
<1>9. Cardinality(LibsOf(b, C)) = 0 <=> LibsOf(b, C) = {}
  BY <1>8, FS_EmptySet
<1>10. Cardinality(C) = 1 <=> C = {l}
  <2>1. ASSUME Cardinality(C) = 1 PROVE C = {l}
    <3>1. Cardinality(C \ {l}) = Cardinality(C) - 1 /\ IsFiniteSet(C \ {l})
      BY <1>7, <1>8, FS_RemoveElement
    <3>2. Cardinality(C \ {l}) = 0
      BY <2>1, <3>1
    <3>3. C \ {l} = {}
      BY <3>1, <3>2, FS_EmptySet
    <3> QED
      BY <1>7, <3>3
  <2>2. Cardinality({l}) = 1
    BY FS_Singleton
  <2> QED
    BY <2>1, <2>2
<1> QED
  BY <1>4, <1>6, <1>7, <1>9, <1>10

LEMMA KoIsCleared ==
  ASSUME NEW b, GoodBoard(b), NEW n, n = clearSimpleKoLoc(b)
  PROVE  /\ GoodBoard(n) /\ n.colors = b.colors /\ n.x_size = b.x_size /\ n.captures = b.captures
         /\ n.ko_loc = NULL_LOC /\ n.chain_head = b.chain_head
<1>1. b \in Boards(b.x_size, Locs(b))
  BY DEF GoodBoard, BoardOK, Typed
<1>2. PICK caps \in [Players -> Int] : caps = b.captures
  BY <1>1 DEF Boards
<1>3. Marked(n, b, NULL_LOC, caps)
  BY <1>1, <1>2 DEF clearSimpleKoLoc, Boards, Marked
<1>4. NULL_LOC \in Int
  BY DEF NULL_LOC
<1>5. /\ BoardOK(n, NULL_LOC, {}, {}) /\ SameStones(n, b) /\ n.captures = caps
      /\ n.chain_head = b.chain_head /\ n.ko_loc = NULL_LOC
  BY <1>2, <1>3, <1>4, KoAndCapturesAreFree DEF GoodBoard
<1> QED
  BY <1>2, <1>5 DEF GoodBoard, SameStones

\* The chain of the stone at loc when it has no liberty.
Suicide(c, loc) ==
  IF LibsOf(c, Chain(c, c.chain_head[loc])) = {} THEN Chain(c, c.chain_head[loc]) ELSE {}

KoAfter(c, T, ko, loc) ==
  IF Cardinality(T) = 1 /\ Chain(c, c.chain_head[loc]) = {loc} /\ Cardinality(LibsOf(c, {loc})) = 1
  THEN ko \in T ELSE ko = NULL_LOC

CapturesAfter(b, pla, T, D) ==
  [p \in Players |-> b.captures[p] + (IF p = pla THEN Cardinality(D) ELSE Cardinality(T))]

\* The captures are counted and the ko is noted.
LEMMA CaptureIsRecorded ==
  ASSUME NEW c, GoodBoard(c), NEW loc \in Stones(c), NEW pla \in Players, NEW s, s.board = c,
         NEW T, IsFiniteSet(T), s.captured = Cardinality(T), T # {} => s.ko \in T, T \subseteq Int,
         NEW n, n = recordCapture(s, loc, pla)
  PROVE  /\ GoodBoard(n) /\ SameStones(n, c) /\ n.chain_head = c.chain_head
         /\ KoAfter(c, T, n.ko_loc, loc) /\ n.captures = CapturesAfter(c, pla, T, {})
<1>1. PICK k : k = IF isKo(s, loc) THEN s.ko ELSE NULL_LOC
  OBVIOUS
<1>2. c \in Boards(c.x_size, Locs(c))
  BY DEF GoodBoard, BoardOK, Typed
<1>3. getOpp(pla) \in Players /\ getOpp(pla) # pla /\ \A p \in Players : p = pla \/ p = getOpp(pla)
  BY DEF getOpp, Players, P_BLACK, P_WHITE
<1>4. PICK i \in Nat : i = Cardinality(T)
  BY FS_CardinalityType
<1>5. PICK f \in [Players -> Int] : f = c.captures
  BY <1>2 DEF Boards
<1>6. PICK caps \in [Players -> Int] : caps = [f EXCEPT ![getOpp(pla)] = @ + i]
  <2>1. f[getOpp(pla)] + i \in Int
    BY <1>3
  <2> QED
    BY <2>1
<1>7. i = 0 <=> T = {}
  BY <1>4, FS_EmptySet
<1>8. isKo(s, loc) <=> /\ i = 1 /\ Chain(c, c.chain_head[loc]) = {loc}
                       /\ Cardinality(LibsOf(c, {loc})) = 1
  <2>1. PICK C : C = Chain(c, c.chain_head[loc])
    OBVIOUS
  <2>2. /\ getChainSize(c, loc) = Cardinality(C)
        /\ getNumLiberties(c, loc) = Cardinality(LibsOf(c, C))
        /\ Cardinality(C) = 1 <=> C = {loc}
    BY <2>1, CountsOfChain
  <2> QED
    BY <1>4, <2>1, <2>2 DEF isKo
<1>9. k \in Int /\ KoAfter(c, T, k, loc)
  <2>1. NULL_LOC \in Int
    BY DEF NULL_LOC
  <2>2. i = 1 => s.ko \in T
    BY <1>7
  <2> QED
    BY <1>1, <1>4, <1>8, <2>1, <2>2 DEF KoAfter
<1>10. Marked(n, c, k, caps)
  BY <1>1, <1>4, <1>5, <1>6 DEF recordCapture, Marked
<1>11. /\ BoardOK(n, NULL_LOC, {}, {}) /\ SameStones(n, c) /\ n.captures = caps
       /\ n.chain_head = c.chain_head /\ n.ko_loc = k
  BY <1>9, <1>10, KoAndCapturesAreFree DEF GoodBoard
<1>12. caps = CapturesAfter(c, pla, T, {})
  <2>1. Cardinality({}) = 0
    BY FS_EmptySet
  <2>2. \A p \in Players : caps[p] = c.captures[p] + (IF p = pla THEN Cardinality({}) ELSE Cardinality(T))
    BY <1>3, <1>4, <1>5, <1>6, <2>1
  <2> QED
    BY <1>6, <2>2 DEF CapturesAfter
<1> QED
  BY <1>9, <1>11, <1>12 DEF GoodBoard

\* A stone without a liberty dies with its chain.
LEMMA SuicideDies ==
  ASSUME NEW c, GoodBoard(c), NEW pla \in Players, NEW loc \in Stones(c),
         NEW n, n = dieIfSuicide(c, loc, pla)
  PROVE  /\ GoodBoard(n) /\ n.x_size = c.x_size /\ n.ko_loc = c.ko_loc
         /\ n.colors = [l \in Locs(c) |-> IF l \in Suicide(c, loc) THEN C_EMPTY ELSE c.colors[l]]
         /\ n.captures = CapturesAfter(c, pla, {}, Suicide(c, loc))
<1>1. PICK C : C = Chain(c, c.chain_head[loc])
  OBVIOUS
<1>2. c \in Boards(c.x_size, Locs(c)) /\ Typed(c) /\ HeadsOK(c) /\ ListsOK(c)
      /\ BoardOK(c, NULL_LOC, {}, {})
  BY DEF GoodBoard, BoardOK, Typed
<1>3. /\ getChainSize(c, loc) = Cardinality(C) /\ Cardinality(C) \in Nat
      /\ getNumLiberties(c, loc) = Cardinality(LibsOf(c, C)) /\ Cardinality(LibsOf(c, C)) \in Nat
      /\ Cardinality(LibsOf(c, C)) = 0 <=> LibsOf(c, C) = {}
  BY <1>1, CountsOfChain
<1>4. PICK f \in [Players -> Int] : f = c.captures
  BY <1>2 DEF Boards
<1>5. Cardinality({}) = 0
  BY FS_EmptySet
<1>6. CASE getNumLiberties(c, loc) > 0
  <2>1. n = c
    BY <1>6 DEF dieIfSuicide
  <2>2. Suicide(c, loc) = {}
    BY <1>1, <1>3, <1>6 DEF Suicide
  <2>3. c.colors = [l \in Locs(c) |-> c.colors[l]]
    BY <1>2 DEF Boards
  <2>4. f = CapturesAfter(c, pla, {}, {})
    <3>1. \A p \in Players : f[p] = f[p] + (IF p = pla THEN Cardinality({}) ELSE Cardinality({}))
      BY <1>5
    <3> QED
      BY <1>4, <3>1 DEF CapturesAfter
  <2> QED
    BY <1>4, <2>1, <2>2, <2>3, <2>4
<1>7. CASE ~(getNumLiberties(c, loc) > 0)
  <2>1. PICK d : d = removeChain(c, loc)
    OBVIOUS
  <2>2. BoardOK(d, NULL_LOC, {}, {}) /\ Removed(c, d, C, c.colors[loc])
    BY <1>1, <1>2, <2>1, RemoveChainIsOK
  <2>3. Suicide(c, loc) = C
    BY <1>1, <1>3, <1>7 DEF Suicide
  <2>4. d \in Boards(d.x_size, Locs(d)) /\ d.captures = f
    BY <1>4, <2>2 DEF BoardOK, Typed, Removed
  <2>5. PICK i \in Nat : i = Cardinality(C)
    BY <1>3
  <2>6. PICK caps \in [Players -> Int] : caps = [f EXCEPT ![pla] = @ + i]
    <3>1. f[pla] + i \in Int
      OBVIOUS
    <3> QED
      BY <3>1
  <2>7. PICK k \in Int : k = d.ko_loc
    BY <2>4 DEF Boards
  <2>8. n = [d EXCEPT !.captures = caps]
    BY <1>3, <1>7, <2>1, <2>4, <2>5, <2>6 DEF dieIfSuicide
  <2>9. Marked(n, d, k, caps)
    BY <2>4, <2>7, <2>8 DEF Boards, Marked
  <2>10. BoardOK(n, NULL_LOC, {}, {}) /\ SameStones(n, d) /\ n.captures = caps /\ n.ko_loc = k
    BY <2>2, <2>9, KoAndCapturesAreFree
  <2>11. caps = CapturesAfter(c, pla, {}, C)
    <3>1. \A p \in Players : caps[p] = f[p] + (IF p = pla THEN Cardinality(C) ELSE Cardinality({}))
      BY <1>5, <2>5, <2>6
    <3> QED
      BY <1>4, <2>6, <3>1 DEF CapturesAfter
  <2>12. n.colors = d.colors /\ n.x_size = d.x_size
    BY <2>10 DEF SameStones
  <2>13. d.x_size = c.x_size /\ d.ko_loc = c.ko_loc
         /\ d.colors = [l \in Locs(c) |-> IF l \in C THEN C_EMPTY ELSE c.colors[l]]
    BY <2>2 DEF Removed
  <2> QED
    BY <2>3, <2>7, <2>10, <2>11, <2>12, <2>13 DEF GoodBoard
<1> QED
  BY <1>6, <1>7

\* A move from b to n.  c is the board with the stone and without what it took.
Plays(b, c, n, loc, pla) ==
  LET T == Taken(b, loc, pla, Adj(b, loc)) IN
  /\ GoodBoard(c) /\ c.x_size = b.x_size /\ Locs(c) = Locs(b)
  /\ c.colors = WithStone(b, loc, pla, T)
  /\ GoodBoard(n) /\ n.x_size = b.x_size
  /\ n.colors = [l \in Locs(b) |-> IF l \in Suicide(c, loc) THEN C_EMPTY ELSE c.colors[l]]
  /\ KoAfter(c, T, n.ko_loc, loc)
  /\ n.captures = CapturesAfter(b, pla, T, Suicide(c, loc))

\* A stone on an empty point of a good board gives a good board, and takes what it should.
LEMMA PlayIsExact ==
  ASSUME NEW b, GoodBoard(b), NEW loc \in Locs(b), loc # PASS_LOC, b.colors[loc] = C_EMPTY,
         NEW pla \in Players, NEW n, n = playMoveAssumeLegal(b, loc, pla)
  PROVE  \E c : Plays(b, c, n, loc, pla)
<1>1. PICK s : s = [board |-> Alone(b, loc, pla), captured |-> 0, ko |-> NULL_LOC, seen |-> {}]
  OBVIOUS
<1>2. PICK t : /\ t = FOREACHADJ(LAMBDA u, adj : meetNeighbour(u, adj, loc, pla), s, b, loc)
               /\ MetState(t, b, loc, pla, Adj(b, loc)) /\ ExactState(t, b, loc, pla, Adj(b, loc))
  BY <1>1, AroundIsMet
<1>3. n = Tidy(dieIfSuicide(recordCapture(t, loc, pla), loc, pla))
  <2>1. playStone(b, loc, pla) = dieIfSuicide(recordCapture(t, loc, pla), loc, pla)
    BY <1>1, <1>2 DEF playStone, Alone
  <2> QED
    BY <2>1 DEF playMoveAssumeLegal
<1>4. PICK c, T : c = t.board /\ T = Taken(b, loc, pla, Adj(b, loc))
  OBVIOUS
<1>5. /\ Met(c, loc, pla, Adj(b, loc), t.seen) /\ c.x_size = b.x_size /\ Locs(c) = Locs(b)
      /\ t.captured = Cardinality(T) /\ (T # {} => t.ko \in T)
      /\ c.colors = WithStone(b, loc, pla, T) /\ c.captures = b.captures
  BY <1>2, <1>4 DEF MetState, NoNewStones, ExactState, ExactBoard
<1>6. GoodBoard(c) /\ loc \in Stones(c)
  <2>1. Adj(c, loc) = Adj(b, loc)
    BY <1>5, SameAdj
  <2> QED
    BY <1>5, <2>1, AllMet DEF Met
<1>7. IsFiniteSet(T) /\ T \subseteq Int
  <2>1. Typed(b) /\ T \subseteq Locs(b)
    BY <1>4 DEF GoodBoard, BoardOK, Taken, Stones
  <2> QED
    BY <2>1, FiniteParts DEF Typed
<1>8. PICK r : r = recordCapture(t, loc, pla)
  OBVIOUS
<1>9. /\ GoodBoard(r) /\ SameStones(r, c) /\ r.chain_head = c.chain_head
      /\ KoAfter(c, T, r.ko_loc, loc) /\ r.captures = CapturesAfter(c, pla, T, {})
  <2>1. t.board = c
    BY <1>4
  <2> QED
    BY <1>5, <1>6, <1>7, <1>8, <2>1, CaptureIsRecorded
<1>10. /\ r.colors = c.colors /\ Locs(r) = Locs(b) /\ loc \in Stones(r) /\ r.x_size = b.x_size
       /\ Suicide(r, loc) = Suicide(c, loc)
  <2>1. /\ Locs(r) = Locs(c) /\ Stones(r) = Stones(c) /\ \A h : Chain(r, h) = Chain(c, h)
        /\ \A S : LibsOf(r, S) = LibsOf(c, S)
    BY <1>9, SameParts
  <2> QED
    BY <1>5, <1>6, <1>9, <2>1 DEF SameStones, Suicide
<1>11. PICK d : d = dieIfSuicide(r, loc, pla)
  OBVIOUS
<1>12. /\ GoodBoard(d) /\ d.x_size = b.x_size /\ d.ko_loc = r.ko_loc
       /\ d.colors = [l \in Locs(b) |-> IF l \in Suicide(c, loc) THEN C_EMPTY ELSE c.colors[l]]
       /\ d.captures = CapturesAfter(r, pla, {}, Suicide(c, loc))
  <2>1. /\ GoodBoard(d) /\ d.x_size = r.x_size /\ d.ko_loc = r.ko_loc
        /\ d.colors = [l \in Locs(r) |-> IF l \in Suicide(r, loc) THEN C_EMPTY ELSE r.colors[l]]
        /\ d.captures = CapturesAfter(r, pla, {}, Suicide(r, loc))
    BY <1>9, <1>10, <1>11, SuicideDies
  <2> QED
    BY <1>10, <2>1
<1>13. /\ GoodBoard(n) /\ n.colors = d.colors /\ n.x_size = d.x_size
       /\ n.ko_loc = d.ko_loc /\ n.captures = d.captures
  <2>1. n = Tidy(d)
    BY <1>3, <1>8, <1>11
  <2> QED
    BY <1>12, <2>1, TidyIsOK DEF GoodBoard
<1>14. CapturesAfter(r, pla, {}, Suicide(c, loc)) = CapturesAfter(b, pla, T, Suicide(c, loc))
  <2>1. PICK D : D = Suicide(c, loc)
    OBVIOUS
  <2>2. Cardinality({}) = 0
    BY FS_EmptySet
  <2>3. Cardinality(T) \in Nat /\ Cardinality(D) \in Nat
    <3>1. D \subseteq Locs(c) /\ Typed(c)
      BY <1>6, <2>1 DEF Suicide, Chain, Stones, GoodBoard, BoardOK
    <3> QED
      BY <1>7, <3>1, FiniteParts, FS_CardinalityType
  <2>4. PICK i \in Nat, j \in Nat : i = Cardinality(T) /\ j = Cardinality(D)
    BY <2>3
  <2>5. PICK f \in [Players -> Int] : f = b.captures
    BY DEF GoodBoard, BoardOK, Typed, Boards
  <2>6. \A p \in Players : r.captures[p] = f[p] + (IF p = pla THEN 0 ELSE i)
    BY <1>5, <1>9, <2>2, <2>4, <2>5 DEF CapturesAfter
  <2>7. \A p \in Players :
          r.captures[p] + (IF p = pla THEN j ELSE 0) = f[p] + (IF p = pla THEN j ELSE i)
    <3> SUFFICES ASSUME NEW p \in Players
                 PROVE r.captures[p] + (IF p = pla THEN j ELSE 0) = f[p] + (IF p = pla THEN j ELSE i)
      OBVIOUS
    <3>1. PICK k \in Int : k = f[p]
      OBVIOUS
    <3> QED
      BY <2>6, <3>1
  <2> QED
    BY <2>1, <2>2, <2>4, <2>5, <2>7 DEF CapturesAfter
<1>15. Plays(b, c, n, loc, pla)
  BY <1>4, <1>5, <1>6, <1>9, <1>12, <1>13, <1>14 DEF Plays
<1> QED
  BY <1>15

-----------------------------------------------------------------------------
(* Every chain has a liberty                                               *)

\* No point of the board is taken for a pass or for no point at all.
PointsOK(b) == NULL_LOC \notin Locs(b) /\ PASS_LOC \notin Locs(b)

\* What an operation on a board starts from and ends with.
Living(b) ==
  /\ GoodBoard(b) /\ PointsOK(b)
  /\ \A l \in Stones(b) : LibsOf(b, Chain(b, b.chain_head[l])) # {}

LEMMA SameConnected ==
  ASSUME NEW b, NEW c, c.x_size = b.x_size, Locs(c) = Locs(b), NEW S, ConnectedOn(b, S)
  PROVE  ConnectedOn(c, S)
<1>1. \A l : Adj(c, l) = Adj(b, l)
  BY SameAdj
<1> QED
  BY <1>1 DEF ConnectedOn

\* Connected stones of a colour are in one chain.
LEMMA ConnectedInChain ==
  ASSUME NEW b, GoodBoard(b), NEW S \in SUBSET Locs(b), ConnectedOn(b, S),
         NEW m \in S, m \in Stones(b), \A k \in S : b.colors[k] = b.colors[m]
  PROVE  S \subseteq Chain(b, b.chain_head[m])
<1>1. MaximalBut(b, NULL_LOC, {})
  BY DEF GoodBoard, BoardOK
<1>2. \A k \in S : k \in Stones(b)
  BY DEF Stones
<1> DEFINE Reached == {k \in S : b.chain_head[k] = b.chain_head[m]}
<1>3. Reached \in SUBSET S /\ Reached # {}
  OBVIOUS
<1>4. \A l \in Reached, k \in S : k \in Adj(b, l) => k \in Reached
  BY <1>1, <1>2 DEF MaximalBut
<1>5. Reached = S
  BY <1>3, <1>4 DEF ConnectedOn
<1> QED
  BY <1>2, <1>5 DEF Chain

\* So a chain lives if it holds connected stones that have a liberty.
LEMMA LivesOn ==
  ASSUME NEW b, GoodBoard(b), NEW S \in SUBSET Locs(b), ConnectedOn(b, S),
         NEW m \in S, m \in Stones(b), \A k \in S : b.colors[k] = b.colors[m],
         LibsOf(b, S) # {}
  PROVE  LibsOf(b, Chain(b, b.chain_head[m])) # {}
<1>1. S \subseteq Chain(b, b.chain_head[m])
  BY ConnectedInChain
<1> QED
  BY <1>1 DEF LibsOf

\* The chain of a stone.
LEMMA OfChain ==
  ASSUME NEW b, GoodBoard(b), NEW m \in Stones(b), NEW C, C = Chain(b, b.chain_head[m])
  PROVE  /\ m \in C /\ C \subseteq Stones(b) /\ C \subseteq Locs(b) /\ ConnectedOn(b, C)
         /\ \A k \in C : b.colors[k] = b.colors[m] /\ b.chain_head[k] = b.chain_head[m]
         /\ \A k \in C : \A a \in Adj(b, k) : b.colors[a] = b.colors[k] => a \in C
<1>1. HeadsOK(b) /\ ConnectedOK(b) /\ MaximalBut(b, NULL_LOC, {})
  BY DEF GoodBoard, BoardOK
<1>2. /\ m \in C /\ C \subseteq Stones(b) /\ C \subseteq Locs(b)
      /\ \A k \in C : b.colors[k] = b.colors[m] /\ b.chain_head[k] = b.chain_head[m]
  BY <1>1 DEF Chain, HeadsOK, Stones
<1>3. ConnectedOn(b, C)
  BY <1>1 DEF HeadsOK, ConnectedOK
<1>4. ASSUME NEW k \in C, NEW a \in Adj(b, k), b.colors[a] = b.colors[k] PROVE a \in C
  <2>1. k \in Stones(b) /\ a \in Stones(b)
    BY <1>2, <1>4 DEF Stones, Adj
  <2>2. b.chain_head[a] = b.chain_head[k]
    BY <1>1, <1>4, <2>1 DEF MaximalBut
  <2> QED
    BY <1>2, <2>1, <2>2 DEF Chain
<1> QED
  BY <1>2, <1>3, <1>4

\* What a move takes are chains of the opponent.
LEMMA OfTaken ==
  ASSUME NEW b, GoodBoard(b), NEW loc, NEW pla \in Players, NEW m \in Taken(b, loc, pla, Adj(b, loc))
  PROVE  /\ m \in Stones(b) /\ b.colors[m] = getOpp(pla)
         /\ LibsOf(b, Chain(b, b.chain_head[m])) = {loc}
         /\ Chain(b, b.chain_head[m]) \subseteq Taken(b, loc, pla, Adj(b, loc))
<1>1. m \in Stones(b) /\ LibsOf(b, Chain(b, b.chain_head[m])) = {loc}
  BY DEF Taken
<1>2. PICK a \in Adj(b, loc) : b.colors[a] = getOpp(pla) /\ b.chain_head[a] = b.chain_head[m]
  BY DEF Taken
<1>3. a \in Stones(b)
  BY <1>2 DEF Stones, Adj, getOpp, Players, P_BLACK, P_WHITE, C_EMPTY
<1>4. b.colors[m] = getOpp(pla)
  <2>1. HeadsOK(b)
    BY DEF GoodBoard, BoardOK
  <2>2. b.colors[b.chain_head[a]] = b.colors[a] /\ b.colors[b.chain_head[m]] = b.colors[m]
    BY <1>1, <1>3, <2>1 DEF HeadsOK
  <2> QED
    BY <1>2, <2>2
<1>5. \A k \in Chain(b, b.chain_head[m]) : k \in Taken(b, loc, pla, Adj(b, loc))
  BY <1>1, <1>2 DEF Taken, Chain
<1> QED
  BY <1>1, <1>4, <1>5

\* The same said of the colours after the captures.
LEMMA ColorsAfter ==
  ASSUME NEW b, Living(b), NEW loc \in Locs(b), b.colors[loc] = C_EMPTY, NEW pla \in Players,
         NEW c, NEW n, Plays(b, c, n, loc, pla),
         NEW T, T = Taken(b, loc, pla, Adj(b, loc))
  PROVE  /\ loc \in Stones(c) /\ c.colors[loc] = pla /\ loc \notin T
         /\ \A l \in Locs(b) : l # loc => c.colors[l] = IF l \in T THEN C_EMPTY ELSE b.colors[l]
         /\ \A l \in Stones(c) : l # loc =>
              l \in Stones(b) /\ l \notin T /\ c.colors[l] = b.colors[l]
         /\ \A l : Adj(c, l) = Adj(b, l)
<1>1. c.colors = WithStone(b, loc, pla, T) /\ Locs(c) = Locs(b) /\ c.x_size = b.x_size
  BY DEF Plays
<1>2. pla # C_EMPTY
  BY DEF Players, P_BLACK, P_WHITE, C_EMPTY
<1>3. \A l \in Locs(b) :
        c.colors[l] = IF l = loc THEN pla ELSE IF l \in T THEN C_EMPTY ELSE b.colors[l]
  BY <1>1 DEF WithStone
<1>4. loc \notin T
  BY DEF Taken, Stones
<1>5. \A l : Adj(c, l) = Adj(b, l)
  BY <1>1, SameAdj
<1> QED
  BY <1>1, <1>2, <1>3, <1>4, <1>5 DEF Stones

\* After the captures only the chain of the new stone can be without a liberty.
LEMMA OthersLive ==
  ASSUME NEW b, Living(b), NEW loc \in Locs(b), b.colors[loc] = C_EMPTY, NEW pla \in Players,
         NEW c, NEW n, Plays(b, c, n, loc, pla),
         NEW m \in Stones(c), c.chain_head[m] # c.chain_head[loc]
  PROVE  LibsOf(c, Chain(c, c.chain_head[m])) # {}
<1>1. PICK T : T = Taken(b, loc, pla, Adj(b, loc))
  OBVIOUS
<1>2. GoodBoard(b) /\ GoodBoard(c) /\ Locs(c) = Locs(b) /\ c.x_size = b.x_size
      /\ Typed(b)
  BY DEF Living, Plays, GoodBoard, BoardOK
<1>3. /\ loc \in Stones(c) /\ c.colors[loc] = pla /\ loc \notin T
      /\ \A l \in Locs(b) : l # loc => c.colors[l] = IF l \in T THEN C_EMPTY ELSE b.colors[l]
      /\ \A l \in Stones(c) : l # loc =>
           l \in Stones(b) /\ l \notin T /\ c.colors[l] = b.colors[l]
      /\ \A l : Adj(c, l) = Adj(b, l)
  BY <1>1, ColorsAfter
<1>4. m \in Stones(b) /\ m \notin T /\ c.colors[m] = b.colors[m] /\ m # loc
  BY <1>3
<1>5. PICK S : S = Chain(b, b.chain_head[m])
  OBVIOUS
<1>6. /\ m \in S /\ S \subseteq Stones(b) /\ S \subseteq Locs(b) /\ ConnectedOn(b, S)
      /\ \A k \in S : b.colors[k] = b.colors[m] /\ b.chain_head[k] = b.chain_head[m]
  BY <1>2, <1>4, <1>5, OfChain
<1>7. \A k \in S : k \notin T
  <2> SUFFICES ASSUME NEW k \in S, k \in T PROVE FALSE
    OBVIOUS
  <2>1. Chain(b, b.chain_head[k]) \subseteq T
    BY <1>1, <1>2, OfTaken
  <2> QED
    BY <1>4, <1>5, <1>6, <2>1
<1>8. \A k \in S : c.colors[k] = c.colors[m]
  <2>1. \A k \in S : k # loc
    BY <1>6 DEF Stones
  <2> QED
    BY <1>3, <1>4, <1>6, <1>7, <2>1
<1>9. ConnectedOn(c, S)
  BY <1>2, <1>6, SameConnected
<1>10. S \subseteq Chain(c, c.chain_head[m])
  BY <1>2, <1>6, <1>8, <1>9, ConnectedInChain
<1>11. \E a \in LibsOf(b, S) : a # loc
  <2> SUFFICES ASSUME LibsOf(b, S) \subseteq {loc} PROVE FALSE
    OBVIOUS
  <2>1. LibsOf(b, S) = {loc}
    BY <1>4, <1>5 DEF Living
  <2>2. PICK k \in S : k \in Adj(b, loc)
    BY <2>1 DEF LibsOf
  <2>3. CASE b.colors[k] = getOpp(pla)
    <3>1. m \in T
      BY <1>1, <1>4, <1>5, <1>6, <2>1, <2>2, <2>3 DEF Taken
    <3> QED
      BY <1>4, <3>1
  <2>4. CASE b.colors[k] # getOpp(pla)
    <3>1. b.colors[k] = pla
      <4>1. b.colors[k] \in {1, 2}
        BY <1>2, <1>6, PlayersColors
      <4> QED
        BY <2>4, <4>1 DEF getOpp, Players, P_BLACK, P_WHITE
    <3>2. c.colors[k] = pla /\ k \in Chain(c, c.chain_head[m]) /\ k \in Adj(c, loc)
      BY <1>3, <1>4, <1>6, <1>8, <1>10, <2>2, <3>1
    <3>3. c.chain_head[k] = c.chain_head[loc]
      <4>1. k \in Chain(c, c.chain_head[loc])
        BY <1>2, <1>3, <3>2, OfChain
      <4> QED
        BY <4>1 DEF Chain
    <3> QED
      BY <3>2, <3>3 DEF Chain
  <2> QED
    BY <2>3, <2>4
<1>12. LibsOf(c, S) # {}
  <2>1. PICK a \in LibsOf(b, S) : a # loc
    BY <1>11
  <2>2. a \in Locs(b) /\ b.colors[a] = C_EMPTY
    BY DEF LibsOf
  <2>3. c.colors[a] = C_EMPTY
    BY <1>3, <2>1, <2>2
  <2>4. a \in LibsOf(c, S)
    BY <1>2, <1>3, <2>2, <2>3 DEF LibsOf
  <2> QED
    BY <2>4
<1> QED
  BY <1>10, <1>12 DEF LibsOf

\* Every chain lives after a move.
LEMMA PlayLives ==
  ASSUME NEW b, Living(b), NEW loc \in Locs(b), b.colors[loc] = C_EMPTY, NEW pla \in Players,
         NEW c, NEW n, Plays(b, c, n, loc, pla)
  PROVE  Living(n) /\ Locs(n) = Locs(b) /\ n.x_size = b.x_size
<1>1. PICK D : D = Suicide(c, loc)
  OBVIOUS
<1>2. /\ GoodBoard(c) /\ GoodBoard(n) /\ Locs(c) = Locs(b) /\ c.x_size = b.x_size
      /\ n.x_size = b.x_size /\ Locs(n) = Locs(b)
      /\ \A l \in Locs(b) : n.colors[l] = IF l \in D THEN C_EMPTY ELSE c.colors[l]
  BY <1>1 DEF Plays, Locs
<1>3. ASSUME NEW m \in Stones(n) PROVE LibsOf(n, Chain(n, n.chain_head[m])) # {}
  <2>1. m \in Stones(c) /\ m \notin D /\ m \in Locs(b)
    BY <1>2 DEF Stones
  <2>2. PICK S : S = Chain(c, c.chain_head[m])
    OBVIOUS
  <2>3. /\ m \in S /\ S \subseteq Locs(c) /\ ConnectedOn(c, S)
        /\ \A k \in S : c.colors[k] = c.colors[m] /\ c.chain_head[k] = c.chain_head[m]
    BY <1>2, <2>1, <2>2, OfChain
  <2>4. LibsOf(c, S) # {} /\ \A k \in S : k \notin D
    <3>1. CASE c.chain_head[m] = c.chain_head[loc]
      BY <1>1, <2>1, <2>2, <2>3, <3>1 DEF Suicide
    <3>2. CASE c.chain_head[m] # c.chain_head[loc]
      <4>1. LibsOf(c, S) # {}
        BY <2>1, <2>2, <3>2, OthersLive
      <4>2. \A k \in S : k \notin D
        BY <1>1, <2>3, <3>2 DEF Suicide, Chain
      <4> QED
        BY <4>1, <4>2
    <3> QED
      BY <3>1, <3>2
  <2>5. \A k \in S : n.colors[k] = n.colors[m]
    BY <1>2, <2>1, <2>3, <2>4
  <2>6. ConnectedOn(n, S)
    <3>1. n.x_size = c.x_size /\ Locs(n) = Locs(c)
      BY <1>2
    <3> QED
      BY <2>3, <3>1, SameConnected
  <2>7. \A l : Adj(n, l) = Adj(c, l)
    BY <1>2, SameAdj
  <2>8. LibsOf(n, S) # {}
    <3>1. PICK a : a \in LibsOf(c, S)
      BY <2>4
    <3>2. a \in Locs(b) /\ c.colors[a] = C_EMPTY
      BY <1>2, <3>1 DEF LibsOf
    <3>3. n.colors[a] = C_EMPTY
      BY <1>2, <3>2
    <3>4. a \in LibsOf(n, S)
      BY <1>2, <2>7, <3>1, <3>2, <3>3 DEF LibsOf
    <3> QED
      BY <3>4
  <2> QED
    BY <1>2, <2>3, <2>5, <2>6, <2>8, LivesOn
<1> QED
  BY <1>2, <1>3 DEF Living, PointsOK

-----------------------------------------------------------------------------
(* A stone leaves its chain                                                *)

\* b without the stones of A.
Bare(c, b, A) ==
  /\ Living(c) /\ Locs(c) = Locs(b) /\ c.x_size = b.x_size /\ c.captures = b.captures
  /\ c.colors = [l \in Locs(b) |-> IF l \in A THEN C_EMPTY ELSE b.colors[l]]

\* The stones that are played again take nothing and do not die.
LEMMA ReplayIsQuiet ==
  ASSUME NEW b, Living(b), NEW loc \in Stones(b), NEW pla \in Players, pla = b.colors[loc],
         NEW C, C = Chain(b, b.chain_head[loc]), NEW A \in SUBSET C, loc \in A,
         NEW c, Bare(c, b, A), NEW m \in A, m # loc, NEW d, NEW e, Plays(c, e, d, m, pla)
  PROVE  Bare(d, b, A \ {m})
<1>1. PICK T, E : T = Taken(c, m, pla, Adj(c, m)) /\ E = Chain(e, e.chain_head[m])
  OBVIOUS
<1>2. /\ GoodBoard(b) /\ GoodBoard(c) /\ Locs(c) = Locs(b) /\ c.x_size = b.x_size
      /\ \A l \in Locs(b) : c.colors[l] = IF l \in A THEN C_EMPTY ELSE b.colors[l]
      /\ Living(c) /\ Typed(b) /\ Typed(c)
  BY DEF Bare, Living, GoodBoard, BoardOK
<1>3. /\ loc \in C /\ C \subseteq Stones(b) /\ C \subseteq Locs(b) /\ ConnectedOn(b, C)
      /\ \A k \in C : b.colors[k] = pla
  BY <1>2, OfChain
<1>4. pla # C_EMPTY /\ getOpp(pla) # pla /\ getOpp(pla) # C_EMPTY
  BY DEF getOpp, Players, P_BLACK, P_WHITE, C_EMPTY
<1>5. m \in Locs(c) /\ c.colors[m] = C_EMPTY
  BY <1>2, <1>3
<1>6. \A l : Adj(c, l) = Adj(b, l)
  BY <1>2, SameAdj
<1>7. T = {}
  <2> SUFFICES ASSUME NEW k \in T PROVE FALSE
    OBVIOUS
  <2>1. k \in Stones(c) /\ c.colors[k] = getOpp(pla) /\ LibsOf(c, Chain(c, c.chain_head[k])) = {m}
    BY <1>1, <1>2, OfTaken
  <2>2. k \notin A /\ k \in Stones(b) /\ b.colors[k] = getOpp(pla)
    BY <1>2, <1>4, <2>1 DEF Stones
  <2>3. PICK S : S = Chain(b, b.chain_head[k])
    OBVIOUS
  <2>4. /\ k \in S /\ S \subseteq Locs(b) /\ ConnectedOn(b, S)
        /\ \A j \in S : b.colors[j] = getOpp(pla)
    BY <1>2, <2>2, <2>3, OfChain
  <2>5. \A j \in S : c.colors[j] = c.colors[k]
    <3>1. \A j \in S : j \notin A
      BY <1>3, <1>4, <2>4
    <3> QED
      BY <1>2, <2>1, <2>4, <3>1
  <2>6. S \subseteq Chain(c, c.chain_head[k])
    <3>1. ConnectedOn(c, S)
      BY <1>2, <2>4, SameConnected
    <3> QED
      BY <1>2, <2>1, <2>4, <2>5, <3>1, ConnectedInChain
  <2>7. PICK a : a \in LibsOf(b, S)
    BY <2>2, <2>3 DEF Living
  <2>8. a \in Locs(b) /\ b.colors[a] = C_EMPTY /\ a \notin A
    BY <1>3, <1>4, <2>7 DEF LibsOf
  <2>9. a \in LibsOf(c, Chain(c, c.chain_head[k]))
    BY <1>2, <1>6, <2>6, <2>7, <2>8 DEF LibsOf
  <2>10. a = m
    BY <2>1, <2>9
  <2> QED
    BY <1>3, <1>4, <2>8, <2>10
<1>8. /\ m \in Stones(e) /\ e.colors[m] = pla /\ GoodBoard(e) /\ Locs(e) = Locs(b)
      /\ \A l \in Locs(b) : l # m => e.colors[l] = c.colors[l]
      /\ \A l : Adj(e, l) = Adj(b, l)
  <2>1. /\ m \in Stones(e) /\ e.colors[m] = pla
        /\ \A l \in Locs(c) : l # m => e.colors[l] = IF l \in T THEN C_EMPTY ELSE c.colors[l]
        /\ \A l : Adj(e, l) = Adj(c, l)
    BY <1>1, <1>2, <1>5, ColorsAfter
  <2>2. GoodBoard(e) /\ Locs(e) = Locs(c)
    BY DEF Plays
  <2> QED
    BY <1>2, <1>6, <1>7, <2>1, <2>2
<1>9. LibsOf(e, E) # {}
  <2> SUFFICES ASSUME LibsOf(e, E) = {} PROVE FALSE
    OBVIOUS
  <2>1. /\ m \in E /\ \A k \in E : e.colors[k] = pla
        /\ \A k \in E : \A a \in Adj(e, k) : e.colors[a] = e.colors[k] => a \in E
    BY <1>1, <1>8, OfChain
  <2>2. PICK Reached : Reached = E \cap C
    OBVIOUS
  <2>3. ASSUME NEW l \in Reached, NEW k \in C, k \in Adj(b, l) PROVE k \in Reached
    <3>1. k \in Locs(b) /\ b.colors[k] = pla /\ l \in Locs(b) /\ l \in E
      BY <1>3, <2>2
    <3>2. e.colors[k] = pla \/ e.colors[k] = C_EMPTY
      BY <1>2, <1>8, <3>1
    <3>3. e.colors[k] # C_EMPTY
      <4> SUFFICES ASSUME e.colors[k] = C_EMPTY PROVE k \in LibsOf(e, E)
        OBVIOUS
      <4>1. l \in Adj(b, k)
        BY <1>2, <2>3, <3>1, AdjIsSymmetric
      <4> QED
        BY <1>8, <3>1, <4>1 DEF LibsOf
    <3>4. k \in E
      BY <1>8, <2>1, <2>3, <3>1, <3>2, <3>3
    <3> QED
      BY <2>2, <3>4
  <2>4. Reached = C
    <3>1. Reached \in SUBSET C /\ Reached # {}
      BY <2>1, <2>2
    <3> QED
      BY <1>3, <2>3, <3>1 DEF ConnectedOn
  <2>5. e.colors[loc] = pla
    BY <1>3, <2>1, <2>2, <2>4
  <2>6. e.colors[loc] = C_EMPTY
    BY <1>2, <1>3, <1>8
  <2> QED
    BY <1>4, <2>5, <2>6
<1>10. Suicide(e, m) = {}
  BY <1>1, <1>9 DEF Suicide
<1>11. Living(d) /\ Locs(d) = Locs(b) /\ d.x_size = b.x_size
  BY <1>2, <1>5, PlayLives
<1>12. d.colors = [l \in Locs(b) |-> IF l \in A \ {m} THEN C_EMPTY ELSE b.colors[l]]
  <2>1. d.colors = [l \in Locs(b) |-> e.colors[l]]
    BY <1>2, <1>10 DEF Plays
  <2>2. \A l \in Locs(b) : e.colors[l] = IF l \in A \ {m} THEN C_EMPTY ELSE b.colors[l]
    BY <1>2, <1>3, <1>8
  <2> QED
    BY <2>1, <2>2
<1>13. d.captures = b.captures
  <2>1. c.captures = b.captures /\ c.captures \in [Players -> Int]
    BY <1>2 DEF Bare, Typed, Boards
  <2>2. d.captures = CapturesAfter(c, pla, {}, {})
    BY <1>1, <1>7, <1>10 DEF Plays
  <2>3. Cardinality({}) = 0
    BY FS_EmptySet
  <2>4. \A p \in Players : c.captures[p] + (IF p = pla THEN Cardinality({}) ELSE Cardinality({})) = c.captures[p]
    BY <2>1, <2>3
  <2> QED
    BY <2>1, <2>2, <2>4 DEF CapturesAfter
<1> QED
  BY <1>11, <1>12, <1>13 DEF Bare

\* What is left when the whole chain has gone.
LEMMA ChainIsBare ==
  ASSUME NEW b, Living(b), NEW loc \in Stones(b), NEW n, n = Tidy(removeChain(b, loc))
  PROVE  Bare(n, b, Chain(b, b.chain_head[loc]))
<1>1. PICK C, d : C = Chain(b, b.chain_head[loc]) /\ d = removeChain(b, loc)
  OBVIOUS
<1>2. GoodBoard(b) /\ BoardOK(b, NULL_LOC, {}, {})
  BY DEF Living, GoodBoard
<1>3. BoardOK(d, NULL_LOC, {}, {}) /\ Removed(b, d, C, b.colors[loc])
  BY <1>1, <1>2, RemoveChainIsOK
<1>4. BoardOK(n, NULL_LOC, {}, {}) /\ n.colors = d.colors /\ n.x_size = d.x_size
      /\ n.captures = d.captures
  BY <1>1, <1>3, TidyIsOK
<1>5. /\ GoodBoard(n) /\ n.x_size = b.x_size /\ n.captures = b.captures /\ Locs(n) = Locs(b)
      /\ n.colors = [l \in Locs(b) |-> IF l \in C THEN C_EMPTY ELSE b.colors[l]]
  BY <1>3, <1>4 DEF Removed, GoodBoard, Locs
<1>6. ASSUME NEW m \in Stones(n) PROVE LibsOf(n, Chain(n, n.chain_head[m])) # {}
  <2>1. m \in Stones(b) /\ m \notin C
    BY <1>5 DEF Stones
  <2>2. PICK S : S = Chain(b, b.chain_head[m])
    OBVIOUS
  <2>3. /\ m \in S /\ S \subseteq Locs(b) /\ ConnectedOn(b, S)
        /\ \A k \in S : b.colors[k] = b.colors[m] /\ b.chain_head[k] = b.chain_head[m]
    BY <1>2, <2>1, <2>2, OfChain
  <2>4. \A k \in S : k \notin C
    BY <1>1, <2>1, <2>3 DEF Chain
  <2>5. \A k \in S : n.colors[k] = n.colors[m]
    BY <1>5, <2>3, <2>4
  <2>6. ConnectedOn(n, S) /\ \A l : Adj(n, l) = Adj(b, l)
    BY <1>5, <2>3, SameConnected, SameAdj
  <2>7. PICK a : a \in LibsOf(b, S)
    BY <2>1, <2>2 DEF Living
  <2>8. a \in LibsOf(n, S)
    BY <1>5, <2>6, <2>7 DEF LibsOf
  <2> QED
    BY <1>5, <2>3, <2>5, <2>6, <2>8, LivesOn
<1> QED
  BY <1>1, <1>5, <1>6 DEF Bare, Living, PointsOK

\* A stone leaves its chain: nothing else on the board changes.
LEMMA SingleStoneIsRemoved ==
  ASSUME NEW b, Living(b), NEW loc \in Stones(b), NEW n, n = removeSingleStone(b, loc)
  PROVE  Bare(n, b, {loc})
<1>1. /\ GoodBoard(b) /\ Typed(b) /\ HeadsOK(b) /\ ListsOK(b)
  BY DEF Living, GoodBoard, BoardOK
<1> DEFINE C == Chain(b, b.chain_head[loc])
           chain == ChainOf(b, loc)
           N == Len(chain) - 1
           c0 == Tidy(removeChain(b, loc))
           pla == b.colors[loc]
           Left(i) == {loc} \cup {chain[j + 1] : j \in i + 1 .. N}
           Good(c, i) == Bare(c, b, Left(i))
           Def(f) == f = [i \in 0 .. N |-> IF i = 0 THEN c0
                            ELSE playMoveAssumeLegal(f[i - 1], chain[i + 1], pla)]
           again == CHOOSE f : Def(f)
<1>2. n = again[N]
  BY DEF removeSingleStone
<1>3. /\ chain \in Seq(C) /\ Len(chain) \in Nat \ {0} /\ chain[1] = loc
      /\ \A i, j \in 1 .. Len(chain) : chain[i] = chain[j] => i = j
      /\ C \subseteq Locs(b) /\ ToSet(chain) = C
  <2>1. Lists(chain, b.next_in_chain, C, loc)
    BY <1>1, StonesOfChain
  <2>2. C \subseteq Locs(b)
    BY DEF Chain, Stones
  <2> HIDE DEF chain, C
  <2> QED
    BY <2>1, <2>2 DEF Lists
<1>4. pla \in Players
  BY <1>1, PlayersColors DEF Players, P_BLACK, P_WHITE
<1>40. \A k : k \in C <=> \E j \in 1 .. Len(chain) : k = chain[j]
  BY <1>3 DEF ToSet
<1> HIDE DEF chain, c0
<1>5. N \in Nat /\ Len(chain) = N + 1
  BY <1>3
<1>6. \A j \in 0 .. N : chain[j + 1] \in C /\ j + 1 \in 1 .. Len(chain)
  BY <1>3
<1>60. loc \in C
  BY <1>3, <1>5, <1>6
<1> HIDE DEF N, C
<1>61. \A i \in 0 .. N : Left(i) \in SUBSET C /\ loc \in Left(i)
  <2> SUFFICES ASSUME NEW i \in 0 .. N, NEW j \in i + 1 .. N PROVE chain[j + 1] \in C
    BY <1>60
  <2>1. j \in 0 .. N
    BY <1>5
  <2> QED
    BY <1>6, <2>1
<1>62. Left(0) = C
  <2>1. ASSUME NEW k \in C PROVE k \in Left(0)
    <3>1. PICK j \in 1 .. N + 1 : k = chain[j]
      BY <1>5, <1>40
    <3>2. CASE j = 1
      BY <1>3, <3>1, <3>2
    <3>3. CASE j # 1
      <4>1. PICK i \in 1 .. N : j = i + 1
        BY <1>5, <3>3
      <4> QED
        BY <3>1, <4>1
    <3> QED
      BY <3>2, <3>3
  <2>2. Left(0) \in SUBSET C
    BY <1>5, <1>61
  <2> HIDE DEF Left
  <2> QED
    BY <2>1, <2>2
<1>63. Left(N) = {loc}
  BY <1>5
<1>64. ASSUME NEW i \in Nat, i < N
       PROVE  /\ chain[(i + 1) + 1] \in Left(i) /\ chain[(i + 1) + 1] # loc
              /\ Left(i + 1) = Left(i) \ {chain[(i + 1) + 1]}
  <2>1. PICK m : m = chain[(i + 1) + 1]
    OBVIOUS
  <2>2. m \in Left(i)
    BY <1>5, <1>64, <2>1
  <2>3. m # loc
    <3>1. (i + 1) + 1 \in 1 .. Len(chain) /\ 1 \in 1 .. Len(chain) /\ (i + 1) + 1 # 1
      BY <1>5, <1>64
    <3> QED
      BY <1>3, <2>1, <3>1
  <2>4. ASSUME NEW k \in Left(i + 1) PROVE k \in Left(i) /\ k # m
    <3>1. CASE k = loc
      BY <2>3, <3>1
    <3>2. CASE k # loc
      <4>1. PICK j \in (i + 1) + 1 .. N : k = chain[j + 1]
        BY <3>2
      <4>2. j \in i + 1 .. N /\ j + 1 \in 1 .. Len(chain) /\ (i + 1) + 1 \in 1 .. Len(chain)
            /\ j + 1 # (i + 1) + 1
        BY <1>5, <1>64
      <4>3. k # m
        BY <1>3, <2>1, <4>1, <4>2
      <4> QED
        BY <4>1, <4>2, <4>3
    <3> QED
      BY <3>1, <3>2
  <2>5. ASSUME NEW k \in Left(i), k # m PROVE k \in Left(i + 1)
    <3>1. CASE k = loc
      BY <3>1
    <3>2. CASE k # loc
      <4>1. PICK j \in i + 1 .. N : k = chain[j + 1]
        BY <3>2
      <4>2. j \in (i + 1) + 1 .. N
        BY <1>5, <2>1, <2>5, <4>1
      <4> QED
        BY <4>1, <4>2
    <3> QED
      BY <3>1, <3>2
  <2> HIDE DEF Left
  <2>6. Left(i + 1) = Left(i) \ {m}
    BY <2>4, <2>5
  <2> QED
    BY <2>1, <2>2, <2>3, <2>6
<1> HIDE DEF Left
<1>7. Good(c0, 0)
  BY <1>62, ChainIsBare DEF c0, C
<1>8. ASSUME NEW c, NEW i \in Nat, i < N, Good(c, i)
      PROVE  Good(playMoveAssumeLegal(c, chain[(i + 1) + 1], pla), i + 1)
  <2>1. PICK m, d, A : /\ m = chain[(i + 1) + 1] /\ A = Left(i)
                       /\ d = playMoveAssumeLegal(c, m, pla)
    OBVIOUS
  <2>2. m \in A /\ m # loc /\ Left(i + 1) = A \ {m} /\ A \in SUBSET C /\ loc \in A /\ Bare(c, b, A)
    BY <1>5, <1>8, <1>61, <1>64, <2>1
  <2>3. m \in Locs(c) /\ c.colors[m] = C_EMPTY /\ GoodBoard(c) /\ m # PASS_LOC
    BY <1>3, <2>2 DEF Bare, Living, PointsOK
  <2>4. PICK e : Plays(c, e, d, m, pla)
    BY <1>4, <2>1, <2>3, PlayIsExact
  <2>5. Bare(d, b, A \ {m})
    <3>1. C = Chain(b, b.chain_head[loc]) /\ pla = b.colors[loc] /\ pla \in Players
      BY <1>4 DEF C
    <3>2. PICK D, p : D = C /\ p = pla
      OBVIOUS
    <3>3. /\ p \in Players /\ p = b.colors[loc] /\ D = Chain(b, b.chain_head[loc]) /\ A \in SUBSET D
          /\ loc \in A /\ m \in A /\ m # loc /\ Bare(c, b, A) /\ Plays(c, e, d, m, p)
      BY <2>2, <2>4, <3>1, <3>2
    <3> QED
      BY <3>3, ReplayIsQuiet
  <2> QED
    BY <2>1, <2>2, <2>5
<1> HIDE DEF pla
<1>9. \E f : Def(f)
  <2> DEFINE S == {c \in Boards(b.x_size, Locs(b)) : GoodBoard(c)}
             F == [p \in Nat \X S |->
                     IF p[1] \in 1 .. N /\ Good(p[2], p[1] - 1)
                     THEN playMoveAssumeLegal(p[2], chain[p[1] + 1], pla) ELSE p[2]]
  <2>1. \A c, i : Good(c, i) => c \in S
    <3> SUFFICES ASSUME NEW c, NEW i, Good(c, i) PROVE c \in S
      OBVIOUS
    <3>1. Typed(c) /\ GoodBoard(c) /\ c.x_size = b.x_size /\ Locs(c) = Locs(b)
      BY DEF Bare, Living, GoodBoard, BoardOK
    <3> QED
      BY <3>1 DEF Typed
  <2>2. c0 \in S
    BY <1>7, <2>1
  <2>3. F \in [Nat \X S -> S]
    <3> SUFFICES ASSUME NEW p \in Nat \X S, p[1] \in 1 .. N, Good(p[2], p[1] - 1)
                 PROVE  playMoveAssumeLegal(p[2], chain[p[1] + 1], pla) \in S
      OBVIOUS
    <3>1. PICK i \in Nat : p[1] = i + 1 /\ i < N /\ p[1] - 1 = i
      BY <1>5
    <3> HIDE DEF S, Good
    <3>2. Good(playMoveAssumeLegal(p[2], chain[(i + 1) + 1], pla), i + 1)
      BY <1>8, <3>1
    <3> QED
      BY <2>1, <3>1, <3>2
  <2> HIDE DEF S, F, Good
  <2>4. PICK f \in [0 .. N -> S] : Approximates(f, F, c0, N)
    BY <1>5, <2>2, <2>3, ApproximationsExist
  <2>5. f[0] = c0 /\ \A i \in 0 .. N - 1 : f[i + 1] = F[<<i + 1, f[i]>>]
    BY <2>4 DEF Approximates
  <2>6. \A i \in 0 .. N : f[i] \in S
    BY <2>4
  <2> DEFINE T == {i \in Nat : i <= N => Good(f[i], i)}
  <2>7. 0 \in T
    BY <1>7, <2>5
  <2>8. ASSUME NEW i \in T, i + 1 <= N
        PROVE  /\ Good(f[i + 1], i + 1)
               /\ f[i + 1] = playMoveAssumeLegal(f[i], chain[(i + 1) + 1], pla)
    <3>1. i \in 0 .. N - 1 /\ i \in 0 .. N /\ i \in Nat /\ i < N /\ Good(f[i], i)
          /\ i + 1 \in 1 .. N /\ (i + 1) - 1 = i
      BY <1>5, <2>8
    <3>2. <<i + 1, f[i]>> \in Nat \X S
      BY <2>6, <3>1
    <3>3. F[<<i + 1, f[i]>>] = playMoveAssumeLegal(f[i], chain[(i + 1) + 1], pla)
      BY <3>1, <3>2 DEF F
    <3>4. f[i + 1] = playMoveAssumeLegal(f[i], chain[(i + 1) + 1], pla)
      BY <2>5, <3>1, <3>3
    <3> QED
      BY <1>8, <3>1, <3>4
  <2>9. T = Nat
    <3>1. \A i \in T : i + 1 \in T
      BY <2>8
    <3> HIDE DEF T
    <3>2. T \subseteq Nat
      BY DEF T
    <3> QED
      BY <2>7, <3>1, <3>2, ByInduction
  <2>10. ASSUME NEW i \in 0 .. N
         PROVE  f[i] = IF i = 0 THEN c0 ELSE playMoveAssumeLegal(f[i - 1], chain[i + 1], pla)
    <3>1. CASE i = 0
      BY <2>5, <3>1
    <3>2. CASE i # 0
      <4>1. PICK j \in Nat : i = j + 1 /\ i - 1 = j /\ j + 1 <= N
        BY <1>5, <3>2
      <4>2. j \in T
        BY <2>9
      <4> HIDE DEF T
      <4>3. f[j + 1] = playMoveAssumeLegal(f[j], chain[(j + 1) + 1], pla)
        BY <2>8, <4>1, <4>2
      <4> QED
        BY <3>2, <4>1, <4>3
    <3> QED
      BY <3>1, <3>2
  <2>11. f = [i \in 0 .. N |-> IF i = 0 THEN c0
                               ELSE playMoveAssumeLegal(f[i - 1], chain[i + 1], pla)]
    BY <2>10
  <2> QED
    BY <2>11
<1>10. Def(again)
  BY <1>9
<1> HIDE DEF again
<1> DEFINE T == {i \in Nat : i <= N => Good(again[i], i)}
<1>11. again[0] = c0
       /\ \A i \in Nat : i + 1 <= N =>
            again[i + 1] = playMoveAssumeLegal(again[i], chain[(i + 1) + 1], pla)
  <2>1. 0 \in 0 .. N
    BY <1>5
  <2>2. \A i \in Nat : i + 1 <= N => i + 1 \in 0 .. N /\ i + 1 # 0 /\ (i + 1) - 1 = i
    BY <1>5
  <2> QED
    BY <1>10, <2>1, <2>2
<1> HIDE DEF Def, Good
<1>12. 0 \in T
  BY <1>7, <1>11
<1>13. ASSUME NEW i \in T PROVE i + 1 \in T
  <2> SUFFICES ASSUME i + 1 <= N PROVE Good(again[i + 1], i + 1)
    OBVIOUS
  <2>1. i \in Nat /\ i < N /\ Good(again[i], i)
    BY <1>5
  <2> QED
    BY <1>8, <1>11, <2>1
<1>14. T = Nat
  <2> HIDE DEF T
  <2>1. T \subseteq Nat
    BY DEF T
  <2> QED
    BY <1>12, <1>13, <2>1, ByInduction
<1>15. Good(again[N], N)
  BY <1>5, <1>14
<1> QED
  BY <1>2, <1>15, <1>63 DEF Good

-----------------------------------------------------------------------------
(* Suicide                                                                 *)

\* What the counted liberties of a neighbour of an empty point say.
LEMMA InAtari ==
  ASSUME NEW b, GoodBoard(b), NEW loc \in Locs(b), b.colors[loc] = C_EMPTY,
         NEW a \in Adj(b, loc), a \in Stones(b), NEW S, S = Chain(b, b.chain_head[a])
  PROVE  /\ getNumLiberties(b, a) = 1 <=> LibsOf(b, S) = {loc}
         /\ getNumLiberties(b, a) <= 1 <=> LibsOf(b, S) = {loc}
<1>1. Typed(b)
  BY DEF GoodBoard, BoardOK
<1>2. a \in S /\ getNumLiberties(b, a) = Cardinality(LibsOf(b, S))
      /\ Cardinality(LibsOf(b, S)) \in Nat
  BY CountsOfChain
<1>3. PICK L : L = LibsOf(b, S)
  OBVIOUS
<1>4. loc \in L /\ L \subseteq Locs(b)
  BY <1>2, <1>3 DEF LibsOf
<1>5. IsFiniteSet(L)
  BY <1>1, <1>4, FiniteParts
<1>6. /\ Cardinality(L \ {loc}) = Cardinality(L) - 1 /\ IsFiniteSet(L \ {loc})
      /\ Cardinality(L \ {loc}) \in Nat
  BY <1>4, <1>5, FS_RemoveElement, FS_CardinalityType
<1>7. Cardinality(L \ {loc}) = 0 <=> L \ {loc} = {}
  BY <1>6, FS_EmptySet
<1>8. PICK i \in Nat, j \in Nat : i = Cardinality(L) /\ j = Cardinality(L \ {loc})
  BY <1>2, <1>3, <1>6
<1>9. j = i - 1 /\ (j = 0 <=> L = {loc})
  BY <1>4, <1>6, <1>7, <1>8
<1>10. getNumLiberties(b, a) = i
  BY <1>2, <1>3, <1>8
<1> QED
  BY <1>3, <1>9, <1>10

\* What a move is asked about suicide before it is made is what it does.
LEMMA SuicideForeseen ==
  ASSUME NEW b, Living(b), NEW loc \in Locs(b), b.colors[loc] = C_EMPTY, NEW pla \in Players,
         NEW c, NEW n, Plays(b, c, n, loc, pla)
  PROVE  /\ isSuicide(b, loc, pla) <=> Suicide(c, loc) # {}
         /\ Suicide(c, loc) = {loc} => \A legal : isIllegalSuicide(b, loc, pla, legal)
<1>1. PICK T, E : T = Taken(b, loc, pla, Adj(b, loc)) /\ E = Chain(c, c.chain_head[loc])
  OBVIOUS
<1>2. /\ GoodBoard(b) /\ GoodBoard(c) /\ Locs(c) = Locs(b) /\ c.x_size = b.x_size
      /\ Typed(b) /\ MaximalBut(b, NULL_LOC, {}) /\ loc # PASS_LOC
  BY DEF Living, PointsOK, Plays, GoodBoard, BoardOK
<1>3. /\ loc \in Stones(c) /\ c.colors[loc] = pla /\ loc \notin T
      /\ \A l \in Locs(b) : l # loc => c.colors[l] = IF l \in T THEN C_EMPTY ELSE b.colors[l]
      /\ \A l \in Stones(c) : l # loc =>
           l \in Stones(b) /\ l \notin T /\ c.colors[l] = b.colors[l]
      /\ \A l : Adj(c, l) = Adj(b, l)
  BY <1>1, ColorsAfter
<1>4. /\ loc \in E /\ E \subseteq Stones(c) /\ ConnectedOn(c, E) /\ \A k \in E : c.colors[k] = pla
      /\ \A k \in E : \A a \in Adj(b, k) : c.colors[a] = pla => a \in E
  BY <1>1, <1>2, <1>3, OfChain
<1>5. pla # C_EMPTY /\ getOpp(pla) # C_EMPTY /\ getOpp(pla) # pla
  BY DEF getOpp, Players, P_BLACK, P_WHITE, C_EMPTY
<1>6. \A a \in Adj(b, loc) : a \in Locs(b) /\ a # loc /\ loc \in Adj(b, a)
  BY <1>2, AdjIsSymmetric DEF Adj
<1>7. \A a \in T : b.colors[a] = getOpp(pla) /\ a \in Stones(b)
  BY <1>1, <1>2, OfTaken
<1>8. \A x \in Locs(b) : \A m \in E : m \in Adj(b, x) /\ c.colors[x] = C_EMPTY => x \in LibsOf(c, E)
  BY <1>2, <1>3 DEF LibsOf
<1>9. ASSUME NEW a \in Adj(b, loc), b.colors[a] = C_EMPTY PROVE LibsOf(c, E) # {}
  <2>1. c.colors[a] = C_EMPTY
    BY <1>3, <1>6, <1>9
  <2> QED
    BY <1>4, <1>6, <1>8, <2>1
<1>10. ASSUME NEW a \in Adj(b, loc), b.colors[a] = getOpp(pla), getNumLiberties(b, a) = 1
       PROVE  LibsOf(c, E) # {}
  <2>1. a \in Stones(b)
    BY <1>5, <1>6, <1>10 DEF Stones
  <2>2. LibsOf(b, Chain(b, b.chain_head[a])) = {loc}
    BY <1>2, <1>10, <2>1, InAtari
  <2>3. a \in T
    BY <1>1, <1>10, <2>1, <2>2 DEF Taken
  <2>4. c.colors[a] = C_EMPTY
    BY <1>3, <1>6, <2>3
  <2> QED
    BY <1>4, <1>6, <1>8, <2>4
<1>11. ASSUME NEW a \in Adj(b, loc), b.colors[a] = pla
       PROVE  a \in E /\ (~(getNumLiberties(b, a) <= 1) => LibsOf(c, E) # {})
  <2>1. a \in Stones(b)
    BY <1>5, <1>6, <1>11 DEF Stones
  <2>2. PICK S : S = Chain(b, b.chain_head[a])
    OBVIOUS
  <2>3. /\ a \in S /\ S \subseteq Stones(b) /\ S \subseteq Locs(b) /\ ConnectedOn(b, S)
        /\ \A k \in S : b.colors[k] = pla
    BY <1>2, <1>11, <2>1, <2>2, OfChain
  <2>4. \A k \in S : c.colors[k] = pla
    <3>1. \A k \in S : k # loc /\ k \notin T
      BY <1>5, <1>7, <2>3
    <3> QED
      BY <1>3, <2>3, <3>1
  <2>5. a \in E /\ a \in Stones(c)
    BY <1>4, <1>5, <2>3, <2>4
  <2>6. S \subseteq E
    <3>1. ConnectedOn(c, S)
      BY <1>2, <2>3, SameConnected
    <3>2. S \subseteq Chain(c, c.chain_head[a])
      BY <1>2, <2>3, <2>4, <2>5, <3>1, ConnectedInChain
    <3> QED
      BY <1>1, <2>5, <3>2 DEF Chain
  <2>7. ASSUME ~(getNumLiberties(b, a) <= 1) PROVE LibsOf(c, E) # {}
    <3>1. LibsOf(b, S) # {loc}
      BY <1>2, <2>1, <2>2, <2>7, InAtari
    <3>2. LibsOf(b, S) # {}
      BY <2>1, <2>2 DEF Living
    <3>3. PICK x : x \in LibsOf(b, S) /\ x # loc
      BY <3>1, <3>2
    <3>4. PICK m \in S : m \in Adj(b, x)
      BY <3>3 DEF LibsOf
    <3>5. x \in Locs(b) /\ b.colors[x] = C_EMPTY
      BY <3>3 DEF LibsOf
    <3>6. c.colors[x] = C_EMPTY
      BY <1>3, <3>3, <3>5
    <3> QED
      BY <1>8, <2>6, <3>4, <3>5, <3>6
  <2> QED
    BY <2>5, <2>7
<1>12. ASSUME LibsOf(c, E) = {} PROVE isSuicide(b, loc, pla)
  BY <1>2, <1>9, <1>10, <1>11, <1>12 DEF isSuicide, AdjOf
<1>13. ASSUME isSuicide(b, loc, pla), NEW x \in LibsOf(c, E) PROVE FALSE
  <2>1. /\ \A a \in Adj(b, loc) : b.colors[a] # C_EMPTY
        /\ \A a \in Adj(b, loc) : b.colors[a] = pla => getNumLiberties(b, a) <= 1
        /\ \A a \in Adj(b, loc) : b.colors[a] = getOpp(pla) => getNumLiberties(b, a) # 1
    BY <1>13 DEF isSuicide, AdjOf
  <2>2. \A m : m \notin T
    <3> SUFFICES ASSUME NEW m \in T PROVE FALSE
      OBVIOUS
    <3>1. m \in Stones(b) /\ LibsOf(b, Chain(b, b.chain_head[m])) = {loc}
      BY <1>1 DEF Taken
    <3>2. PICK a \in Adj(b, loc) : b.colors[a] = getOpp(pla) /\ b.chain_head[a] = b.chain_head[m]
      BY <1>1 DEF Taken
    <3>3. a \in Stones(b) /\ LibsOf(b, Chain(b, b.chain_head[a])) = {loc}
      BY <1>5, <1>6, <3>1, <3>2 DEF Stones
    <3>4. getNumLiberties(b, a) = 1
      BY <1>2, <3>3, InAtari
    <3> QED
      BY <2>1, <3>2, <3>4
  <2> DEFINE near(y) == /\ y \in Stones(b) /\ b.colors[y] = pla
                        /\ \E a \in Adj(b, loc) : b.colors[a] = pla /\ b.chain_head[a] = b.chain_head[y]
             U == {y \in E : y = loc \/ near(y)}
  <2>3. ASSUME NEW l \in U, NEW k \in E, k \in Adj(c, l) PROVE k \in U
    <3>1. CASE k = loc
      BY <3>1
    <3>2. CASE k # loc
      <4>1. k \in Stones(b) /\ b.colors[k] = pla /\ k \in Adj(b, l)
        BY <1>3, <1>4, <2>3, <3>2
      <4>2. CASE l = loc
        BY <4>1, <4>2
      <4>3. CASE l # loc
        <5>1. near(l)
          BY <4>3
        <5>2. b.chain_head[k] = b.chain_head[l]
          BY <1>2, <4>1, <5>1 DEF MaximalBut
        <5> QED
          BY <4>1, <5>1, <5>2
      <4> QED
        BY <4>2, <4>3
    <3> QED
      BY <3>1, <3>2
  <2>4. U = E
    <3>1. U \in SUBSET E /\ U # {}
      BY <1>4
    <3> HIDE DEF U
    <3> QED
      BY <1>4, <2>3, <3>1 DEF ConnectedOn
  <2>5. x \in Locs(b) /\ c.colors[x] = C_EMPTY
    BY <1>2 DEF LibsOf
  <2>6. PICK m \in E : m \in Adj(b, x)
    BY <1>3 DEF LibsOf
  <2>7. x # loc /\ b.colors[x] = C_EMPTY
    BY <1>3, <1>5, <2>2, <2>5
  <2>8. CASE m = loc
    <3>1. x \in Adj(b, loc)
      BY <1>2, <2>5, <2>6, <2>8, AdjIsSymmetric
    <3> QED
      BY <2>1, <2>7, <3>1
  <2>9. CASE m # loc
    <3>1. near(m)
      BY <2>4, <2>9
    <3>2. PICK a \in Adj(b, loc) : b.colors[a] = pla /\ b.chain_head[a] = b.chain_head[m]
      BY <3>1
    <3>3. a \in Stones(b) /\ m \in Chain(b, b.chain_head[a])
      BY <1>5, <1>6, <3>1, <3>2 DEF Stones, Chain
    <3>4. x \in LibsOf(b, Chain(b, b.chain_head[a]))
      BY <2>5, <2>6, <2>7, <3>3 DEF LibsOf
    <3>5. getNumLiberties(b, a) <= 1
      BY <2>1, <3>2
    <3>6. LibsOf(b, Chain(b, b.chain_head[a])) = {loc}
      BY <1>2, <3>3, <3>5, InAtari
    <3> QED
      BY <2>7, <3>4, <3>6
  <2> QED
    BY <2>8, <2>9
<1>14. isSuicide(b, loc, pla) <=> LibsOf(c, E) = {}
  BY <1>12, <1>13
<1>15. Suicide(c, loc) = IF LibsOf(c, E) = {} THEN E ELSE {}
  BY <1>1 DEF Suicide
<1>16. isSuicide(b, loc, pla) <=> Suicide(c, loc) # {}
  BY <1>4, <1>14, <1>15
<1>17. ASSUME Suicide(c, loc) = {loc}, NEW legal
       PROVE  isIllegalSuicide(b, loc, pla, legal)
  <2>1. LibsOf(c, E) = {} /\ E = {loc}
    BY <1>15, <1>17
  <2>2. \A a \in Adj(b, loc) : b.colors[a] # pla
    BY <1>6, <1>11, <2>1
  <2> QED
    BY <1>9, <1>10, <2>1, <2>2 DEF isIllegalSuicide, AdjOf
<1> QED
  BY <1>16, <1>17

-----------------------------------------------------------------------------
(* Edits                                                                   *)

LEMMA LivesWithoutKo ==
  ASSUME NEW b, Living(b), NEW n, n = clearSimpleKoLoc(b)
  PROVE  /\ Living(n) /\ Locs(n) = Locs(b) /\ n.x_size = b.x_size /\ n.ko_loc = NULL_LOC
         /\ n.colors = b.colors /\ n.captures = b.captures
<1>1. /\ GoodBoard(n) /\ n.colors = b.colors /\ n.x_size = b.x_size /\ n.captures = b.captures
      /\ n.ko_loc = NULL_LOC /\ n.chain_head = b.chain_head
  BY KoIsCleared DEF Living
<1>2. Locs(n) = Locs(b) /\ Stones(n) = Stones(b) /\ \A h : Chain(n, h) = Chain(b, h)
  BY <1>1, SameChains
<1>3. \A l : Adj(n, l) = Adj(b, l)
  BY <1>1, <1>2, SameAdj
<1>4. \A S : LibsOf(n, S) = LibsOf(b, S)
  BY <1>1, <1>2, <1>3 DEF LibsOf
<1>5. Living(n)
  BY <1>1, <1>2, <1>4 DEF Living, PointsOK
<1> QED
  BY <1>1, <1>2, <1>5

\* The stones and captures after an edit.
SameAs(n, m) == n.colors = m.colors /\ n.captures = m.captures

Edits(b, n, loc, color) ==
  IF b.colors[loc] = color THEN SameAs(n, b)
  ELSE \E base : /\ Bare(base, b, {loc})
                 /\ IF color = C_EMPTY THEN SameAs(n, base)
                    ELSE \E c, m : /\ Plays(base, c, m, loc, color)
                                   /\ IF b.colors[loc] = C_EMPTY \/ Suicide(c, loc) = {}
                                      THEN SameAs(n, m) ELSE SameAs(n, base)

LEMMA SetStoneIsExact ==
  ASSUME NEW b, Living(b), NEW loc \in Locs(b), NEW color \in 0 .. 2,
         NEW n, n = setStone(b, loc, color)
  PROVE  /\ Living(n) /\ Locs(n) = Locs(b) /\ n.x_size = b.x_size /\ n.ko_loc = NULL_LOC
         /\ Edits(b, n, loc, color)
<1>1. color # C_EMPTY => color \in Players
  BY DEF Players, P_BLACK, P_WHITE, C_EMPTY
<1>2. loc # PASS_LOC /\ GoodBoard(b)
  BY DEF Living, PointsOK
<1>3. CASE b.colors[loc] = color
  <2>1. n = clearSimpleKoLoc(b)
    BY <1>3 DEF setStone
  <2>2. /\ Living(n) /\ Locs(n) = Locs(b) /\ n.x_size = b.x_size /\ n.ko_loc = NULL_LOC
        /\ n.colors = b.colors /\ n.captures = b.captures
    BY <2>1, LivesWithoutKo
  <2> QED
    BY <1>3, <2>2 DEF Edits, SameAs
<1>4. ASSUME b.colors[loc] # color, NEW base, Bare(base, b, {loc}), NEW m,
             n = clearSimpleKoLoc(m),
             \/ color = C_EMPTY /\ m = base
             \/ /\ color # C_EMPTY
                /\ \E c, d : /\ Plays(base, c, d, loc, color)
                             /\ m = IF b.colors[loc] = C_EMPTY \/ Suicide(c, loc) = {} THEN d
                                    ELSE base
      PROVE  /\ Living(n) /\ Locs(n) = Locs(b) /\ n.x_size = b.x_size /\ n.ko_loc = NULL_LOC
             /\ Edits(b, n, loc, color)
  <2>1. Living(base) /\ Locs(base) = Locs(b) /\ base.x_size = b.x_size
        /\ base.colors[loc] = C_EMPTY /\ loc \in Locs(base)
    BY <1>4 DEF Bare
  <2>2. Living(m) /\ Locs(m) = Locs(b) /\ m.x_size = b.x_size
    <3>1. CASE m = base
      BY <2>1, <3>1
    <3>2. CASE m # base
      <4>1. PICK c : Plays(base, c, m, loc, color) /\ color # C_EMPTY
        BY <1>4, <3>2
      <4>2. Living(m) /\ Locs(m) = Locs(base) /\ m.x_size = base.x_size
        BY <1>1, <2>1, <4>1, PlayLives
      <4> QED
        BY <2>1, <4>2
    <3> QED
      BY <3>1, <3>2
  <2>3. /\ Living(n) /\ Locs(n) = Locs(m) /\ n.x_size = m.x_size /\ n.ko_loc = NULL_LOC
        /\ n.colors = m.colors /\ n.captures = m.captures
    BY <1>4, <2>2, LivesWithoutKo
  <2>4. SameAs(n, m)
    BY <2>3 DEF SameAs
  <2>5. Edits(b, n, loc, color)
    <3>1. CASE color = C_EMPTY
      BY <1>4, <2>4, <3>1 DEF Edits
    <3>2. CASE color # C_EMPTY
      <4>1. PICK c, d : /\ Plays(base, c, d, loc, color)
                        /\ m = IF b.colors[loc] = C_EMPTY \/ Suicide(c, loc) = {} THEN d
                               ELSE base
        BY <1>4, <3>2
      <4>2. IF b.colors[loc] = C_EMPTY \/ Suicide(c, loc) = {}
            THEN SameAs(n, d) ELSE SameAs(n, base)
        BY <2>4, <4>1
      <4> QED
        BY <1>4, <3>2, <4>1, <4>2 DEF Edits
    <3> QED
      BY <3>1, <3>2
  <2> QED
    BY <2>2, <2>3, <2>5
<1>5. CASE b.colors[loc] # color /\ b.colors[loc] = C_EMPTY
  <2>1. PICK m : m = playMoveAssumeLegal(b, loc, color)
    OBVIOUS
  <2>2. n = clearSimpleKoLoc(m)
    BY <1>5, <2>1 DEF setStone
  <2>3. Bare(b, b, {loc})
    <3>1. b.colors \in [Locs(b) -> 0 .. 2]
      BY DEF Living, GoodBoard, BoardOK, Typed, Boards
    <3>2. \A l \in Locs(b) : (IF l \in {loc} THEN C_EMPTY ELSE b.colors[l]) = b.colors[l]
      BY <1>5
    <3>3. [l \in Locs(b) |-> IF l \in {loc} THEN C_EMPTY ELSE b.colors[l]] = b.colors
      BY <3>1, <3>2
    <3> QED
      BY <3>3 DEF Bare
  <2>4. color # C_EMPTY /\ \E c : Plays(b, c, m, loc, color)
    BY <1>1, <1>2, <1>5, <2>1, PlayIsExact
  <2> QED
    BY <1>4, <1>5, <2>2, <2>3, <2>4
<1>6. CASE b.colors[loc] # color /\ b.colors[loc] # C_EMPTY
  <2>1. PICK base, m : base = removeSingleStone(b, loc) /\ m = replace(base, loc, color)
    OBVIOUS
  <2>2. n = clearSimpleKoLoc(m)
    BY <1>6, <2>1 DEF setStone
  <2>3. Bare(base, b, {loc})
    BY <1>6, <2>1, SingleStoneIsRemoved DEF Stones
  <2>4. CASE color = C_EMPTY
    <3>1. m = base
      BY <2>1, <2>4 DEF replace
    <3> QED
      BY <1>4, <1>6, <2>2, <2>3, <2>4, <3>1
  <2>5. CASE color # C_EMPTY
    <3>1. /\ Living(base) /\ GoodBoard(base) /\ loc \in Locs(base) /\ base.colors[loc] = C_EMPTY
          /\ color \in Players
      BY <1>1, <2>3, <2>5 DEF Bare, Living
    <3>2. PICK d : d = playMoveAssumeLegal(base, loc, color)
      OBVIOUS
    <3>3. PICK c : Plays(base, c, d, loc, color)
      BY <1>2, <3>1, <3>2, PlayIsExact
    <3>4. isSuicide(base, loc, color) <=> Suicide(c, loc) # {}
      BY <3>1, <3>3, SuicideForeseen
    <3>5. m = IF b.colors[loc] = C_EMPTY \/ Suicide(c, loc) = {} THEN d ELSE base
      BY <1>6, <2>1, <2>5, <3>2, <3>4 DEF replace
    <3> QED
      BY <1>4, <1>6, <2>2, <2>3, <2>5, <3>3, <3>5
  <2> QED
    BY <2>4, <2>5
<1> QED
  BY <1>3, <1>5, <1>6

LEMMA SetStonesIsOK ==
  ASSUME NEW b, Living(b), b.ko_loc = NULL_LOC, NEW stones, NEW N \in Nat, Len(stones) = N,
         \A i \in 1 .. N : stones[i][1] \in Locs(b) /\ stones[i][2] \in 0 .. 2
  PROVE  /\ Living(setStones(b, stones)) /\ Locs(setStones(b, stones)) = Locs(b)
         /\ setStones(b, stones).ko_loc = NULL_LOC
<1> DEFINE Good(c) == Living(c) /\ Locs(c) = Locs(b) /\ c.ko_loc = NULL_LOC
           Def(f) == f = [n \in 0 .. N |-> IF n = 0 THEN b
                            ELSE setStone(f[n - 1], stones[n][1], stones[n][2])]
           after == CHOOSE f : Def(f)
<1>1. setStones(b, stones) = after[N]
  BY DEF setStones
<1>2. ASSUME NEW c, Good(c), NEW i \in 1 .. N PROVE Good(setStone(c, stones[i][1], stones[i][2]))
  <2>1. PICK n, loc, color : /\ n = setStone(c, loc, color)
                             /\ loc = stones[i][1] /\ color = stones[i][2]
    OBVIOUS
  <2>2. Living(c) /\ loc \in Locs(c) /\ color \in 0 .. 2
    BY <1>2, <2>1
  <2>3. /\ Living(n) /\ Locs(n) = Locs(c) /\ n.x_size = c.x_size /\ n.ko_loc = NULL_LOC
        /\ Edits(c, n, loc, color)
    <3>1. n = setStone(c, loc, color)
      BY <2>1
    <3> QED
      BY <2>2, <3>1, SetStoneIsExact
  <2> QED
    BY <1>2, <2>1, <2>3
<1>3. \E f : Def(f)
  <2> DEFINE S == {c \in UNION {Boards(w, Locs(b)) : w \in Nat} : Good(c)}
             F == [p \in Nat \X S |->
                     IF p[1] \in 1 .. N THEN setStone(p[2], stones[p[1]][1], stones[p[1]][2])
                     ELSE p[2]]
  <2>1. \A c : Good(c) <=> c \in S
    BY DEF Living, GoodBoard, BoardOK, Typed
  <2> HIDE DEF S
  <2>2. F \in [Nat \X S -> S] /\ b \in S
    <3> HIDE DEF Good
    <3>1. \A p \in Nat \X S : p[1] \in 1 .. N => setStone(p[2], stones[p[1]][1], stones[p[1]][2]) \in S
      BY <1>2, <2>1
    <3>2. Good(b)
      BY DEF Good
    <3> QED
      BY <2>1, <3>1, <3>2
  <2> HIDE DEF F, Good
  <2>3. PICK f \in [0 .. N -> S] : Approximates(f, F, b, N)
    BY <2>2, ApproximationsExist
  <2>4. ASSUME NEW n \in 0 .. N
        PROVE  f[n] = IF n = 0 THEN b ELSE setStone(f[n - 1], stones[n][1], stones[n][2])
    <3>1. CASE n = 0
      BY <2>3, <3>1 DEF Approximates
    <3>2. CASE n # 0
      <4>1. PICK j \in 0 .. N - 1 : n = j + 1 /\ n - 1 = j /\ j \in 0 .. N /\ n \in 1 .. N
        BY <3>2
      <4>2. <<n, f[j]>> \in Nat \X S
        BY <2>3, <4>1
      <4>3. f[j + 1] = F[<<j + 1, f[j]>>]
        BY <2>3, <4>1 DEF Approximates
      <4>4. F[<<n, f[j]>>] = setStone(f[j], stones[n][1], stones[n][2])
        BY <4>1, <4>2 DEF F
      <4> QED
        BY <3>2, <4>1, <4>3, <4>4
    <3> QED
      BY <3>1, <3>2
  <2>5. Def(f)
    BY <2>3, <2>4
  <2> QED
    BY <2>5
<1>4. Def(after)
  BY <1>3
<1> HIDE DEF after
<1> DEFINE T == {i \in Nat : i <= N => Good(after[i])}
<1>5. 0 \in T
  <2>1. 0 \in 0 .. N
    OBVIOUS
  <2> QED
    BY <1>4, <2>1
<1>6. ASSUME NEW i \in T PROVE i + 1 \in T
  <2> SUFFICES ASSUME i + 1 <= N PROVE Good(after[i + 1])
    OBVIOUS
  <2>1. i + 1 \in 0 .. N /\ i + 1 # 0 /\ (i + 1) - 1 = i /\ i + 1 \in 1 .. N /\ i <= N
    OBVIOUS
  <2>2. after[i + 1] = setStone(after[i], stones[i + 1][1], stones[i + 1][2])
    BY <1>4, <2>1
  <2> HIDE DEF Good
  <2> QED
    BY <1>2, <2>1, <2>2
<1>7. T = Nat
  <2> HIDE DEF T
  <2>1. T \subseteq Nat
    BY DEF T
  <2> QED
    BY <1>5, <1>6, <2>1, ByInduction
<1> QED
  BY <1>1, <1>7

LEMMA PointsOfEmptyBoard ==
  ASSUME NEW xS \in Nat \ {0}, NEW yS \in Nat \ {0}
  PROVE  PointsOK(EmptyBoard(xS, yS))
<1>1. ASSUME NEW x \in 0 .. xS - 1, NEW y \in 0 .. yS - 1 PROVE getLoc(x, y, xS) > 1
  <2>1. PICK p \in Nat, q \in Nat : p = y /\ q = xS + 1 /\ q > 1
    OBVIOUS
  <2>2. p * q \in Nat /\ (p + 1) * q = p * q + q
    OBVIOUS
  <2>3. getLoc(x, y, xS) = (x + 1) + (p + 1) * q
    BY <2>1 DEF getLoc
  <2> QED
    BY <2>1, <2>2, <2>3
<1>2. Locs(EmptyBoard(xS, yS)) = {getLoc(x, y, xS) : x \in 0 .. xS - 1, y \in 0 .. yS - 1}
  BY DEF Locs, EmptyBoard
<1>3. \A l \in Locs(EmptyBoard(xS, yS)) : l > 1
  BY <1>1, <1>2
<1> QED
  BY <1>3 DEF PointsOK, NULL_LOC, PASS_LOC

LEMMA EmptyBoardIsOK ==
  ASSUME NEW xS \in Nat \ {0}, NEW yS \in Nat \ {0}
  PROVE  Living(EmptyBoard(xS, yS)) /\ EmptyBoard(xS, yS).ko_loc = NULL_LOC
<1> DEFINE locs == {getLoc(x, y, xS) : x \in 0 .. xS - 1, y \in 0 .. yS - 1}
           b == EmptyBoard(xS, yS)
<1>1. IsFiniteSet(locs)
  <2> DEFINE P == (0 .. xS - 1) \X (0 .. yS - 1)
             f == [p \in P |-> getLoc(p[1], p[2], xS)]
  <2>1. IsFiniteSet(0 .. xS - 1) /\ IsFiniteSet(0 .. yS - 1)
    BY FS_Interval
  <2>2. IsFiniteSet(P)
    BY <2>1, FS_Product
  <2>3. f \in Surjection(P, locs)
    <3>1. \A l \in locs : \E p \in P : f[p] = l
      <4> SUFFICES ASSUME NEW x \in 0 .. xS - 1, NEW y \in 0 .. yS - 1
                   PROVE  \E p \in P : f[p] = getLoc(x, y, xS)
        OBVIOUS
      <4>1. <<x, y>> \in P /\ f[<<x, y>>] = getLoc(x, y, xS)
        OBVIOUS
      <4> QED
        BY <4>1
    <3>2. f \in [P -> locs]
      OBVIOUS
    <3> QED
      BY <3>1, <3>2 DEF Surjection
  <2> HIDE DEF P, f, locs
  <2> QED
    BY <2>2, <2>3, FS_Surjection
<1>2. locs \subseteq Int
  BY DEF getLoc
<1> HIDE DEF locs
<1>3. b = [x_size        |-> xS,
           y_size        |-> yS,
           colors        |-> [l \in locs |-> C_EMPTY],
           chain_data    |-> [l \in locs |-> NoChain],
           chain_head    |-> [l \in locs |-> NULL_LOC],
           next_in_chain |-> [l \in locs |-> NULL_LOC],
           ko_loc        |-> NULL_LOC,
           pos_hash      |-> {},
           captures      |-> [p \in Players |-> 0]]
  BY DEF EmptyBoard, locs
<1> HIDE DEF b
<1>4. /\ b.x_size = xS /\ b.colors = [l \in locs |-> C_EMPTY] /\ b.pos_hash = {}
      /\ b.ko_loc = NULL_LOC
  BY <1>3
<1>5. Locs(b) = locs
  BY <1>4 DEF Locs
<1>6. b \in Boards(xS, locs)
  <2>1. NoChain \in ChainData /\ NULL_LOC \in Int /\ C_EMPTY \in 0 .. 2
    BY DEF NoChain, ChainData, NULL_LOC, C_EMPTY
  <2> QED
    BY <1>3, <2>1 DEF Boards
<1>7. Stones(b) = {}
  BY <1>4, <1>5 DEF Stones
<1>8. Typed(b)
  BY <1>1, <1>2, <1>4, <1>5, <1>6 DEF Typed
<1>9. \A h : ~IsHead(b, h)
  BY <1>7 DEF IsHead
<1>10. HeadsOK(b) /\ ListsOK(b) /\ ConnectedOK(b) /\ CountsOK(b, {}) /\ MaximalBut(b, NULL_LOC, {})
  BY <1>7, <1>9 DEF HeadsOK, ListsOK, ConnectedOK, CountsOK, MaximalBut
<1>11. HashOK(b)
  BY <1>4, <1>7 DEF HashOK
<1>12. GoodBoard(b)
  BY <1>8, <1>10, <1>11 DEF GoodBoard, BoardOK
<1>13. PointsOK(b)
  BY PointsOfEmptyBoard DEF b
<1>14. Living(b)
  BY <1>7, <1>12, <1>13 DEF Living
<1> QED
  BY <1>4, <1>14 DEF b

-----------------------------------------------------------------------------
(* Groups and chains                                                       *)

\* The points of a colour that hold together and have no neighbour of the colour are
\* what GoRules calls a group.
LEMMA GroupIs ==
  ASSUME NEW b, Typed(b), b.x_size = board.x_size, Locs(b) = Locs(board),
         NEW s, DOMAIN s = Locs(b), NEW C \in SUBSET Locs(b), ConnectedOn(b, C), NEW l \in C,
         \A m \in C : s[m] = s[l], \A k \in C : \A m \in Adj(b, k) : s[m] = s[k] => m \in C
  PROVE  R!Group(s, l) = C
<1> DEFINE D == DOMAIN s
           more(S) == {m \in (UNION {R!Neighbours(k) : k \in S}) \ S : \E k \in S : s[k] = s[m]}
           Def(f) == f = [S \in SUBSET D |-> IF more(S) = {} THEN S ELSE f[S \cup more(S)]]
           grown == CHOOSE f : Def(f)
<1>1. R!Group(s, l) = grown[{l}]
  BY DEF R!Group
<1>20. ASSUME NEW S
       PROVE  \A m : m \in more(S) <=> /\ \E k \in S : m \in R!Neighbours(k)
                                       /\ m \notin S /\ \E k \in S : s[k] = s[m]
  <2> DEFINE near == UNION {R!Neighbours(k) : k \in S}
  <2>1. \A m : m \in near <=> \E k \in S : m \in R!Neighbours(k)
    OBVIOUS
  <2>2. more(S) = {m \in near \ S : \E k \in S : s[k] = s[m]}
    OBVIOUS
  <2> HIDE DEF near, more
  <2> QED
    BY <2>1, <2>2
<1> HIDE DEF more
<1>2. \A k : R!Neighbours(k) = Adj(b, k) /\ R!Neighbours(k) \subseteq D
  BY DEF R!Neighbours, Adj, Locs
<1>4. C \subseteq D /\ IsFiniteSet(D)
  BY DEF Typed
<1> HIDE DEF D
<1>7. ASSUME NEW S \in SUBSET C PROVE more(S) \subseteq C
  <2> SUFFICES ASSUME NEW m \in more(S) PROVE m \in C
    OBVIOUS
  <2>1. PICK k \in S : m \in Adj(b, k)
    BY <1>2, <1>20
  <2>2. PICK j \in S : s[j] = s[m]
    BY <1>20
  <2>3. s[m] = s[k]
    BY <2>2
  <2> QED
    BY <2>1, <2>3
<1>8. ASSUME NEW S \in SUBSET C, l \in S, more(S) = {} PROVE S = C
  <2> SUFFICES ASSUME NEW k \in S, NEW m \in C, m \in Adj(b, k) PROVE m \in S
    BY <1>8 DEF ConnectedOn
  <2>1. s[k] = s[m]
    OBVIOUS
  <2> QED
    BY <1>2, <1>8, <1>20, <2>1
<1>9. \E f : Def(f)
  <2> DEFINE Closed(S) == {T \in SUBSET D : S \subseteq T /\ more(T) = {}}
             f == [S \in SUBSET D |-> {x \in D : \A T \in Closed(S) : x \in T}]
  <2>1. ASSUME NEW S \in SUBSET D PROVE S \cup more(S) \in SUBSET D
    BY <1>2, <1>20
  <2>2. ASSUME NEW S \in SUBSET D, NEW T \in Closed(S) PROVE more(S) \subseteq T
    <3>1. S \subseteq T /\ more(T) = {}
      OBVIOUS
    <3> SUFFICES ASSUME NEW m \in more(S), m \notin T PROVE m \in more(T)
      BY <3>1
    <3>2. \E k \in S : m \in R!Neighbours(k)
      BY <1>20
    <3>3. \E k \in S : s[k] = s[m]
      BY <1>20
    <3> QED
      BY <1>20, <3>1, <3>2, <3>3
  <2>3. ASSUME NEW S \in SUBSET D PROVE Closed(S) = Closed(S \cup more(S))
    <3> HIDE DEF more
    <3> QED
      BY <2>2
  <2>4. ASSUME NEW S \in SUBSET D PROVE f[S] = IF more(S) = {} THEN S ELSE f[S \cup more(S)]
    <3>1. CASE more(S) = {}
      <4>1. S \in Closed(S)
        BY <3>1
      <4> QED
        BY <3>1, <4>1
    <3>2. CASE more(S) # {}
      <4> HIDE DEF more, Closed
      <4> QED
        BY <2>1, <2>3, <3>2
    <3> QED
      BY <3>1, <3>2
  <2>5. Def(f)
    <3> HIDE DEF more, Closed
    <3> QED
      BY <2>4
  <2> QED
    BY <2>5
<1>10. Def(grown)
  BY <1>9
<1> HIDE DEF grown, more
<1>11. \A S \in SUBSET C : grown[S] = IF more(S) = {} THEN S ELSE grown[S \cup more(S)]
  BY <1>4, <1>10
<1> HIDE DEF Def
<1>12. IsFiniteSet(C)
  BY <1>4, FS_Subset
<1> DEFINE T == {n \in Nat : \A S \in SUBSET C : l \in S /\ Cardinality(C \ S) <= n => grown[S] = C}
<1>13. \A S \in SUBSET C : IsFiniteSet(C \ S) /\ Cardinality(C \ S) \in Nat
  <2>1. \A S \in SUBSET C : IsFiniteSet(C \ S)
    BY <1>12, FS_Subset
  <2> QED
    BY <2>1, FS_CardinalityType
<1>14. 0 \in T
  <2> SUFFICES ASSUME NEW S \in SUBSET C, l \in S, Cardinality(C \ S) <= 0 PROVE grown[S] = C
    OBVIOUS
  <2>1. Cardinality(C \ S) = 0
    BY <1>13
  <2>2. C \ S = {}
    BY <1>13, <2>1, FS_EmptySet
  <2>3. S = C
    BY <2>2
  <2>4. more(C) = {}
    <3>1. more(C) \subseteq C
      BY <1>7
    <3>2. \A m \in more(C) : m \notin C
      BY <1>20
    <3> QED
      BY <3>1, <3>2
  <2> QED
    BY <1>11, <2>3, <2>4
<1>15. ASSUME NEW n \in T PROVE n + 1 \in T
  <2> SUFFICES ASSUME NEW S \in SUBSET C, l \in S, Cardinality(C \ S) <= n + 1 PROVE grown[S] = C
    OBVIOUS
  <2>1. CASE more(S) = {}
    BY <1>8, <1>11, <2>1
  <2>2. CASE more(S) # {}
    <3>1. PICK U : U = S \cup more(S)
      OBVIOUS
    <3>2. U \in SUBSET C /\ l \in U
      BY <1>7, <3>1
    <3>3. PICK m : m \in more(S) /\ m \notin S
      <4>1. \A m \in more(S) : m \notin S
        BY <1>20
      <4> QED
        BY <2>2, <4>1
    <3>4. C \ U \subseteq C \ S /\ C \ U # C \ S
      BY <1>7, <3>1, <3>3
    <3>5. Cardinality(C \ U) < Cardinality(C \ S)
      <4>1. IsFiniteSet(C \ S)
        BY <1>13
      <4>2. Cardinality(C \ U) <= Cardinality(C \ S) /\ Cardinality(C \ U) # Cardinality(C \ S)
        BY <3>4, <4>1, FS_Subset
      <4>3. Cardinality(C \ U) \in Nat /\ Cardinality(C \ S) \in Nat
        BY <1>13, <3>2
      <4>4. PICK i, j : i = Cardinality(C \ U) /\ j = Cardinality(C \ S) /\ i \in Nat /\ j \in Nat
        BY <4>3
      <4> QED
        BY <4>2, <4>4
    <3>6. Cardinality(C \ U) <= n
      <4>1. PICK i, j : i = Cardinality(C \ U) /\ j = Cardinality(C \ S) /\ i \in Nat /\ j \in Nat
        BY <1>13, <3>2
      <4> QED
        BY <3>5, <4>1
    <3>7. grown[U] = C
      BY <3>2, <3>6
    <3> QED
      BY <1>11, <2>2, <3>1, <3>7
  <2> QED
    BY <2>1, <2>2
<1>16. T = Nat
  <2> HIDE DEF T
  <2>1. T \subseteq Nat
    BY DEF T
  <2> QED
    BY <1>14, <1>15, <2>1, ByInduction
<1>17. {l} \in SUBSET C /\ Cardinality(C \ {l}) \in Nat
  BY <1>4, <1>13
<1>18. grown[{l}] = C
  <2>1. PICK S : S = {l}
    OBVIOUS
  <2>2. S \in SUBSET C /\ l \in S /\ Cardinality(C \ S) \in Nat
    BY <1>17, <2>1
  <2>3. PICK n \in Nat : n = Cardinality(C \ S) /\ Cardinality(C \ S) <= n
    BY <2>2
  <2>5. n \in T
    BY <1>16
  <2>4. grown[S] = C
    BY <2>2, <2>3, <2>5
  <2> QED
    BY <2>1, <2>4
<1> QED
  BY <1>1, <1>18

\* The groups of a good board are its chains.
LEMMA GroupIsChain ==
  ASSUME NEW b, GoodBoard(b), b.x_size = board.x_size, Locs(b) = Locs(board),
         NEW l \in Stones(b), NEW C, C = Chain(b, b.chain_head[l])
  PROVE  R!Group(b.colors, l) = C
<1>1. Typed(b) /\ DOMAIN b.colors = Locs(b)
  BY DEF GoodBoard, BoardOK, Locs
<1>2. /\ l \in C /\ C \in SUBSET Locs(b) /\ ConnectedOn(b, C)
      /\ \A k \in C : b.colors[k] = b.colors[l]
      /\ \A k \in C : \A m \in Adj(b, k) : b.colors[m] = b.colors[k] => m \in C
  BY OfChain
<1>3. PICK s : s = b.colors
  OBVIOUS
<1>4. R!Group(s, l) = C
  BY <1>1, <1>2, <1>3, GroupIs
<1> QED
  BY <1>3, <1>4

\* The liberties that GoRules counts.
LEMMA LibertiesAre ==
  ASSUME NEW b, Typed(b), b.x_size = board.x_size, Locs(b) = Locs(board),
         NEW s, NEW C \in SUBSET Locs(b), NEW l, R!Group(s, l) = C
  PROVE  R!Liberties(s, l) = {a \in Locs(b) : s[a] = C_EMPTY /\ \E m \in Adj(b, a) : m \in C}
<1>1. \A k : R!Neighbours(k) = Adj(b, k)
  BY DEF R!Neighbours, Adj, Locs
<1>2. R!Liberties(s, l) = {m \in UNION {Adj(b, k) : k \in C} : s[m] = C_EMPTY}
  BY <1>1 DEF R!Liberties, C_EMPTY
<1>3. \A k \in C : \A m \in Adj(b, k) : m \in Locs(b) /\ k \in Adj(b, m)
  BY AdjIsSymmetric
<1>4. \A m \in Locs(b) : \A k \in C : k \in Adj(b, m) => m \in Adj(b, k)
  BY AdjIsSymmetric
<1> QED
  BY <1>2, <1>3, <1>4

LEMMA LibertiesOfChain ==
  ASSUME NEW b, GoodBoard(b), b.x_size = board.x_size, Locs(b) = Locs(board),
         NEW l \in Stones(b), NEW C, C = Chain(b, b.chain_head[l])
  PROVE  R!Liberties(b.colors, l) = LibsOf(b, C)
<1>1. Typed(b) /\ C \in SUBSET Locs(b)
  BY OfChain DEF GoodBoard, BoardOK
<1>2. PICK s : s = b.colors
  OBVIOUS
<1>3. R!Group(s, l) = C
  BY <1>2, GroupIsChain
<1>4. R!Liberties(s, l) = {a \in Locs(b) : s[a] = C_EMPTY /\ \E m \in Adj(b, a) : m \in C}
  BY <1>1, <1>3, LibertiesAre
<1> QED
  BY <1>2, <1>4 DEF LibsOf

LEMMA GoodChainsAreGroups == GoodBoard(board) => ChainsAreGroups
<1> SUFFICES ASSUME GoodBoard(board) PROVE ChainsAreGroups
  OBVIOUS
<1>1. Typed(board) /\ HeadsOK(board) /\ ListsOK(board) /\ CountsOK(board, {}) /\ HashOK(board)
  BY DEF GoodBoard, BoardOK
<1>2. Stones(board) = {m \in Locs(board) : board.colors[m] # C_EMPTY}
  BY DEF Stones
<1>3. board.pos_hash =
        {<<l, board.colors[l]>> : l \in {m \in Locs(board) : board.colors[m] # C_EMPTY}}
  BY <1>1, <1>2 DEF HashOK
<1>4. ASSUME NEW l \in Stones(board)
      PROVE  LET chain == ChainOf(board, l)
                 group == R!Group(board.colors, l)
                 head  == board.chain_head[l]
             IN /\ ToSet(chain) = group /\ Len(chain) = Cardinality(group)
                /\ head \in group /\ \A m \in group : board.chain_head[m] = head
                /\ board.chain_data[head] =
                     [owner |-> board.colors[l], num_locs |-> Cardinality(group),
                      num_liberties |-> Cardinality(R!Liberties(board.colors, l))]
  <2>1. PICK h : h = board.chain_head[l]
    OBVIOUS
  <2>2. PICK C : C = Chain(board, h)
    OBVIOUS
  <2>3. R!Group(board.colors, l) = C
    BY <2>1, <2>2, GroupIsChain
  <2>4. ToSet(ChainOf(board, l)) = C /\ Len(ChainOf(board, l)) = Cardinality(C)
    BY <1>1, <2>1, <2>2, StonesOfChain DEF Lists
  <2>5. IsHead(board, h) /\ board.colors[h] = board.colors[l] /\ C \subseteq Locs(board)
    BY <1>1, <2>1, <2>2 DEF HeadsOK, Chain, Stones
  <2>6. h \in C /\ \A m \in C : board.chain_head[m] = h
    BY <2>2, <2>5 DEF IsHead, Chain
  <2>7. R!Liberties(board.colors, l) = LibsOf(board, C)
    BY <2>1, <2>2, LibertiesOfChain
  <2>8. board.chain_data[h] = [owner |-> board.colors[l], num_locs |-> Cardinality(C),
                              num_liberties |-> Cardinality(LibsOf(board, C))]
    <3>1. board.chain_data[h] = [owner |-> board.colors[h], num_locs |-> Cardinality(C),
            num_liberties |-> Cardinality(LibsOf(board, C)) + (IF h \in {} THEN 1 ELSE 0)]
      BY <1>1, <2>2, <2>5 DEF CountsOK
    <3>2. LibsOf(board, C) \subseteq Locs(board)
      BY DEF LibsOf
    <3>3. PICK i \in Nat : i = Cardinality(LibsOf(board, C))
      BY <1>1, <3>2, FiniteParts
    <3>4. i + (IF h \in {} THEN 1 ELSE 0) = i
      OBVIOUS
    <3> QED
      BY <2>5, <3>1, <3>3, <3>4
  <2> QED
    BY <2>1, <2>3, <2>4, <2>6, <2>7, <2>8
<1> QED
  BY <1>2, <1>3, <1>4 DEF ChainsAreGroups

-----------------------------------------------------------------------------
(* A move on the board is the move of GoRules                              *)

\* GoRules counts as the board does.
LEMMA SameCount == \A S : R!Cardinality(S) = Cardinality(S)
BY DEF R!Cardinality, Cardinality

\* What GoRules lets a move take is what the board takes.
LEMMA TakenByRules ==
  ASSUME NEW b, Living(b), b.x_size = board.x_size, Locs(b) = Locs(board),
         NEW loc \in Locs(b), b.colors[loc] = C_EMPTY, NEW pla \in Players,
         NEW placed, DOMAIN placed = Locs(b),
         \A m \in Locs(b) : placed[m] = IF m = loc THEN pla ELSE b.colors[m]
  PROVE  {m \in DOMAIN b.colors : placed[m] = 3 - pla /\ R!Liberties(placed, m) = {}}
           = Taken(b, loc, pla, Adj(b, loc))
<1>1. PICK T : T = Taken(b, loc, pla, Adj(b, loc))
  OBVIOUS
<1>2. GoodBoard(b) /\ Typed(b) /\ DOMAIN b.colors = Locs(b)
  BY DEF Living, GoodBoard, BoardOK, Locs
<1>3. PICK opp : opp = getOpp(pla) /\ opp = 3 - pla
  BY DEF getOpp
<1>4. pla # C_EMPTY /\ opp # C_EMPTY /\ opp # pla
  BY <1>3 DEF getOpp, Players, P_BLACK, P_WHITE, C_EMPTY
<1>5. /\ DOMAIN placed = Locs(b)
      /\ \A m \in Locs(b) : placed[m] = IF m = loc THEN pla ELSE b.colors[m]
  OBVIOUS
<1>6. ASSUME NEW m \in Locs(b), placed[m] = opp PROVE R!Liberties(placed, m) = {} <=> m \in T
  <2>1. m \in Stones(b) /\ b.colors[m] = opp
    BY <1>4, <1>5, <1>6 DEF Stones
  <2>2. PICK S : S = Chain(b, b.chain_head[m])
    OBVIOUS
  <2>3. /\ m \in S /\ S \subseteq Stones(b) /\ S \in SUBSET Locs(b) /\ ConnectedOn(b, S)
        /\ \A k \in S : b.colors[k] = opp /\ b.chain_head[k] = b.chain_head[m]
        /\ \A k \in S : \A a \in Adj(b, k) : b.colors[a] = b.colors[k] => a \in S
    BY <1>2, <2>1, <2>2, OfChain
  <2>4. \A k \in S : placed[k] = opp /\ placed[k] = placed[m]
    BY <1>4, <1>5, <2>3 DEF Stones
  <2>5. \A k \in S : \A a \in Adj(b, k) : placed[a] = placed[k] => a \in S
    <3>1. \A k : \A a \in Adj(b, k) : a \in Locs(b)
      BY DEF Adj
    <3> QED
      BY <1>4, <1>5, <2>3, <2>4, <3>1
  <2>6. R!Group(placed, m) = S
    <3>1. /\ Typed(b) /\ b.x_size = board.x_size /\ Locs(b) = Locs(board) /\ DOMAIN placed = Locs(b)
          /\ S \in SUBSET Locs(b) /\ ConnectedOn(b, S) /\ m \in S
          /\ \A k \in S : placed[k] = placed[m]
      BY <1>2, <1>5, <2>3, <2>4
    <3> QED
      BY <2>5, <3>1, GroupIs
  <2>7. R!Liberties(placed, m) =
          {a \in Locs(b) : placed[a] = C_EMPTY /\ \E k \in Adj(b, a) : k \in S}
    BY <1>2, <2>3, <2>6, LibertiesAre
  <2>8. \A a : a \in R!Liberties(placed, m) <=> a \in LibsOf(b, S) /\ a # loc
    BY <1>4, <1>5, <2>7 DEF LibsOf
  <2>9. LibsOf(b, S) # {}
    BY <2>1, <2>2 DEF Living
  <2>10. R!Liberties(placed, m) = {} <=> LibsOf(b, S) = {loc}
    BY <2>8, <2>9
  <2>11. ASSUME LibsOf(b, S) = {loc} PROVE m \in T
    <3>1. PICK a \in Adj(b, loc) : a \in S
      BY <2>11 DEF LibsOf
    <3>2. b.colors[a] = getOpp(pla) /\ b.chain_head[a] = b.chain_head[m]
      BY <1>3, <2>3, <3>1
    <3> QED
      BY <1>1, <2>1, <2>2, <2>11, <3>2 DEF Taken
  <2>12. m \in T => LibsOf(b, S) = {loc}
    BY <1>1, <2>2 DEF Taken
  <2> QED
    BY <2>10, <2>11, <2>12
<1>7. ASSUME NEW m \in T PROVE m \in Locs(b) /\ placed[m] = opp
  <2>1. m \in Taken(b, loc, pla, Adj(b, loc))
    BY <1>1
  <2>2. m \in Stones(b) /\ b.colors[m] = getOpp(pla)
    BY <1>2, <2>1, OfTaken
  <2> QED
    BY <1>3, <1>4, <1>5, <2>2 DEF Stones
<1> QED
  BY <1>1, <1>2, <1>3, <1>6, <1>7

\* The move of GoRules that a move of the board makes.
IsMove(move, b, c, n, loc, pla) ==
  /\ move.stones = n.colors /\ move.taken = Taken(b, loc, pla, Adj(b, loc))
  /\ move.dead = Suicide(c, loc) /\ move.ko = n.ko_loc

LEMMA PlayIsMove ==
  ASSUME NEW b, Living(b), b.x_size = board.x_size, Locs(b) = Locs(board),
         NEW loc \in Locs(b), b.colors[loc] = C_EMPTY, NEW pla \in Players,
         NEW c, NEW n, Plays(b, c, n, loc, pla)
  PROVE  IsMove(R!Move(b.colors, loc, pla), b, c, n, loc, pla)
<1>1. PICK T, E, D : /\ T = Taken(b, loc, pla, Adj(b, loc)) /\ E = Chain(c, c.chain_head[loc])
                     /\ D = Suicide(c, loc)
  OBVIOUS
<1>2. /\ GoodBoard(c) /\ Locs(c) = Locs(b) /\ c.x_size = b.x_size
      /\ c.colors = WithStone(b, loc, pla, T)
      /\ n.colors = [l \in Locs(b) |-> IF l \in D THEN C_EMPTY ELSE c.colors[l]]
      /\ KoAfter(c, T, n.ko_loc, loc)
  BY <1>1 DEF Plays
<1>3. loc \in Stones(c) /\ loc \notin T
  BY <1>1, ColorsAfter
<1> DEFINE placed == [b.colors EXCEPT ![loc] = pla]
           taken == {m \in DOMAIN b.colors : placed[m] = 3 - pla /\ R!Liberties(placed, m) = {}}
           left == R!Without(placed, taken)
           dead == IF R!Liberties(left, loc) = {} THEN R!Group(left, loc) ELSE {}
           koShape == /\ R!Cardinality(taken) = 1 /\ R!Group(left, loc) = {loc}
                   /\ R!Cardinality(R!Liberties(left, loc)) = 1
<1>9. R!Move(b.colors, loc, pla) =
        [stones |-> R!Without(left, dead), taken |-> taken, dead |-> dead,
         ko |-> IF koShape THEN CHOOSE m \in taken : TRUE ELSE 0]
  BY DEF R!Move
<1>8. koShape <=> /\ Cardinality(taken) = 1 /\ R!Group(left, loc) = {loc}
               /\ Cardinality(R!Liberties(left, loc)) = 1
  <2> HIDE DEF taken, left
  <2> QED
    BY SameCount
<1>4. /\ placed = [b.colors EXCEPT ![loc] = pla]
      /\ taken = {m \in DOMAIN b.colors : placed[m] = 3 - pla /\ R!Liberties(placed, m) = {}}
      /\ left = R!Without(placed, taken)
      /\ dead = IF R!Liberties(left, loc) = {} THEN R!Group(left, loc) ELSE {}
  OBVIOUS
<1> HIDE DEF placed, taken, left, dead, koShape
<1>5. taken = T
  <2>1. PICK f \in [Locs(b) -> 0 .. 2] : f = b.colors
    BY DEF Living, GoodBoard, BoardOK, Typed, Boards
  <2>2. /\ DOMAIN placed = Locs(b)
        /\ \A m \in Locs(b) : placed[m] = IF m = loc THEN pla ELSE b.colors[m]
    BY <1>4, <2>1
  <2>3. PICK s : s = placed
    OBVIOUS
  <2>4. {m \in DOMAIN b.colors : s[m] = 3 - pla /\ R!Liberties(s, m) = {}} = T
    BY <1>1, <2>2, <2>3, TakenByRules
  <2> QED
    BY <1>4, <2>3, <2>4
<1>6. left = c.colors
  <2>1. PICK f \in [Locs(b) -> 0 .. 2] : f = b.colors
    BY DEF Living, GoodBoard, BoardOK, Typed, Boards
  <2>2. placed = [l \in Locs(b) |-> IF l = loc THEN pla ELSE f[l]]
    BY <1>4, <2>1
  <2>3. left = [l \in Locs(b) |-> IF l \in T THEN C_EMPTY ELSE placed[l]]
    BY <1>4, <1>5, <2>2 DEF R!Without, C_EMPTY
  <2>4. \A l \in Locs(b) : (IF l \in T THEN C_EMPTY ELSE placed[l])
                             = IF l = loc THEN pla ELSE IF l \in T THEN C_EMPTY ELSE f[l]
    BY <1>3, <2>2
  <2>5. c.colors = [l \in Locs(b) |-> IF l = loc THEN pla ELSE IF l \in T THEN C_EMPTY ELSE f[l]]
    BY <1>2, <2>1 DEF WithStone
  <2> QED
    BY <2>3, <2>4, <2>5
<1>7. R!Group(left, loc) = E /\ R!Liberties(left, loc) = LibsOf(c, E)
  <2>1. R!Group(c.colors, loc) = E
    BY <1>1, <1>2, <1>3, GroupIsChain
  <2>2. R!Liberties(c.colors, loc) = LibsOf(c, E)
    BY <1>1, <1>2, <1>3, LibertiesOfChain
  <2> QED
    BY <1>6, <2>1, <2>2
<1>10. dead = D
  BY <1>1, <1>4, <1>7 DEF Suicide
<1>11. R!Without(left, dead) = n.colors
  <2>1. DOMAIN left = Locs(b)
    BY <1>2, <1>6 DEF Locs
  <2> QED
    BY <1>2, <1>6, <1>10, <2>1 DEF R!Without, C_EMPTY
<1>12. n.ko_loc = IF koShape THEN CHOOSE m \in taken : TRUE ELSE 0
  <2>1. CASE koShape
    <3>1. Cardinality(T) = 1 /\ E = {loc} /\ Cardinality(LibsOf(c, E)) = 1
      BY <1>5, <1>7, <1>8, <2>1
    <3>2. n.ko_loc \in T
      BY <1>1, <1>2, <3>1 DEF KoAfter
    <3>3. IsFiniteSet(T)
      <4>1. T \subseteq Locs(b) /\ Typed(b)
        BY <1>1 DEF Taken, Stones, Living, GoodBoard, BoardOK
      <4> QED
        BY <4>1, FiniteParts
    <3>4. PICK x : T = {x}
      BY <3>1, <3>3, FS_Singleton
    <3>5. (CHOOSE m \in taken : TRUE) \in T
      BY <1>5, <3>2
    <3> QED
      BY <2>1, <3>2, <3>4, <3>5
  <2>2. CASE ~koShape
    <3>1. ~(Cardinality(T) = 1 /\ E = {loc} /\ Cardinality(LibsOf(c, E)) = 1)
      BY <1>5, <1>7, <1>8, <2>2
    <3>2. n.ko_loc = NULL_LOC
      BY <1>1, <1>2, <3>1 DEF KoAfter
    <3> QED
      BY <2>2, <3>2 DEF NULL_LOC
  <2> QED
    BY <2>1, <2>2
<1>13. PICK move : move = R!Move(b.colors, loc, pla)
  OBVIOUS
<1>14. move.stones = n.colors /\ move.taken = T /\ move.dead = D /\ move.ko = n.ko_loc
  BY <1>5, <1>9, <1>10, <1>11, <1>12, <1>13
<1> QED
  BY <1>1, <1>13, <1>14 DEF IsMove

-----------------------------------------------------------------------------
(* The steps of GoRules                                                    *)

LEMMA MoveIsCounted ==
  ASSUME NEW b, NEW caps, b.captures = caps, caps = board.captures, NEW pla \in Players,
         NEW move, NEW T, NEW D, move.taken = T, move.dead = D
  PROVE  R!Count(move, pla) = CapturesAfter(b, pla, T, D)
<1>1. PICK i, j : i = Cardinality(D) /\ j = Cardinality(T)
  OBVIOUS
<1>2. R!Cardinality(move.dead) = i /\ R!Cardinality(move.taken) = j
  BY <1>1, SameCount
<1>3. R!Count(move, pla) = [q \in {1, 2} |-> caps[q] + (IF q = pla THEN i ELSE j)]
  BY <1>2 DEF R!Count
<1>4. CapturesAfter(b, pla, T, D) = [q \in {1, 2} |-> caps[q] + (IF q = pla THEN i ELSE j)]
  BY <1>1 DEF CapturesAfter, Players, P_BLACK, P_WHITE
<1> QED
  BY <1>3, <1>4

\* A move on the board n is a move of GoRules.
GamePlay(b, n, loc, pla) ==
  /\ loc \in Locs(b) /\ b.colors[loc] = C_EMPTY /\ loc # b.ko_loc
  /\ \E c, m : /\ Plays(b, c, m, loc, pla) /\ Suicide(c, loc) # {loc}
               /\ n.colors = m.colors /\ n.captures = m.captures
               /\ n.ko_loc \in {m.ko_loc, NULL_LOC}

GamePass(b, n) == n.colors = b.colors /\ n.captures = b.captures /\ n.ko_loc = NULL_LOC

LEMMA PlayRefines ==
  ASSUME Living(board), board'.x_size = board.x_size, R!Record, NEW loc, NEW pla \in Players,
         GamePlay(board, board', loc, pla)
  PROVE  R!Next
<1>1. PICK c, m : /\ Plays(board, c, m, loc, pla) /\ Suicide(c, loc) # {loc}
                  /\ board'.colors = m.colors /\ board'.captures = m.captures
                  /\ board'.ko_loc \in {m.ko_loc, NULL_LOC}
  BY DEF GamePlay
<1>2. /\ loc \in DOMAIN board.colors /\ loc \in Locs(board)
      /\ board.colors[loc] = C_EMPTY /\ loc # board.ko_loc /\ pla \in {1, 2}
  BY DEF GamePlay, Locs, Players, P_BLACK, P_WHITE
<1>3. PICK move, T, D : /\ move = R!Move(board.colors, loc, pla)
                        /\ T = Taken(board, loc, pla, Adj(board, loc)) /\ D = Suicide(c, loc)
  OBVIOUS
<1>4. move.stones = m.colors /\ move.taken = T /\ move.dead = D /\ move.ko = m.ko_loc
  <2>1. IsMove(R!Move(board.colors, loc, pla), board, c, m, loc, pla)
    BY <1>1, <1>2, PlayIsMove
  <2> QED
    BY <1>3, <2>1 DEF IsMove
<1>5. R!Count(move, pla) = m.captures
  <2>1. m.captures = CapturesAfter(board, pla, T, D)
    BY <1>1, <1>3 DEF Plays
  <2>2. R!Count(move, pla) = CapturesAfter(board, pla, T, D)
    BY <1>4, MoveIsCounted
  <2> QED
    BY <2>1, <2>2
<1>6. R!Play(loc, pla)
  BY <1>1, <1>2, <1>3, <1>4, <1>5 DEF R!Play, C_EMPTY, NULL_LOC
<1> QED
  BY <1>2, <1>6 DEF R!Next

LEMMA PassRefines ==
  ASSUME board'.x_size = board.x_size, R!Record, GamePass(board, board')
  PROVE  R!Next
<1>1. R!Pass
  BY DEF R!Pass, GamePass, NULL_LOC
<1> QED
  BY <1>1 DEF R!Next

LEMMA EditRefines ==
  ASSUME Living(board), board'.x_size = board.x_size, board'.ko_loc = NULL_LOC, past' = past,
         NEW loc \in Locs(board), NEW color \in 0 .. 2, Edits(board, board', loc, color)
  PROVE  R!Next
<1>1. ASSUME R!SetStone(loc, color) PROVE R!Next
  <2>1. loc \in DOMAIN board.colors /\ color \in {0, 1, 2}
    BY DEF Locs
  <2> QED
    BY <1>1, <2>1 DEF R!Next
<1>2. CASE board.colors[loc] = color
  <2>1. board'.colors = board.colors /\ board'.captures = board.captures
    BY <1>2 DEF Edits, SameAs
  <2>2. R!SetStone(loc, color)
    BY <1>2, <2>1 DEF R!SetStone, NULL_LOC
  <2> QED
    BY <1>1, <2>2
<1>3. CASE board.colors[loc] # color
  <2>1. PICK base : /\ Bare(base, board, {loc})
                    /\ IF color = C_EMPTY THEN SameAs(board', base)
                       ELSE \E c, m : /\ Plays(base, c, m, loc, color)
                                      /\ IF board.colors[loc] = C_EMPTY \/ Suicide(c, loc) = {}
                                         THEN SameAs(board', m) ELSE SameAs(board', base)
    BY <1>3 DEF Edits
  <2>2. /\ Living(base) /\ Locs(base) = Locs(board) /\ base.x_size = board.x_size
        /\ base.captures = board.captures /\ loc \in Locs(base) /\ base.colors[loc] = C_EMPTY
    BY <2>1 DEF Bare
  <2>3. R!Without(board.colors, {loc}) = base.colors
    BY <2>1 DEF Bare, R!Without, C_EMPTY, Locs
  <2>4. PICK move : move = R!Move(R!Without(board.colors, {loc}), loc, color)
    OBVIOUS
  <2>5. ASSUME IF color # 0 /\ (board.colors[loc] = 0 \/ move.dead = {})
               THEN board'.colors = move.stones /\ board'.captures = R!Count(move, color)
               ELSE board'.colors = base.colors /\ board'.captures = board.captures
        PROVE  R!SetStone(loc, color)
    BY <1>3, <2>3, <2>4, <2>5 DEF R!SetStone, NULL_LOC
  <2>6. CASE color = C_EMPTY
    <3>1. board'.colors = base.colors /\ board'.captures = board.captures
      BY <2>1, <2>2, <2>6 DEF SameAs
    <3> QED
      BY <1>1, <2>5, <2>6, <3>1 DEF C_EMPTY
  <2>7. CASE color # C_EMPTY
    <3>1. PICK c, m : /\ Plays(base, c, m, loc, color)
                      /\ IF board.colors[loc] = C_EMPTY \/ Suicide(c, loc) = {}
                         THEN SameAs(board', m) ELSE SameAs(board', base)
      BY <2>1, <2>7
    <3>2. color \in Players
      BY <2>7 DEF Players, P_BLACK, P_WHITE, C_EMPTY
    <3>3. PICK T, D : T = Taken(base, loc, color, Adj(base, loc)) /\ D = Suicide(c, loc)
      OBVIOUS
    <3>4. move.stones = m.colors /\ move.taken = T /\ move.dead = D
      <4>1. IsMove(R!Move(base.colors, loc, color), base, c, m, loc, color)
        BY <2>2, <3>1, <3>2, PlayIsMove
      <4> QED
        BY <2>3, <2>4, <3>3, <4>1 DEF IsMove
    <3>5. R!Count(move, color) = m.captures
      <4>1. m.captures = CapturesAfter(base, color, T, D)
        BY <3>1, <3>3 DEF Plays
      <4>2. R!Count(move, color) = CapturesAfter(base, color, T, D)
        BY <2>2, <3>2, <3>4, MoveIsCounted
      <4> QED
        BY <4>1, <4>2
    <3>6. CASE board.colors[loc] = C_EMPTY \/ D = {}
      <4>1. board'.colors = m.colors /\ board'.captures = m.captures
        BY <3>1, <3>3, <3>6 DEF SameAs
      <4>2. color # 0 /\ (board.colors[loc] = 0 \/ move.dead = {})
        BY <2>7, <3>4, <3>6 DEF C_EMPTY
      <4> QED
        BY <1>1, <2>5, <3>4, <3>5, <4>1, <4>2
    <3>7. CASE ~(board.colors[loc] = C_EMPTY \/ D = {})
      <4>1. board'.colors = base.colors /\ board'.captures = board.captures
        BY <2>2, <3>1, <3>3, <3>7 DEF SameAs
      <4>2. ~(board.colors[loc] = 0 \/ move.dead = {})
        BY <3>4, <3>7 DEF C_EMPTY
      <4> QED
        BY <1>1, <2>5, <4>1, <4>2
    <3> QED
      BY <3>6, <3>7
  <2> QED
    BY <2>6, <2>7
<1> QED
  BY <1>2, <1>3

-----------------------------------------------------------------------------
(* The parts of a move, and what each leaves alone                         *)

HistFields ==
  {"rules", "numMoves", "koHashHistory", "firstTurnIdxWithKoHistory", "recentBoards",
   "currentRecentBoardIdx", "presumedNextMovePla", "wasEverOccupiedOrPlayed", "superKoBanned",
   "consecutiveEndingPasses", "hashesBeforePass", "encorePhase", "numTurnsThisPhase",
   "koRecapBlocked", "koRecapBlockHash", "koCapturesInEncore", "secondEncoreStartColors",
   "whiteBonusScore", "hasButton", "over"}

NoPasses == [p \in Players |-> {}]

\* Two histories agree on what was played and on the phase of the game.
SameGame(g, h) ==
  /\ DOMAIN g = HistFields /\ g.rules = h.rules /\ g.numMoves = h.numMoves
  /\ g.recentBoards = h.recentBoards /\ g.currentRecentBoardIdx = h.currentRecentBoardIdx
  /\ g.presumedNextMovePla = h.presumedNextMovePla /\ g.encorePhase = h.encorePhase

SameBlocks(g, h) ==
  g.koRecapBlocked = h.koRecapBlocked /\ g.koRecapBlockHash = h.koRecapBlockHash

SameHashes(g, h) ==
  g.koHashHistory = h.koHashHistory /\ g.firstTurnIdxWithKoHistory = h.firstTurnIdxWithKoHistory

SamePasses(g, h) ==
  /\ g.hasButton = h.hasButton /\ g.consecutiveEndingPasses = h.consecutiveEndingPasses
  /\ g.hashesBeforePass = h.hashesBeforePass

\* What countPass may have made of h.
PassCountedFrom(g, h, loc) ==
  /\ SameGame(g, h) /\ SameBlocks(g, h) /\ g.over = h.over
  /\ \/ SameHashes(g, h)
     \/ g.koHashHistory = <<>> /\ g.firstTurnIdxWithKoHistory = h.numMoves + 1
  /\ loc # PASS_LOC => g.consecutiveEndingPasses = 0 /\ g.hasButton = h.hasButton
                       /\ g.hashesBeforePass = h.hashesBeforePass
  /\ loc = PASS_LOC /\ h.hasButton => g.hasButton = FALSE /\ g.consecutiveEndingPasses = 0
  /\ loc = PASS_LOC /\ ~h.hasButton =>
       g.hasButton = h.hasButton
       /\ g.consecutiveEndingPasses = newConsecutiveEndingPassesAfterPass(h)

LEMMA PassCounted ==
  ASSUME NEW h, DOMAIN h = HistFields, NEW b, NEW loc, NEW pla
  PROVE  PassCountedFrom(countPass(h, b, loc, pla), h, loc)
<1> SUFFICES ASSUME NEW g, g = countPass(h, b, loc, pla)
             PROVE  PassCountedFrom(g, h, loc)
  OBVIOUS
<1> USE DEF PassCountedFrom
<1> DEFINE forgotten == [h EXCEPT !.koHashHistory = <<>>,
                                  !.firstTurnIdxWithKoHistory = h.numMoves + 1]
<1>1. CASE loc # PASS_LOC
  <2>1. g = [h EXCEPT !.consecutiveEndingPasses = 0]
    BY <1>1 DEF countPass
  <2> QED
    BY <1>1, <2>1 DEF SameGame, SameBlocks, SameHashes, HistFields
<1>2. CASE loc = PASS_LOC /\ h.hasButton
  <2>1. g = [forgotten EXCEPT !.hasButton = FALSE, !.consecutiveEndingPasses = 0,
                             !.whiteBonusScore = @ + buttonBonus(pla),
                             !.hashesBeforePass = [p \in Players |-> {}]]
    BY <1>2 DEF countPass
  <2> QED
    BY ZenonT(30), <1>2, <2>1 DEF SameGame, SameBlocks, HistFields
<1>3. CASE loc = PASS_LOC /\ ~h.hasButton
  <2> DEFINE f == IF phaseHasSpightlikeEndingAndPassHistoryClearing(h) THEN forgotten ELSE h
  <2>1. g = [f EXCEPT !.consecutiveEndingPasses = newConsecutiveEndingPassesAfterPass(h),
                      !.hashesBeforePass[pla] = @ \cup {koHashNow(h, b, pla)}]
    BY <1>3 DEF countPass
  <2>2. /\ SameGame(f, h) /\ SameBlocks(f, h) /\ f.over = h.over /\ f.hasButton = h.hasButton
        /\ \/ SameHashes(f, h)
           \/ f.koHashHistory = <<>> /\ f.firstTurnIdxWithKoHistory = h.numMoves + 1
    BY DEF SameGame, SameBlocks, SameHashes, HistFields
  <2> HIDE DEF f
  <2>3. /\ SameGame(g, f) /\ SameBlocks(g, f) /\ g.over = f.over /\ g.hasButton = f.hasButton
        /\ SameHashes(g, f) /\ g.consecutiveEndingPasses = newConsecutiveEndingPassesAfterPass(h)
    BY <2>1, <2>2 DEF SameGame, SameBlocks, SameHashes, HistFields
  <2> QED
    BY <1>3, <2>2, <2>3 DEF SameGame, SameBlocks, SameHashes
<1> QED
  BY <1>1, <1>2, <1>3

\* The blocks of a history on a board: none before the encore, and only on stones.
BlocksOK(h, b) ==
  /\ h.koRecapBlockHash = h.koRecapBlocked
  /\ h.encorePhase = 0 => h.koRecapBlocked = {}
  /\ \A l \in h.koRecapBlocked : b.colors[l] # C_EMPTY

LEMMA BlockSet ==
  ASSUME NEW h, DOMAIN h = HistFields, h.koRecapBlockHash = h.koRecapBlocked, NEW l,
         NEW g, g = setKoRecapBlocked(h, l, TRUE)
  PROVE  /\ SameGame(g, h) /\ SameHashes(g, h) /\ SamePasses(g, h) /\ g.over = h.over
         /\ g.koRecapBlockHash = g.koRecapBlocked
<1>1. CASE l \in h.koRecapBlocked
  <2>1. g = h
    BY <1>1 DEF setKoRecapBlocked
  <2> QED
    BY <2>1 DEF SameGame, SameHashes, SamePasses
<1>2. CASE l \notin h.koRecapBlocked
  <2>1. g = [h EXCEPT !.koRecapBlocked = @ \cup {l}, !.koRecapBlockHash = Xor(@, {l})]
    BY <1>2 DEF setKoRecapBlocked
  <2>2. Xor(h.koRecapBlocked, {l}) = h.koRecapBlocked \cup {l}
    BY <1>2 DEF Xor
  <2>3. g.koRecapBlocked = h.koRecapBlocked \cup {l} /\ g.koRecapBlockHash = Xor(h.koRecapBlockHash, {l})
    BY <2>1 DEF HistFields
  <2>4. SameGame(g, h) /\ SameHashes(g, h) /\ SamePasses(g, h) /\ g.over = h.over
    BY <2>1 DEF SameGame, SameHashes, SamePasses, HistFields
  <2> QED
    BY <2>2, <2>3, <2>4
<1> QED
  BY <1>1, <1>2

LEMMA BlockLifted ==
  ASSUME NEW h, DOMAIN h = HistFields, h.koRecapBlockHash = h.koRecapBlocked, NEW l,
         NEW g, g = setKoRecapBlocked(h, l, FALSE)
  PROVE  /\ SameGame(g, h) /\ SameHashes(g, h) /\ SamePasses(g, h) /\ g.over = h.over
         /\ g.koRecapBlockHash = g.koRecapBlocked /\ g.koRecapBlocked \subseteq h.koRecapBlocked
<1>1. CASE l \notin h.koRecapBlocked
  <2>1. g = h
    BY <1>1 DEF setKoRecapBlocked
  <2> QED
    BY <2>1 DEF SameGame, SameHashes, SamePasses
<1>2. CASE l \in h.koRecapBlocked
  <2>1. g = [h EXCEPT !.koRecapBlocked = @ \ {l}, !.koRecapBlockHash = Xor(@, {l})]
    BY <1>2 DEF setKoRecapBlocked
  <2>2. Xor(h.koRecapBlocked, {l}) = h.koRecapBlocked \ {l}
    BY <1>2 DEF Xor
  <2>3. g.koRecapBlocked = h.koRecapBlocked \ {l} /\ g.koRecapBlockHash = Xor(h.koRecapBlockHash, {l})
    BY <2>1 DEF HistFields
  <2>4. SameGame(g, h) /\ SameHashes(g, h) /\ SamePasses(g, h) /\ g.over = h.over
    BY <2>1 DEF SameGame, SameHashes, SamePasses, HistFields
  <2> QED
    BY <2>2, <2>3, <2>4
<1> QED
  BY <1>1, <1>2

\* After the board part of a move the blocks are on stones of the new board.
LEMMA KoRecorded ==
  ASSUME NEW h, DOMAIN h = HistFields, h.koRecapBlockHash = h.koRecapBlocked, NEW b, NEW c,
         NEW loc, NEW pla, NEW g, g = recordKo(h, b, c, loc, pla)
  PROVE  /\ SameGame(g, h) /\ SameHashes(g, h) /\ SamePasses(g, h) /\ g.over = h.over
         /\ g.koRecapBlockHash = g.koRecapBlocked
         /\ \A l \in g.koRecapBlocked : c.colors[l] # C_EMPTY
<1> DEFINE k == setKoRecapBlocked(h, loc, TRUE)
           captured == IF c.ko_loc = NULL_LOC THEN h
                       ELSE [k EXCEPT !.koCapturesInEncore = @ \cup {<<b.pos_hash, loc, pla>>}]
           empty == {l \in captured.koRecapBlocked : c.colors[l] = C_EMPTY}
<1>1. g = [captured EXCEPT !.koRecapBlocked = @ \ empty, !.koRecapBlockHash = Xor(@, empty)]
  BY DEF recordKo
<1>2. /\ SameGame(k, h) /\ SameHashes(k, h) /\ SamePasses(k, h) /\ k.over = h.over
      /\ k.koRecapBlockHash = k.koRecapBlocked
  BY BlockSet
<1> HIDE DEF k
<1>3. /\ SameGame(captured, h) /\ SameHashes(captured, h) /\ SamePasses(captured, h)
      /\ captured.over = h.over /\ captured.koRecapBlockHash = captured.koRecapBlocked
  <2>1. CASE c.ko_loc = NULL_LOC
    BY <2>1 DEF SameGame, SameHashes, SamePasses
  <2>2. CASE c.ko_loc # NULL_LOC
    <3>1. captured = [k EXCEPT !.koCapturesInEncore = @ \cup {<<b.pos_hash, loc, pla>>}]
      BY <2>2
    <3> HIDE DEF captured
    <3> QED
      BY <1>2, <3>1 DEF SameGame, SameHashes, SamePasses, HistFields
  <2> QED
    BY <2>1, <2>2
<1>4. empty \subseteq captured.koRecapBlocked
      /\ \A l \in captured.koRecapBlocked \ empty : c.colors[l] # C_EMPTY
  OBVIOUS
<1> HIDE DEF captured, empty
<1>5. Xor(captured.koRecapBlocked, empty) = captured.koRecapBlocked \ empty
  BY <1>4 DEF Xor
<1>6. /\ SameGame(g, captured) /\ SameHashes(g, captured) /\ SamePasses(g, captured)
      /\ g.over = captured.over /\ g.koRecapBlocked = captured.koRecapBlocked \ empty
      /\ g.koRecapBlockHash = Xor(captured.koRecapBlockHash, empty)
  BY <1>1, <1>3 DEF SameGame, SameHashes, SamePasses, HistFields
<1> QED
  BY <1>3, <1>4, <1>5, <1>6 DEF SameGame, SameHashes, SamePasses

LEMMA ClearedColors ==
  ASSUME NEW b
  PROVE  clearSimpleKoLoc(b).colors = b.colors
BY DEF clearSimpleKoLoc

LEMMA PlayedOnBoard ==
  ASSUME NEW h, DOMAIN h = HistFields, NEW b, BlocksOK(h, b), NEW loc, NEW pla,
         NEW played, played = playOnBoard(h, b, loc, pla), h.encorePhase \in Nat
  PROVE  /\ SameGame(played.hist, h) /\ SameHashes(played.hist, h) /\ SamePasses(played.hist, h)
         /\ played.hist.over = h.over
         /\ BlocksOK(played.hist, played.board)
<1> DEFINE lifted == passForKoLoc(h, b, loc, pla)
           c == playMoveAssumeLegal(b, loc, pla)
<1>1. CASE lifted # NULL_LOC
  <2>1. played.hist = setKoRecapBlocked(h, lifted, FALSE) /\ played.board = clearSimpleKoLoc(b)
    BY <1>1 DEF playOnBoard
  <2> HIDE DEF lifted
  <2>2. /\ SameGame(played.hist, h) /\ SameHashes(played.hist, h) /\ SamePasses(played.hist, h)
        /\ played.hist.over = h.over /\ played.hist.koRecapBlockHash = played.hist.koRecapBlocked
        /\ played.hist.koRecapBlocked \subseteq h.koRecapBlocked
    <3> DEFINE k == setKoRecapBlocked(h, lifted, FALSE)
    <3>1. h.koRecapBlockHash = h.koRecapBlocked
      BY DEF BlocksOK
    <3>2. /\ SameGame(k, h) /\ SameHashes(k, h) /\ SamePasses(k, h) /\ k.over = h.over
          /\ k.koRecapBlockHash = k.koRecapBlocked /\ k.koRecapBlocked \subseteq h.koRecapBlocked
      BY <3>1, BlockLifted
    <3> QED
      BY <2>1, <3>2
  <2>3. played.board.colors = b.colors
    BY <2>1, ClearedColors
  <2> QED
    BY <2>2, <2>3 DEF BlocksOK, SameGame
<1>2. CASE lifted = NULL_LOC /\ h.encorePhase > 0
  <2>1. played.hist = recordKo(h, b, c, loc, pla) /\ played.board = clearSimpleKoLoc(c)
    BY <1>2 DEF playOnBoard, playUnblocked
  <2> HIDE DEF c
  <2>2. /\ SameGame(played.hist, h) /\ SameHashes(played.hist, h) /\ SamePasses(played.hist, h)
        /\ played.hist.over = h.over /\ played.hist.koRecapBlockHash = played.hist.koRecapBlocked
        /\ \A l \in played.hist.koRecapBlocked : c.colors[l] # C_EMPTY
    BY <2>1, KoRecorded DEF BlocksOK
  <2>3. played.board.colors = c.colors
    BY <2>1, ClearedColors
  <2> QED
    BY <1>2, <2>2, <2>3 DEF BlocksOK, SameGame
<1>3. CASE lifted = NULL_LOC /\ ~(h.encorePhase > 0)
  <2>1. played.hist = h /\ h.encorePhase = 0
    BY <1>3 DEF playOnBoard, playUnblocked
  <2> QED
    BY <2>1 DEF BlocksOK, SameGame, SameHashes, SamePasses
<1> QED
  BY <1>1, <1>2, <1>3

-----------------------------------------------------------------------------
(* The hashes and the ring of recent boards                                *)

NumbersOK(h) ==
  /\ h.numMoves \in Nat /\ h.firstTurnIdxWithKoHistory \in 0 .. h.numMoves + 1
  /\ \E S : h.koHashHistory \in Seq(S)
  /\ Len(h.koHashHistory) = h.numMoves + 1 - h.firstTurnIdxWithKoHistory

RingOK(h, turns) ==
  /\ h.currentRecentBoardIdx \in 0 .. NUM_RECENT_BOARDS - 1
  /\ DOMAIN h.recentBoards = 0 .. NUM_RECENT_BOARDS - 1
  /\ \A k \in 0 .. NUM_RECENT_BOARDS - 1 :
       getRecentBoard(h, k) = turns[IF k < Len(turns) THEN Len(turns) - k ELSE 1].colors

LEMMA Wraps ==
  ASSUME NEW N \in Nat \ {0}, NEW x \in 0 .. 2 * N - 1
  PROVE  x % N = (IF x < N THEN x ELSE x - N)
OBVIOUS

\* The place of the board of k moves ago.
LEMMA Slot ==
  ASSUME NEW N \in Nat \ {0}, NEW idx \in 0 .. N - 1, NEW k \in 0 .. N - 1
  PROVE  /\ (idx - k + N) % N = (IF k <= idx THEN idx - k ELSE idx - k + N)
         /\ (idx + 1) % N = (IF idx + 1 < N THEN idx + 1 ELSE 0)
<1>1. PICK x \in 0 .. 2 * N - 1 : x = idx - k + N
  OBVIOUS
<1>2. PICK y \in 0 .. 2 * N - 1 : y = idx + 1
  OBVIOUS
<1>3. x % N = (IF x < N THEN x ELSE x - N) /\ y % N = (IF y < N THEN y ELSE y - N)
  BY Wraps
<1>4. (IF x < N THEN x ELSE x - N) = (IF k <= idx THEN idx - k ELSE idx - k + N)
  BY <1>1
<1>5. (IF y < N THEN y ELSE y - N) = (IF idx + 1 < N THEN idx + 1 ELSE 0)
  BY <1>2
<1> QED
  BY <1>1, <1>2, <1>3, <1>4, <1>5, Zenon

LEMMA SlotMoves ==
  ASSUME NEW N \in Nat \ {0}, NEW idx \in 0 .. N - 1, NEW k \in 1 .. N - 1, NEW new, NEW p, NEW q,
         new = (IF idx + 1 < N THEN idx + 1 ELSE 0),
         p = (IF k <= new THEN new - k ELSE new - k + N),
         q = (IF k - 1 <= idx THEN idx - (k - 1) ELSE idx - (k - 1) + N)
  PROVE  p = q /\ p # new /\ p \in 0 .. N - 1
OBVIOUS

LEMMA Remembers ==
  ASSUME NEW h, DOMAIN h = HistFields, NumbersOK(h), NEW b, NEW loc, NEW pla, NEW turns, NEW S,
         turns \in Seq(S), Len(turns) = h.numMoves + 1, RingOK(h, turns), NEW turn, turn.colors = b.colors,
         NEW g, g = rememberMove(h, b, loc, pla)
  PROVE  /\ DOMAIN g = HistFields /\ g.rules = h.rules /\ g.encorePhase = h.encorePhase
         /\ SameBlocks(g, h) /\ SamePasses(g, h) /\ g.over = h.over
         /\ NumbersOK(g) /\ g.numMoves = h.numMoves + 1
         /\ g.firstTurnIdxWithKoHistory <= g.numMoves
         /\ g.presumedNextMovePla = getOpp(pla)
         /\ RingOK(g, Append(turns, turn))
<1> DEFINE N == NUM_RECENT_BOARDS
           idx == h.currentRecentBoardIdx
           new == (idx + 1) % N
           hash == koHashNow(h, b, getOpp(pla))
<1>1. /\ DOMAIN g = HistFields /\ g.rules = h.rules /\ g.encorePhase = h.encorePhase
      /\ SameBlocks(g, h) /\ SamePasses(g, h) /\ g.over = h.over
      /\ g.presumedNextMovePla = getOpp(pla)
  BY DEF rememberMove, SameBlocks, SamePasses, HistFields
<1>2. /\ g.numMoves = h.numMoves + 1 /\ g.firstTurnIdxWithKoHistory = h.firstTurnIdxWithKoHistory
      /\ g.koHashHistory = Append(h.koHashHistory, hash)
  BY DEF rememberMove, HistFields
<1>3. g.currentRecentBoardIdx = new /\ g.recentBoards = [h.recentBoards EXCEPT ![new] = b.colors]
  BY DEF rememberMove, HistFields
<1>4. NumbersOK(g) /\ g.firstTurnIdxWithKoHistory <= g.numMoves
  <2>1. PICK T : h.koHashHistory \in Seq(T)
    BY DEF NumbersOK
  <2>2. /\ h.koHashHistory \in Seq(T \cup {hash}) /\ hash \in T \cup {hash}
    BY <2>1
  <2> HIDE DEF hash
  <2>3. g.koHashHistory \in Seq(T \cup {hash}) /\ Len(g.koHashHistory) = Len(h.koHashHistory) + 1
    BY <1>2, <2>2
  <2> QED
    <3>1. \E U : g.koHashHistory \in Seq(U)
      BY <2>3
    <3> QED
      <4>1. h.numMoves \in Nat /\ h.firstTurnIdxWithKoHistory \in 0 .. h.numMoves + 1
            /\ Len(h.koHashHistory) = h.numMoves + 1 - h.firstTurnIdxWithKoHistory
        BY DEF NumbersOK
      <4>2. /\ g.numMoves \in Nat /\ g.firstTurnIdxWithKoHistory \in 0 .. g.numMoves + 1
            /\ Len(g.koHashHistory) = g.numMoves + 1 - g.firstTurnIdxWithKoHistory
            /\ g.firstTurnIdxWithKoHistory <= g.numMoves
        BY <1>2, <2>3, <4>1
      <4> QED
        BY <3>1, <4>2 DEF NumbersOK
<1>5. RingOK(g, Append(turns, turn))
  <2>1. N \in Nat \ {0} /\ idx \in 0 .. N - 1 /\ DOMAIN h.recentBoards = 0 .. N - 1
    BY RecentAssumption DEF RecentAssumption, RingOK
  <2>2. new \in 0 .. N - 1 /\ new = IF idx + 1 < N THEN idx + 1 ELSE 0
    BY SMTT(30), <2>1, Slot
  <2>3. DOMAIN g.recentBoards = 0 .. N - 1
    BY <1>3, <2>1
  <2> SUFFICES ASSUME NEW k \in 0 .. N - 1
               PROVE  getRecentBoard(g, k)
                        = Append(turns, turn)[IF k < Len(turns) + 1 THEN Len(turns) + 1 - k ELSE 1].colors
    <3>1. Len(Append(turns, turn)) = Len(turns) + 1
      OBVIOUS
    <3> QED
      BY SMTT(30), <1>3, <2>2, <2>3, <3>1 DEF RingOK
  <2>4. getRecentBoard(g, k) = [h.recentBoards EXCEPT ![new] = b.colors][(new - k + N) % N]
    BY <1>3 DEF getRecentBoard
  <2>5. Len(turns) \in Nat /\ Len(turns) >= 1
    BY DEF NumbersOK
  <2>6. CASE k = 0
    <3>1. (new - k + N) % N = new
      <4>1. 0 \in 0 .. N - 1 /\ new \in Nat
        BY <2>1, <2>2
      <4> HIDE DEF new, N
      <4>2. (new - 0 + N) % N = (IF 0 <= new THEN new - 0 ELSE new - 0 + N)
        BY <2>1, <2>2, <4>1, Slot
      <4>3. new - k + N = new - 0 + N /\ (IF 0 <= new THEN new - 0 ELSE new - 0 + N) = new
        BY <2>6, <4>1
      <4> QED
        BY <4>2, <4>3
    <3>2. getRecentBoard(g, k) = b.colors
      BY <2>1, <2>2, <2>4, <3>1
    <3>3. Append(turns, turn)[Len(turns) + 1] = turn
      BY <2>5
    <3> QED
      BY <2>5, <2>6, <3>2, <3>3
  <2>7. CASE k > 0
    <3>1. k - 1 \in 0 .. N - 1 /\ k \in 0 .. N - 1
      BY <2>1, <2>7
    <3>2. (new - k + N) % N = (idx - (k - 1) + N) % N /\ (new - k + N) % N # new
          /\ (new - k + N) % N \in 0 .. N - 1
      <4>1. (new - k + N) % N = (IF k <= new THEN new - k ELSE new - k + N)
        BY <2>1, <2>2, Slot
      <4>2. (idx - (k - 1) + N) % N
              = (IF k - 1 <= idx THEN idx - (k - 1) ELSE idx - (k - 1) + N)
        BY <2>1, <3>1, Slot
      <4> HIDE DEF new, idx, N
      <4> QED
        <5>1. k \in 1 .. N - 1
          BY <2>1, <2>7
        <5>2. PICK p, q : p = (new - k + N) % N /\ q = (idx - (k - 1) + N) % N
          OBVIOUS
        <5>3. p = q /\ p # new /\ p \in 0 .. N - 1
          <6>1. p = (IF k <= new THEN new - k ELSE new - k + N)
            BY <4>1, <5>2, Zenon
          <6>2. q = (IF k - 1 <= idx THEN idx - (k - 1) ELSE idx - (k - 1) + N)
            BY <4>2, <5>2, Zenon
          <6>3. N \in Nat \ {0} /\ idx \in 0 .. N - 1 /\ new = (IF idx + 1 < N THEN idx + 1 ELSE 0)
            BY <2>1, <2>2
          <6> QED
            BY <5>1, <6>1, <6>2, <6>3, SlotMoves
        <5> QED
          BY <5>2, <5>3, Zenon
    <3>3. getRecentBoard(g, k) = getRecentBoard(h, k - 1)
      BY <2>1, <2>4, <3>2 DEF getRecentBoard
    <3>4. getRecentBoard(h, k - 1)
            = turns[IF k - 1 < Len(turns) THEN Len(turns) - (k - 1) ELSE 1].colors
      BY <3>1 DEF RingOK
    <3>5. (IF k - 1 < Len(turns) THEN Len(turns) - (k - 1) ELSE 1)
            = (IF k < Len(turns) + 1 THEN Len(turns) + 1 - k ELSE 1)
      BY <2>5, <3>1
    <3>6. (IF k < Len(turns) + 1 THEN Len(turns) + 1 - k ELSE 1) \in 1 .. Len(turns)
      BY <2>5, <2>7, <3>1
    <3>7. \A i \in 1 .. Len(turns) : Append(turns, turn)[i] = turns[i]
      OBVIOUS
    <3> QED
      BY <3>3, <3>4, <3>5, <3>6, <3>7
  <2> QED
    BY <2>6, <2>7
<1> QED
  BY <1>1, <1>2, <1>4, <1>5

-----------------------------------------------------------------------------
(* The ends of a phase and of a game                                       *)

SameAll(g, h) == SameGame(g, h) /\ SameBlocks(g, h) /\ SameHashes(g, h) /\ SamePasses(g, h)

\* A button that is left means that nobody has passed in this phase.
ButtonOK(h) ==
  h.hasButton => h.consecutiveEndingPasses = 0 /\ h.hashesBeforePass = NoPasses

HistOK(h, b, turns) ==
  /\ DOMAIN h = HistFields /\ NumbersOK(h) /\ h.firstTurnIdxWithKoHistory <= h.numMoves
  /\ \E S : turns \in Seq(S)
  /\ Len(turns) = h.numMoves + 1
  /\ h.encorePhase \in Nat /\ h.presumedNextMovePla \in Players
  /\ BlocksOK(h, b) /\ ButtonOK(h) /\ RingOK(h, turns)

LEMMA SameIsOK ==
  ASSUME NEW h, NEW b, NEW turns, HistOK(h, b, turns), NEW g, SameAll(g, h)
  PROVE  HistOK(g, b, turns)
<1>1. /\ DOMAIN g = HistFields /\ NumbersOK(g) /\ g.firstTurnIdxWithKoHistory <= g.numMoves
  BY DEF SameAll, SameGame, SameHashes, HistOK, NumbersOK
<1>2. g.encorePhase \in Nat /\ g.presumedNextMovePla \in Players /\ g.numMoves = h.numMoves
  BY DEF SameAll, SameGame, HistOK
<1>3. BlocksOK(g, b)
  BY DEF SameAll, SameGame, SameBlocks, HistOK, BlocksOK
<1>4. ButtonOK(g)
  BY DEF SameAll, SamePasses, HistOK, ButtonOK
<1>5. RingOK(g, turns)
  BY DEF SameAll, SameGame, HistOK, RingOK, getRecentBoard
<1> QED
  BY <1>1, <1>2, <1>3, <1>4, <1>5 DEF HistOK

LEMMA Banned ==
  ASSUME NEW h, DOMAIN h = HistFields, NEW b, NEW pla, NEW g, g = banSuperKo(h, b, pla)
  PROVE  SameAll(g, h) /\ g.over = h.over
<1>1. CASE g = h
  BY <1>1 DEF SameAll, SameGame, SameBlocks, SameHashes, SamePasses
<1>2. ASSUME NEW bans, g = [h EXCEPT !.superKoBanned = bans] PROVE SameAll(g, h) /\ g.over = h.over
  BY <1>2 DEF SameAll, SameGame, SameBlocks, SameHashes, SamePasses, HistFields
<1> QED
  BY <1>1, <1>2 DEF banSuperKo

LEMMA Chilled ==
  ASSUME NEW h, DOMAIN h = HistFields, NEW loc, NEW pla, NEW wasPassForKo, NEW g,
         g = chill(h, loc, pla, wasPassForKo)
  PROVE  SameAll(g, h) /\ g.over = h.over
<1>1. CASE g = h
  BY <1>1 DEF SameAll, SameGame, SameBlocks, SameHashes, SamePasses
<1>2. ASSUME NEW bonus, g = [h EXCEPT !.whiteBonusScore = bonus] PROVE SameAll(g, h) /\ g.over = h.over
  BY <1>2 DEF SameAll, SameGame, SameBlocks, SameHashes, SamePasses, HistFields
<1> QED
  BY <1>1, <1>2 DEF chill

LEMMA CycleBroken ==
  ASSUME NEW h, DOMAIN h = HistFields, NEW loc, NEW g, g = breakCycle(h, loc)
  PROVE  SameAll(g, h) /\ (loc = PASS_LOC => g = h)
<1>1. CASE g = h
  BY <1>1 DEF SameAll, SameGame, SameBlocks, SameHashes, SamePasses
<1>2. ASSUME NEW over, g = [h EXCEPT !.over = over] PROVE SameAll(g, h)
  BY <1>2 DEF SameAll, SameGame, SameBlocks, SameHashes, SamePasses, HistFields
<1>3. g = h \/ g = [h EXCEPT !.over = [[@ EXCEPT !.isNoResult = TRUE] EXCEPT !.isGameFinished = TRUE]]
  BY DEF breakCycle, HistFields
<1>4. loc = PASS_LOC => g = h
  BY DEF breakCycle
<1> QED
  BY <1>1, <1>2, <1>3, <1>4

LEMMA Scored ==
  ASSUME NEW h, NEW b, NEW turns, HistOK(h, b, turns), NEW score
  PROVE  LET g == endWithBoardScore(h, score) IN
         HistOK(g, b, turns) /\ g.over.isGameFinished = TRUE /\ g.encorePhase = h.encorePhase
<1> DEFINE g == endWithBoardScore(h, score)
           bonus == IF h.hasButton THEN h.whiteBonusScore + buttonBonus(h.presumedNextMovePla)
                    ELSE h.whiteBonusScore
           over == [setFinalScoreAndWinner(NotOver, 2 * score + bonus + h.rules.komi)
                      EXCEPT !.isScored = TRUE, !.isGameFinished = TRUE]
<1>1. g = [h EXCEPT !.hasButton = FALSE, !.whiteBonusScore = bonus, !.over = over]
  BY DEF endWithBoardScore
<1>2. over.isGameFinished = TRUE
  BY DEF setFinalScoreAndWinner, NotOver
<1>3. DOMAIN h = HistFields
  BY DEF HistOK
<1> HIDE DEF bonus, over, g
<1> DEFINE k == [h EXCEPT !.hasButton = FALSE]
<1>4. HistOK(k, b, turns)
  <2>1. /\ DOMAIN k = HistFields /\ NumbersOK(k) /\ k.firstTurnIdxWithKoHistory <= k.numMoves
    BY <1>3 DEF HistFields, HistOK, NumbersOK
  <2>2. k.encorePhase \in Nat /\ k.presumedNextMovePla \in Players /\ k.numMoves = h.numMoves
    BY <1>3 DEF HistFields, HistOK
  <2>3. BlocksOK(k, b)
    BY <1>3 DEF HistFields, HistOK, BlocksOK
  <2>4. ButtonOK(k)
    BY <1>3 DEF HistFields, ButtonOK
  <2>5. RingOK(k, turns)
    BY <1>3 DEF HistFields, HistOK, RingOK, getRecentBoard
  <2> QED
    BY <2>1, <2>2, <2>3, <2>4, <2>5 DEF HistOK
<1>5. SameAll(g, k) /\ g.over = over /\ g.encorePhase = h.encorePhase
  BY <1>1, <1>3 DEF SameAll, SameGame, SameBlocks, SameHashes, SamePasses, HistFields
<1> HIDE DEF k
<1>6. HistOK(g, b, turns) /\ g.over.isGameFinished = TRUE /\ g.encorePhase = h.encorePhase
  BY <1>2, <1>4, <1>5, SameIsOK
<1> QED
  BY <1>6 DEF g

\* g is h in the next phase.
PhaseAfter(g, h) == g.over = h.over /\ g.encorePhase = h.encorePhase + 1

LEMMA PhaseEntered ==
  ASSUME NEW h, NEW b, NEW turns, HistOK(h, b, turns), NEW pla
  PROVE  HistOK(nextPhase(h, b, pla), b, turns) /\ PhaseAfter(nextPhase(h, b, pla), h)
<1> SUFFICES ASSUME NEW g, g = nextPhase(h, b, pla)
             PROVE  HistOK(g, b, turns) /\ PhaseAfter(g, h)
  OBVIOUS
<1>1. DOMAIN h = HistFields /\ h.encorePhase \in Nat /\ h.numMoves \in Nat
  BY DEF HistOK, NumbersOK
<1> DEFINE hash == getKoHash(h.rules, b.pos_hash, getOpp(pla), h.encorePhase + 1, {})
<1>2. /\ DOMAIN g = HistFields /\ g.over = h.over /\ g.encorePhase = h.encorePhase + 1
      /\ g.numMoves = h.numMoves /\ g.presumedNextMovePla = h.presumedNextMovePla
      /\ g.recentBoards = h.recentBoards /\ g.currentRecentBoardIdx = h.currentRecentBoardIdx
  <2>1. DOMAIN g = HistFields
    BY <1>1, Zenon DEF nextPhase
  <2>2. g.over = h.over /\ g.numMoves = h.numMoves
        /\ g.presumedNextMovePla = h.presumedNextMovePla
    BY <1>1 DEF nextPhase, HistFields
  <2>3. g.encorePhase = h.encorePhase + 1
    BY <1>1 DEF nextPhase, HistFields
  <2>4. g.recentBoards = h.recentBoards /\ g.currentRecentBoardIdx = h.currentRecentBoardIdx
    BY <1>1 DEF nextPhase, HistFields
  <2> QED
    BY <2>1, <2>2, <2>3, <2>4
<1>3. /\ g.consecutiveEndingPasses = 0 /\ g.hashesBeforePass = NoPasses
      /\ g.koRecapBlocked = {} /\ g.koRecapBlockHash = {}
  BY <1>1 DEF nextPhase, HistFields, NoPasses
<1>4. g.koHashHistory = <<hash>> /\ g.firstTurnIdxWithKoHistory = h.numMoves
  BY <1>1 DEF nextPhase, HistFields
<1>5. NumbersOK(g) /\ g.firstTurnIdxWithKoHistory <= g.numMoves
  <2> HIDE DEF hash
  <2>1. <<hash>> \in Seq({hash}) /\ Len(<<hash>>) = 1
    OBVIOUS
  <2>2. \E S : g.koHashHistory \in Seq(S)
    BY <1>4, <2>1
  <2>3. Len(g.koHashHistory) = 1
    BY <1>4, <2>1
  <2> QED
    BY <1>1, <1>2, <1>4, <2>2, <2>3 DEF NumbersOK
<1>6. RingOK(g, turns)
  BY <1>2 DEF HistOK, RingOK, getRecentBoard
<1>7. BlocksOK(g, b) /\ ButtonOK(g)
  BY <1>3 DEF BlocksOK, ButtonOK
<1> QED
  BY <1>1, <1>2, <1>5, <1>6, <1>7 DEF HistOK, PhaseAfter

LEMMA PhaseEnded ==
  ASSUME NEW h, NEW b, NEW turns, HistOK(h, b, turns), NEW pla, NEW preventEncore, NEW g,
         g = endPhase(h, b, pla, preventEncore)
  PROVE  HistOK(g, b, turns)
<1>1. CASE isFinalPhase(h)
  <2>1. PICK score : g = endWithBoardScore(h, score)
    BY <1>1 DEF endPhase, endAndScoreGameNow
  <2> QED
    BY <2>1, Scored
<1>2. CASE ~isFinalPhase(h) /\ ~preventEncore
  <2>1. g = nextPhase(h, b, pla)
    BY <1>2 DEF endPhase
  <2> QED
    BY <2>1, PhaseEntered
<1>3. CASE ~isFinalPhase(h) /\ preventEncore
  <2>1. g = [h EXCEPT !.over.isPastNormalPhaseEnd = TRUE] /\ DOMAIN h = HistFields
    BY <1>3 DEF endPhase, HistOK
  <2>2. SameAll(g, h)
    BY <2>1 DEF SameAll, SameGame, SameBlocks, SameHashes, SamePasses, HistFields
  <2> QED
    BY <2>2, SameIsOK
<1> QED
  BY <1>1, <1>2, <1>3

\* A phase that is over ends the game or begins the next one.
PhaseEndedFrom(g, h) ==
  /\ isFinalPhase(h) => g.over.isGameFinished = TRUE /\ g.encorePhase = h.encorePhase
  /\ ~isFinalPhase(h) => PhaseAfter(g, h)

LEMMA PhaseEndedFreely ==
  ASSUME NEW h, NEW b, NEW turns, HistOK(h, b, turns), NEW pla
  PROVE  PhaseEndedFrom(endPhase(h, b, pla, FALSE), h)
<1> DEFINE g == endPhase(h, b, pla, FALSE)
<1>1. CASE isFinalPhase(h)
  <2>1. PICK score : g = endWithBoardScore(h, score)
    BY <1>1 DEF endPhase, endAndScoreGameNow
  <2>2. g.over.isGameFinished = TRUE
    BY <2>1, Scored
  <2>3. g.encorePhase = h.encorePhase
    BY <2>1, Scored
  <2> QED
    BY <1>1, <2>2, <2>3 DEF PhaseEndedFrom
<1>2. CASE ~isFinalPhase(h)
  <2>1. g = nextPhase(h, b, pla)
    BY <1>2 DEF endPhase
  <2>2. PhaseAfter(nextPhase(h, b, pla), h)
    BY PhaseEntered
  <2>3. PhaseAfter(g, h)
    BY <2>1, <2>2, Zenon
  <2> QED
    BY <1>2, <2>3 DEF PhaseEndedFrom
<1> QED
  BY <1>1, <1>2, Zenon

-----------------------------------------------------------------------------
(* A move                                                                  *)

Restarted(h) == [h EXCEPT !.over = NotOver]
Spightlike(h, b, loc, pla) ==
  /\ loc = PASS_LOC /\ ~h.hasButton
  /\ wouldBeSpightlikeEndingPass(h, pla, koHashNow(h, b, pla))

\* The move up to the counters, and the end of it.
PlayedFrom(h, b, loc, pla) ==
  playOnBoard(countPass(Restarted(h), b, loc, pla), b, loc, pla)
Recorded(h, b, loc, pla, wasPassForKo) ==
  chill(banSuperKo(rememberMove(h, b, loc, pla), b, getOpp(pla)), loc, pla, wasPassForKo)

LEMMA RestartedIsOK ==
  ASSUME NEW h, NEW b, NEW turns, HistOK(h, b, turns)
  PROVE  SameAll(Restarted(h), h) /\ Restarted(h).over = NotOver /\ HistOK(Restarted(h), b, turns)
<1>1. SameAll(Restarted(h), h) /\ Restarted(h).over = NotOver
  BY DEF HistOK, Restarted, SameAll, SameGame, SameBlocks, SameHashes, SamePasses, HistFields
<1> QED
  BY <1>1, SameIsOK

LEMMA PlayersTurn == \A pla \in Players : getOpp(pla) \in Players
BY DEF Players, getOpp, P_BLACK, P_WHITE

\* The history before the ends of phase and game.
LEMMA RecordedIsOK ==
  ASSUME NEW h, NEW b, NEW turns, HistOK(h, b, turns), NEW loc, NEW pla \in Players, NEW wasPassForKo,
         NEW played, played = PlayedFrom(h, b, loc, pla), NEW turn, turn.colors = played.board.colors,
         NEW g, g = Recorded(played.hist, played.board, loc, pla, wasPassForKo)
  PROVE  /\ HistOK(g, played.board, Append(turns, turn))
         /\ g.over = NotOver /\ g.encorePhase = h.encorePhase /\ g.rules = h.rules
         /\ loc = PASS_LOC /\ h.hasButton => g.consecutiveEndingPasses = 0
         /\ loc = PASS_LOC /\ ~h.hasButton =>
              g.consecutiveEndingPasses = newConsecutiveEndingPassesAfterPass(Restarted(h))
         /\ loc # PASS_LOC => g.consecutiveEndingPasses = 0
<1> DEFINE r == Restarted(h)
           p == countPass(r, b, loc, pla)
           q == played.hist
           c == played.board
           k == rememberMove(q, c, loc, pla)
           m == banSuperKo(k, c, getOpp(pla))
<1>1. HistOK(r, b, turns) /\ SameAll(r, h) /\ r.over = NotOver
  BY RestartedIsOK
<1>2. r.rules = h.rules /\ r.encorePhase = h.encorePhase /\ r.hasButton = h.hasButton
  BY <1>1 DEF SameAll, SameGame, SamePasses
<1>3. played = playOnBoard(p, b, loc, pla)
  BY DEF PlayedFrom
<1>4. DOMAIN r = HistFields /\ NumbersOK(r) /\ RingOK(r, turns) /\ Len(turns) = r.numMoves + 1
      /\ BlocksOK(r, b) /\ ButtonOK(r) /\ r.encorePhase \in Nat
      /\ r.firstTurnIdxWithKoHistory <= r.numMoves
  BY <1>1 DEF HistOK
<1> HIDE DEF r
<1>5. PassCountedFrom(p, r, loc)
  BY <1>4, PassCounted
<1> HIDE DEF p
<1>6. NumbersOK(p)
  <2>1. CASE SameHashes(p, r)
    BY <1>4, <1>5, <2>1 DEF PassCountedFrom, SameHashes, SameGame, NumbersOK
  <2>2. CASE p.koHashHistory = <<>> /\ p.firstTurnIdxWithKoHistory = r.numMoves + 1
    <3>1. <<>> \in Seq({}) /\ Len(<<>>) = 0
      OBVIOUS
    <3>2. \E S : p.koHashHistory \in Seq(S)
      BY <2>2, <3>1
    <3>3. Len(p.koHashHistory) = 0 /\ p.numMoves = r.numMoves /\ r.numMoves \in Nat
      BY <1>4, <1>5, <2>2, <3>1 DEF PassCountedFrom, SameGame, NumbersOK
    <3> QED
      BY <2>2, <3>2, <3>3 DEF NumbersOK
  <2> QED
    BY <1>5, <2>1, <2>2 DEF PassCountedFrom
<1>7. ButtonOK(p)
  BY <1>4, <1>5 DEF PassCountedFrom, ButtonOK
<1>8. DOMAIN p = HistFields /\ BlocksOK(p, b) /\ p.encorePhase \in Nat /\ p.rules = r.rules
      /\ p.encorePhase = r.encorePhase /\ p.numMoves = r.numMoves
  BY <1>4, <1>5 DEF PassCountedFrom, SameGame, SameBlocks, BlocksOK
<1>9. RingOK(p, turns)
  BY <1>4, <1>5 DEF PassCountedFrom, SameGame, RingOK, getRecentBoard
<1>10. /\ SameGame(q, p) /\ SameHashes(q, p) /\ SamePasses(q, p) /\ q.over = p.over
       /\ BlocksOK(q, c)
  BY <1>3, <1>8, PlayedOnBoard
<1> HIDE DEF q, c
<1>11. DOMAIN q = HistFields /\ NumbersOK(q) /\ q.numMoves = r.numMoves
       /\ q.encorePhase = p.encorePhase /\ q.rules = p.rules
  BY <1>6, <1>8, <1>10 DEF SameGame, SameHashes, NumbersOK
<1>12. RingOK(q, turns)
  BY <1>9, <1>10 DEF SameGame, RingOK, getRecentBoard
<1>13. PICK S : turns \in Seq(S)
  BY DEF HistOK
<1>14. /\ DOMAIN k = HistFields /\ k.rules = q.rules /\ k.encorePhase = q.encorePhase
       /\ SameBlocks(k, q) /\ SamePasses(k, q) /\ k.over = q.over
       /\ NumbersOK(k) /\ k.numMoves = q.numMoves + 1
       /\ k.firstTurnIdxWithKoHistory <= k.numMoves
       /\ k.presumedNextMovePla = getOpp(pla)
       /\ RingOK(k, Append(turns, turn))
  <2>1. turn.colors = c.colors
    BY DEF c
  <2> QED
    BY <1>4, <1>11, <1>12, <1>13, <2>1, Remembers
<1> HIDE DEF k
<1>15. HistOK(k, c, Append(turns, turn))
  <2>1. \E T : Append(turns, turn) \in Seq(T)
    <3>1. turns \in Seq(S \cup {turn}) /\ turn \in S \cup {turn}
      BY <1>13
    <3>2. Append(turns, turn) \in Seq(S \cup {turn})
      BY <3>1
    <3> QED
      BY <3>2
  <2>2. Len(Append(turns, turn)) = k.numMoves + 1
    BY <1>4, <1>11, <1>13, <1>14
  <2>3. BlocksOK(k, c) /\ ButtonOK(k)
    BY <1>7, <1>10, <1>14 DEF SameBlocks, SamePasses, BlocksOK, ButtonOK
  <2>4. k.presumedNextMovePla \in Players /\ k.encorePhase \in Nat
    BY <1>8, <1>11, <1>14, PlayersTurn
  <2> QED
    BY <1>14, <2>1, <2>2, <2>3, <2>4 DEF HistOK
<1>16. SameAll(m, k) /\ m.over = k.over
  BY <1>14, Banned
<1> HIDE DEF m
<1>17. DOMAIN m = HistFields /\ g = chill(m, loc, pla, wasPassForKo)
  BY <1>16 DEF SameAll, SameGame, Recorded, m, k, q, c
<1>18. SameAll(g, m) /\ g.over = m.over
  BY <1>17, Chilled
<1>19. HistOK(g, c, Append(turns, turn))
  BY <1>15, <1>16, <1>18, SameIsOK
<1>20. g.over = NotOver /\ g.encorePhase = h.encorePhase /\ g.rules = h.rules
  BY <1>1, <1>2, <1>5, <1>8, <1>10, <1>11, <1>14, <1>16, <1>18 DEF PassCountedFrom, SameAll, SameGame
<1>21. g.consecutiveEndingPasses = p.consecutiveEndingPasses
  BY <1>10, <1>14, <1>16, <1>18 DEF SameAll, SamePasses
<1> QED
  BY <1>2, <1>5, <1>19, <1>20, <1>21 DEF PassCountedFrom, r, c

LEMMA PhaseEndedIfPassed ==
  ASSUME NEW h, NEW b, NEW turns, HistOK(h, b, turns), NEW pla, NEW spightlike, NEW preventEncore
  PROVE  HistOK(endPhaseIfPassed(h, b, pla, spightlike, preventEncore), b, turns)
<1>1. CASE h.consecutiveEndingPasses >= 2 \/ spightlike
  <2>1. PICK g : g = endPhase(h, b, pla, preventEncore)
    OBVIOUS
  <2>2. HistOK(g, b, turns)
    BY <2>1, PhaseEnded
  <2> QED
    BY <1>1, <2>1, <2>2 DEF endPhaseIfPassed
<1>2. CASE ~(h.consecutiveEndingPasses >= 2 \/ spightlike)
  BY <1>2 DEF endPhaseIfPassed
<1> QED
  BY <1>1, <1>2

\* A move by its parts.
LEMMA MoveByParts ==
  ASSUME NEW h, NEW b, NEW loc, NEW pla, NEW preventEncore
  PROVE  LET played == PlayedFrom(h, b, loc, pla)
             wasPassForKo == passForKoLoc(Restarted(h), b, loc, pla) # NULL_LOC
             recorded == Recorded(played.hist, played.board, loc, pla, wasPassForKo)
         IN makeBoardMoveAssumeLegal(h, b, loc, pla, preventEncore) =
              [board |-> played.board,
               hist |-> breakCycle(endPhaseIfPassed(recorded, played.board, pla,
                                     Spightlike(Restarted(h), b, loc, pla), preventEncore), loc)]
BY Zenon DEF makeBoardMoveAssumeLegal, finishPlayed, finishMove, PlayedFrom, Recorded, Restarted, Spightlike

\* A move keeps the history true to the game.
LEMMA MoveIsOK ==
  ASSUME NEW h, NEW b, NEW turns, HistOK(h, b, turns), NEW loc, NEW pla \in Players,
         NEW preventEncore, NEW after, after = makeBoardMoveAssumeLegal(h, b, loc, pla, preventEncore),
         NEW turn, turn.colors = after.board.colors
  PROVE  HistOK(after.hist, after.board, Append(turns, turn))
<1> DEFINE spightlike == Spightlike(Restarted(h), b, loc, pla)
           wasPassForKo == passForKoLoc(Restarted(h), b, loc, pla) # NULL_LOC
<1>1. PICK played : played = PlayedFrom(h, b, loc, pla)
  OBVIOUS
<1>2. PICK recorded : recorded = Recorded(played.hist, played.board, loc, pla, wasPassForKo)
  OBVIOUS
<1>3. PICK ended : ended = endPhaseIfPassed(recorded, played.board, pla, spightlike, preventEncore)
  OBVIOUS
<1>4. after.board = played.board /\ after.hist = breakCycle(ended, loc)
  BY <1>1, <1>2, <1>3, MoveByParts
<1> HIDE DEF wasPassForKo, spightlike
<1>5. HistOK(recorded, played.board, Append(turns, turn))
  <2>1. turn.colors = played.board.colors
    BY <1>4
  <2> QED
    BY <1>1, <1>2, <2>1, RecordedIsOK
<1>6. HistOK(ended, played.board, Append(turns, turn))
  BY <1>3, <1>5, PhaseEndedIfPassed
<1>7. SameAll(after.hist, ended)
  <2>1. DOMAIN ended = HistFields
    BY <1>6 DEF HistOK
  <2> QED
    BY <1>4, <2>1, CycleBroken
<1> QED
  BY <1>4, <1>6, <1>7, SameIsOK

\* Only a pass ends a phase.
LEMMA PhaseStays ==
  ASSUME NEW h, NEW b, NEW turns, HistOK(h, b, turns), NEW loc, loc # PASS_LOC,
         NEW pla \in Players, NEW preventEncore
  PROVE  makeBoardMoveAssumeLegal(h, b, loc, pla, preventEncore).hist.encorePhase = h.encorePhase
<1> DEFINE spightlike == Spightlike(Restarted(h), b, loc, pla)
           wasPassForKo == passForKoLoc(Restarted(h), b, loc, pla) # NULL_LOC
<1>1. PICK played : played = PlayedFrom(h, b, loc, pla)
  OBVIOUS
<1>2. PICK recorded : recorded = Recorded(played.hist, played.board, loc, pla, wasPassForKo)
  OBVIOUS
<1>3. PICK ended : ended = endPhaseIfPassed(recorded, played.board, pla, spightlike, preventEncore)
  OBVIOUS
<1>4. PICK g : g = breakCycle(ended, loc)
  OBVIOUS
<1>5. makeBoardMoveAssumeLegal(h, b, loc, pla, preventEncore).hist = g
  BY <1>1, <1>2, <1>3, <1>4, MoveByParts
<1>6. spightlike = FALSE
  BY DEF Spightlike
<1> HIDE DEF wasPassForKo, spightlike
<1>7. PICK turn : turn.colors = played.board.colors
  <2>1. [colors |-> played.board.colors].colors = played.board.colors
    OBVIOUS
  <2> QED
    BY <2>1
<1>8. HistOK(recorded, played.board, Append(turns, turn))
  BY <1>1, <1>2, <1>7, RecordedIsOK
<1>9. recorded.encorePhase = h.encorePhase /\ recorded.consecutiveEndingPasses = 0
  BY <1>1, <1>2, <1>7, RecordedIsOK
<1>10. ended = recorded
  BY <1>3, <1>6, <1>9 DEF endPhaseIfPassed
<1>11. SameAll(g, ended)
  <2>1. DOMAIN ended = HistFields
    BY <1>8, <1>10 DEF HistOK
  <2> QED
    BY <1>4, <2>1, CycleBroken
<1> QED
  BY <1>5, <1>9, <1>10, <1>11 DEF SameAll, SameGame

\* g comes of a pass on h as foreseen.
Foreseen(h, b, pla, g) ==
  /\ passWouldEndGame(h, b, pla) = g.over.isGameFinished
  /\ passWouldEndPhase(h, b, pla) = (g.over.isGameFinished \/ g.encorePhase # h.encorePhase)

LEMMA PassIsForeseen ==
  ASSUME NEW h, NEW b, NEW turns, HistOK(h, b, turns), NEW pla \in Players
  PROVE  Foreseen(h, b, pla, makeBoardMoveAssumeLegal(h, b, PASS_LOC, pla, FALSE).hist)
<1> SUFFICES ASSUME NEW g, g = makeBoardMoveAssumeLegal(h, b, PASS_LOC, pla, FALSE).hist
             PROVE  Foreseen(h, b, pla, g)
  OBVIOUS
<1> DEFINE r == Restarted(h)
           spightlike == Spightlike(r, b, PASS_LOC, pla)
           wasPassForKo == passForKoLoc(r, b, PASS_LOC, pla) # NULL_LOC
<1>1. PICK played : played = PlayedFrom(h, b, PASS_LOC, pla)
  OBVIOUS
<1>2. PICK recorded : recorded = Recorded(played.hist, played.board, PASS_LOC, pla, wasPassForKo)
  OBVIOUS
<1>3. PICK ended : ended = endPhaseIfPassed(recorded, played.board, pla, spightlike, FALSE)
  OBVIOUS
<1>4. g = breakCycle(ended, PASS_LOC)
  BY <1>1, <1>2, <1>3, MoveByParts
<1>5. g = ended
  BY <1>4 DEF breakCycle
<1>6. SameAll(r, h)
  BY RestartedIsOK
<1> HIDE DEF wasPassForKo
<1>7. PICK turn : turn.colors = played.board.colors
  <2>1. [colors |-> played.board.colors].colors = played.board.colors
    OBVIOUS
  <2> QED
    BY <2>1
<1>8. HistOK(recorded, played.board, Append(turns, turn))
  BY <1>1, <1>2, <1>7, RecordedIsOK
<1>9. recorded.over = NotOver /\ recorded.encorePhase = h.encorePhase /\ recorded.rules = h.rules
  BY <1>1, <1>2, <1>7, RecordedIsOK
<1>10. h.hasButton => recorded.consecutiveEndingPasses = 0
  BY <1>1, <1>2, <1>7, RecordedIsOK
<1>11. ~h.hasButton => recorded.consecutiveEndingPasses = newConsecutiveEndingPassesAfterPass(r)
  BY <1>1, <1>2, <1>7, RecordedIsOK
<1>12. newConsecutiveEndingPassesAfterPass(r) = newConsecutiveEndingPassesAfterPass(h)
  BY <1>6 DEF SameAll, SameGame, SamePasses, newConsecutiveEndingPassesAfterPass
<1>13. spightlike <=> ~h.hasButton /\ wouldBeSpightlikeEndingPass(h, pla, koHashNow(h, b, pla))
  <2>1. /\ r.rules = h.rules /\ r.encorePhase = h.encorePhase
        /\ r.koRecapBlockHash = h.koRecapBlockHash /\ r.hashesBeforePass = h.hashesBeforePass
        /\ r.hasButton = h.hasButton
    BY <1>6 DEF SameAll, SameGame, SameBlocks, SamePasses
  <2> HIDE DEF r
  <2>2. koHashNow(r, b, pla) = koHashNow(h, b, pla)
    BY <2>1 DEF koHashNow
  <2> QED
    BY <2>1, <2>2 DEF Spightlike, wouldBeSpightlikeEndingPass,
                      phaseHasSpightlikeEndingAndPassHistoryClearing
<1>14. passWouldEndPhase(h, b, pla) <=> recorded.consecutiveEndingPasses >= 2 \/ spightlike
  <2>1. CASE h.hasButton
    <3>1. h.consecutiveEndingPasses = 0 /\ h.hashesBeforePass = NoPasses
      BY <2>1 DEF HistOK, ButtonOK
    <3>2. ~wouldBeSpightlikeEndingPass(h, pla, koHashNow(h, b, pla))
      BY <3>1 DEF wouldBeSpightlikeEndingPass, NoPasses
    <3>3. ~(newConsecutiveEndingPassesAfterPass(h) >= 2)
      BY <3>1 DEF newConsecutiveEndingPassesAfterPass
    <3> HIDE DEF spightlike
    <3> QED
      BY <1>10, <1>13, <2>1, <3>2, <3>3 DEF passWouldEndPhase
  <2>2. CASE ~h.hasButton
    <3> HIDE DEF spightlike, r
    <3> QED
      BY <1>11, <1>12, <1>13, <2>2 DEF passWouldEndPhase
  <2> QED
    BY <2>1, <2>2
<1>15. isFinalPhase(recorded) <=> isFinalPhase(h)
  BY <1>9 DEF isFinalPhase
<1> HIDE DEF spightlike
<1>16. CASE passWouldEndPhase(h, b, pla)
  <2>1. g = endPhase(recorded, played.board, pla, FALSE)
    BY <1>3, <1>5, <1>14, <1>16 DEF endPhaseIfPassed
  <2>2. PhaseEndedFrom(g, recorded)
    BY <1>8, <2>1, PhaseEndedFreely
  <2>3. NotOver.isGameFinished = FALSE /\ h.encorePhase \in Nat
    BY DEF NotOver, HistOK
  <2>4. CASE isFinalPhase(h)
    <3>1. g.over.isGameFinished = TRUE
      BY <1>15, <2>2, <2>4 DEF PhaseEndedFrom
    <3> QED
      BY <1>16, <2>4, <3>1 DEF passWouldEndGame, passWouldEndPhase, Foreseen
  <2>5. CASE ~isFinalPhase(h)
    <3>1. g.over = recorded.over /\ g.encorePhase = recorded.encorePhase + 1
      BY <1>15, <2>2, <2>5 DEF PhaseEndedFrom, PhaseAfter
    <3>2. g.over.isGameFinished = FALSE
      BY <1>9, <2>3, <3>1
    <3>3. g.encorePhase # h.encorePhase
      <4>1. recorded.encorePhase = h.encorePhase
        BY <1>9
      <4>2. h.encorePhase + 1 # h.encorePhase
        BY <2>3
      <4> QED
        BY <3>1, <4>1, <4>2
    <3> QED
      BY <1>16, <2>5, <3>2, <3>3 DEF passWouldEndGame, passWouldEndPhase, Foreseen
  <2> QED
    BY <2>4, <2>5
<1>17. CASE ~passWouldEndPhase(h, b, pla)
  <2>1. g = recorded
    BY <1>3, <1>5, <1>14, <1>17 DEF endPhaseIfPassed
  <2>2. g.over.isGameFinished = FALSE /\ g.encorePhase = h.encorePhase
    <3>1. NotOver.isGameFinished = FALSE
      BY DEF NotOver
    <3> QED
      BY <1>9, <2>1, <3>1
  <2> QED
    BY <1>17, <2>2 DEF passWouldEndGame, passWouldEndPhase, Foreseen
<1> QED
  BY <1>16, <1>17

-----------------------------------------------------------------------------
(* A new game and what is done to a game from outside                      *)

LEMMA GameStarted ==
  ASSUME NEW b, NEW pla \in Players, NEW rules
  PROVE  HistOK(clear(b, pla, rules), b, <<Turn(b, pla)>>)
<1> DEFINE hash == getKoHash(rules, b.pos_hash, pla, 0, {})
           turn == Turn(b, pla)
<1>1. PICK h : h = clear(b, pla, rules)
  OBVIOUS
<1>2. DOMAIN h = HistFields
  BY <1>1 DEF clear, HistFields
<1>3. /\ h.numMoves = 0 /\ h.koHashHistory = <<hash>> /\ h.firstTurnIdxWithKoHistory = 0
      /\ h.currentRecentBoardIdx = 0 /\ h.presumedNextMovePla = pla /\ h.encorePhase = 0
      /\ h.recentBoards = [i \in 0 .. NUM_RECENT_BOARDS - 1 |-> b.colors]
      /\ h.koRecapBlocked = {} /\ h.koRecapBlockHash = {}
      /\ h.consecutiveEndingPasses = 0 /\ h.hashesBeforePass = NoPasses
  BY <1>1 DEF clear, NoPasses
<1>4. turn.colors = b.colors
  BY DEF Turn
<1> HIDE DEF hash, turn
<1>5. NumbersOK(h) /\ h.firstTurnIdxWithKoHistory <= h.numMoves
  <2>1. <<hash>> \in Seq({hash}) /\ Len(<<hash>>) = 1
    OBVIOUS
  <2>2. \E S : h.koHashHistory \in Seq(S)
    BY <1>3, <2>1
  <2> QED
    BY <1>3, <2>1, <2>2 DEF NumbersOK
<1>6. /\ \E S : <<turn>> \in Seq(S)
      /\ Len(<<turn>>) = h.numMoves + 1
  <2>1. <<turn>> \in Seq({turn}) /\ Len(<<turn>>) = 1
    OBVIOUS
  <2> QED
    <3>1. \E S : <<turn>> \in Seq(S)
      BY <2>1
    <3>2. Len(<<turn>>) = h.numMoves + 1
      BY <1>3, <2>1
    <3> QED
      BY <3>1, <3>2
<1>7. RingOK(h, <<turn>>)
  <2>1. NUM_RECENT_BOARDS \in Nat \ {0}
    BY RecentAssumption DEF RecentAssumption
  <2>2. ASSUME NEW k \in 0 .. NUM_RECENT_BOARDS - 1
        PROVE  getRecentBoard(h, k) = <<turn>>[IF k < Len(<<turn>>) THEN Len(<<turn>>) - k ELSE 1].colors
    <3>1. (IF k < Len(<<turn>>) THEN Len(<<turn>>) - k ELSE 1) = 1
      <4>1. Len(<<turn>>) = 1
        OBVIOUS
      <4> QED
        BY <2>1, <4>1
    <3>2. <<turn>>[1] = turn
      OBVIOUS
    <3>3. PICK x : x = (0 - k + NUM_RECENT_BOARDS) % NUM_RECENT_BOARDS
      OBVIOUS
    <3>4. x \in 0 .. NUM_RECENT_BOARDS - 1
      <4>1. 0 \in 0 .. NUM_RECENT_BOARDS - 1
        BY <2>1
      <4>2. x = (IF k <= 0 THEN 0 - k ELSE 0 - k + NUM_RECENT_BOARDS)
        BY <2>1, <3>3, <4>1, Slot
      <4> QED
        BY <2>1, <4>2
    <3>5. getRecentBoard(h, k) = b.colors
      BY <1>3, <3>3, <3>4 DEF getRecentBoard
    <3> QED
      BY <1>4, <3>1, <3>2, <3>5
  <2>3. 0 \in 0 .. NUM_RECENT_BOARDS - 1
    BY <2>1
  <2> QED
    BY <1>3, <2>2, <2>3 DEF RingOK
<1>8. BlocksOK(h, b) /\ ButtonOK(h)
  BY <1>3 DEF BlocksOK, ButtonOK
<1>9. HistOK(h, b, <<turn>>)
  BY <1>2, <1>3, <1>5, <1>6, <1>7, <1>8 DEF HistOK
<1> QED
  BY <1>1, <1>9 DEF turn

LEMMA OverSet ==
  ASSUME NEW h, NEW b, NEW turns, HistOK(h, b, turns), NEW over
  PROVE  HistOK([h EXCEPT !.over = over], b, turns)
<1>1. SameAll([h EXCEPT !.over = over], h)
  BY DEF HistOK, SameAll, SameGame, SameBlocks, SameHashes, SamePasses, HistFields
<1> QED
  BY <1>1, SameIsOK

\* The komi is part of the rules, which nothing of the history depends on.
LEMMA KomiSet ==
  ASSUME NEW h, NEW b, NEW turns, HistOK(h, b, turns), NEW komi
  PROVE  HistOK(setKomi(h, komi), b, turns)
<1> DEFINE k == [h EXCEPT !.rules = [@ EXCEPT !.komi = komi]]
           score == h.over.finalWhiteMinusBlackScore - h.rules.komi + komi
           over == IF h.over.isGameFinished /\ h.over.isScored
                   THEN setFinalScoreAndWinner(h.over, score) ELSE h.over
<1>1. DOMAIN h = HistFields
  BY DEF HistOK
<1>2. setKomi(h, komi) = [k EXCEPT !.over = over]
  BY <1>1 DEF setKomi, HistFields
<1>3. HistOK(k, b, turns)
  <2>1. /\ DOMAIN k = HistFields /\ NumbersOK(k) /\ k.firstTurnIdxWithKoHistory <= k.numMoves
    BY <1>1 DEF HistFields, HistOK, NumbersOK
  <2>2. k.encorePhase \in Nat /\ k.presumedNextMovePla \in Players /\ k.numMoves = h.numMoves
    BY <1>1 DEF HistFields, HistOK
  <2>3. BlocksOK(k, b)
    BY <1>1 DEF HistFields, HistOK, BlocksOK
  <2>4. ButtonOK(k)
    BY <1>1 DEF HistFields, HistOK, ButtonOK
  <2>5. RingOK(k, turns)
    BY <1>1 DEF HistFields, HistOK, RingOK, getRecentBoard
  <2> QED
    BY <2>1, <2>2, <2>3, <2>4, <2>5 DEF HistOK
<1> HIDE DEF k, over
<1> QED
  BY <1>2, <1>3, OverSet

-----------------------------------------------------------------------------
(* The invariant                                                           *)

IInv == Editing \/ HistOK(hist, board, positions)

LEMMA NoGameHasNoFields == \A h : DOMAIN h = HistFields => h # NoGame
<1>1. DOMAIN NoGame = {}
  BY DEF NoGame
<1>2. "rules" \in HistFields
  BY DEF HistFields
<1> QED
  BY <1>1, <1>2

LEMMA StepKeepsHistory == IInv /\ [Next]_vars => IInv'
<1> SUFFICES ASSUME IInv, [Next]_vars PROVE IInv'
  OBVIOUS
<1>1. CASE UNCHANGED <<hist, board, positions>>
  BY <1>1 DEF IInv, Editing
<1>2. CASE Editing /\ UNCHANGED hist
  BY <1>2 DEF IInv, Editing
<1>3. ASSUME NEW pla \in Players, NEW rules, StartGame(pla, rules) PROVE IInv'
  <2>1. hist' = clear(board, pla, rules) /\ positions' = <<Turn(board, pla)>> /\ board' = board
    BY <1>3 DEF StartGame
  <2>2. HistOK(clear(board, pla, rules), board, <<Turn(board, pla)>>)
    BY GameStarted
  <2> QED
    BY <2>1, <2>2 DEF IInv
<1>4. ASSUME NEW loc, NEW preventEncore, MakeMove(loc, preventEncore) PROVE IInv'
  <2> DEFINE pla == hist.presumedNextMovePla
  <2>1. PICK after : after = makeBoardMoveAssumeLegal(hist, board, loc, pla, preventEncore)
    OBVIOUS
  <2>2. /\ board' = after.board /\ hist' = after.hist
        /\ positions' = Append(positions, Turn(after.board, after.hist.presumedNextMovePla))
    BY <1>4, <2>1 DEF MakeMove, Reach
  <2>3. HistOK(hist, board, positions)
    BY <1>4 DEF IInv, MakeMove, InGame
  <2>4. pla \in Players
    BY <2>3 DEF HistOK
  <2>5. Turn(after.board, after.hist.presumedNextMovePla).colors = after.board.colors
    BY DEF Turn
  <2> HIDE DEF pla
  <2>6. HistOK(after.hist, after.board, Append(positions, Turn(after.board, after.hist.presumedNextMovePla)))
    BY <2>1, <2>3, <2>4, <2>5, MoveIsOK
  <2> QED
    BY <2>2, <2>6 DEF IInv
<1>5. CASE EndIfAllPassAlive
  <2>1. HistOK(hist, board, positions) /\ UNCHANGED <<board, positions>>
    BY <1>5 DEF IInv, EndIfAllPassAlive, InGame
  <2>2. hist' = hist \/ \E score : hist' = endWithBoardScore(hist, score)
    BY <1>5 DEF EndIfAllPassAlive, endGameIfAllPassAlive, endIfAllOwned, endAndScoreGameNow
  <2>3. CASE hist' = hist
    BY <2>1, <2>3 DEF IInv
  <2>4. ASSUME NEW score, hist' = endWithBoardScore(hist, score) PROVE IInv'
    <3>1. HistOK(endWithBoardScore(hist, score), board, positions)
      BY <2>1, Scored
    <3> QED
      BY <2>1, <2>4, <3>1 DEF IInv
  <2> QED
    BY <2>2, <2>3, <2>4
<1>6. CASE ForceScore
  <2>1. HistOK(hist, board, positions) /\ UNCHANGED <<board, positions>>
    BY <1>6 DEF IInv, ForceScore, Meddle, InGame
  <2>2. PICK score : hist' = endWithBoardScore(hist, score)
    BY <1>6 DEF ForceScore, Meddle, endAndScoreGameNow
  <2>3. HistOK(endWithBoardScore(hist, score), board, positions)
    BY <2>1, Scored
  <2> QED
    BY <2>1, <2>2, <2>3 DEF IInv
<1>7. CASE Resign
  <2>1. HistOK(hist, board, positions) /\ UNCHANGED <<board, positions>>
    BY <1>7 DEF IInv, Resign, Meddle, InGame
  <2>2. PICK over : hist' = [hist EXCEPT !.over = over]
    BY <1>7 DEF Resign, Meddle, setWinnerByResignation
  <2>3. HistOK([hist EXCEPT !.over = over], board, positions)
    BY <2>1, OverSet
  <2> QED
    BY <2>1, <2>2, <2>3 DEF IInv
<1>8. CASE ChangeKomi
  <2>1. HistOK(hist, board, positions) /\ UNCHANGED <<board, positions>>
    BY <1>8 DEF IInv, ChangeKomi, Meddle, InGame
  <2>2. PICK komi \in Komis : hist' = setKomi(hist, komi)
    BY <1>8 DEF ChangeKomi, Meddle
  <2>3. HistOK(setKomi(hist, komi), board, positions)
    BY <2>1, KomiSet
  <2> QED
    BY <2>1, <2>2, <2>3 DEF IInv
<1>9. ASSUME NEW loc, NEW color, EditStone(loc, color) PROVE Editing /\ UNCHANGED hist
  BY <1>9 DEF EditStone, EditStep
<1>10. ASSUME NEW loc, NEW pla, PlayRecorded(loc, pla) PROVE Editing /\ UNCHANGED hist
  BY <1>10 DEF PlayRecorded, EditStep
<1>11. UndoMove => Editing /\ UNCHANGED hist
  BY DEF UndoMove
<1>12. Done \/ UNCHANGED vars => UNCHANGED <<hist, board, positions>>
  BY DEF Done, vars
<1> QED
  BY <1>1, <1>2, <1>3, <1>4, <1>5, <1>6, <1>7, <1>8, <1>9, <1>10, <1>11, <1>12 DEF Next

-----------------------------------------------------------------------------
(* What the invariant says                                                 *)

\* HistOK says that there is a hash for each remembered position, that the ring and
\* the blocks are right; that a pass is foreseen is PassIsForeseen.
LEMMA HistoryIsTold == IInv => HistoryTellsGame
<1> SUFFICES ASSUME IInv, ~Editing PROVE HistoryTellsGame
  BY DEF HistoryTellsGame
<1>1. HistOK(hist, board, positions)
  BY DEF IInv
<1>2. Len(hist.koHashHistory) = Len(Remembered)
  <2>1. PICK S : positions \in Seq(S)
    BY <1>1 DEF HistOK
  <2>2. PICK m, n : m = hist.firstTurnIdxWithKoHistory + 1 /\ n = Len(positions)
    OBVIOUS
  <2>3. m \in 1 .. n /\ n \in Nat /\ Len(hist.koHashHistory) = n - m + 1
    <3>1. /\ hist.numMoves \in Nat /\ hist.firstTurnIdxWithKoHistory \in 0 .. hist.numMoves + 1
          /\ Len(hist.koHashHistory) = hist.numMoves + 1 - hist.firstTurnIdxWithKoHistory
      BY <1>1 DEF HistOK, NumbersOK
    <3>2. Len(positions) = hist.numMoves + 1 /\ hist.firstTurnIdxWithKoHistory <= hist.numMoves
      BY <1>1 DEF HistOK
    <3>3. n = hist.numMoves + 1 /\ n \in Nat
      BY <2>2, <3>1, <3>2
    <3>4. m \in 1 .. n
      BY <2>2, <3>1, <3>2, <3>3
    <3>5. Len(hist.koHashHistory) = n - m + 1
      <4>1. PICK f, k, len : f = hist.firstTurnIdxWithKoHistory /\ k = hist.numMoves
                             /\ len = Len(hist.koHashHistory)
        OBVIOUS
      <4>2. f \in 0 .. k + 1 /\ k \in Nat /\ len = k + 1 - f /\ m = f + 1 /\ n = k + 1
        BY <2>2, <3>1, <3>3, <4>1
      <4>3. len = n - m + 1
        BY <4>2
      <4> QED
        BY <4>1, <4>3
    <3> QED
      BY <3>3, <3>4, <3>5
  <2>4. Len(SubSeq(positions, m, n)) = n - m + 1
    BY <2>1, <2>2, <2>3
  <2> QED
    BY <2>2, <2>3, <2>4 DEF Remembered
<1>3. RingTellsGame
  BY <1>1 DEF HistOK, RingOK, RingTellsGame
<1>4. /\ \A l \in hist.koRecapBlocked : board.colors[l] # C_EMPTY
      /\ hist.koRecapBlockHash = hist.koRecapBlocked
  BY <1>1 DEF HistOK, BlocksOK
<1>5. ASSUME NEW pla, pla = hist.presumedNextMovePla
      PROVE  PassForeseen(pla, makeBoardMoveAssumeLegal(hist, board, PASS_LOC, pla, FALSE).hist)
  <2>1. pla \in Players
    BY <1>1, <1>5 DEF HistOK
  <2>2. PICK g : g = makeBoardMoveAssumeLegal(hist, board, PASS_LOC, pla, FALSE).hist
    OBVIOUS
  <2>3. Foreseen(hist, board, pla, g)
    BY <1>1, <2>1, <2>2, PassIsForeseen
  <2>4. PassForeseen(pla, g)
    BY <2>3 DEF Foreseen, PassForeseen
  <2> QED
    BY <2>2, <2>4
<1> QED
  BY <1>2, <1>3, <1>4, <1>5 DEF HistoryTellsGame

\* HistoryTellsGame, of every reachable state: however a game goes on, with passes, the
\* button, ko recaptures and encores, moves after its end, resignations, new komis and
\* forced scoring, the history of boardhistory.cpp keeps a hash for each remembered
\* position, the ring of recent boards and the blocks of the encore right, and foretells
\* what a pass does.
THEOREM HistoryTellsGameAlways == Spec => []HistoryTellsGame
<1>1. Init => IInv
  BY DEF Init, IInv, Editing
<1>2. IInv /\ [Next]_vars => IInv'
  BY StepKeepsHistory
<1>3. IInv => HistoryTellsGame
  BY HistoryIsTold
<1> QED
  BY <1>1, <1>2, <1>3, PTL DEF Spec

-----------------------------------------------------------------------------
(* The board of a game                                                     *)

\* What a step leaves of the board: every chain lives, and the points are the same.
LivesOnAs(n, b) == Living(n) /\ Locs(n) = Locs(b) /\ n.x_size = b.x_size

LEMMA PassLives ==
  ASSUME NEW b, Living(b), NEW n, n = clearSimpleKoLoc(b)
  PROVE  LivesOnAs(n, b) /\ GamePass(b, n) /\ n.ko_loc = NULL_LOC
<1>1. /\ Living(n) /\ Locs(n) = Locs(b) /\ n.x_size = b.x_size /\ n.ko_loc = NULL_LOC
      /\ n.colors = b.colors /\ n.captures = b.captures
  BY LivesWithoutKo
<1> QED
  BY <1>1 DEF LivesOnAs, GamePass

LEMMA StoneLives ==
  ASSUME NEW b, Living(b), NEW loc \in Locs(b), b.colors[loc] = C_EMPTY, loc # b.ko_loc,
         NEW pla \in Players, NEW legal, ~isIllegalSuicide(b, loc, pla, legal),
         NEW n, n = playMoveAssumeLegal(b, loc, pla)
  PROVE  LivesOnAs(n, b) /\ GamePlay(b, n, loc, pla)
<1>1. loc # PASS_LOC /\ GoodBoard(b)
  BY DEF Living, PointsOK
<1>2. PICK c : Plays(b, c, n, loc, pla)
  BY <1>1, PlayIsExact
<1>3. Living(n) /\ Locs(n) = Locs(b) /\ n.x_size = b.x_size
  BY <1>2, PlayLives
<1>4. Suicide(c, loc) # {loc}
  <2>1. /\ isSuicide(b, loc, pla) <=> Suicide(c, loc) # {}
        /\ Suicide(c, loc) = {loc} => \A any : isIllegalSuicide(b, loc, pla, any)
    BY <1>2, SuicideForeseen
  <2> QED
    BY <2>1
<1>5. \E d, m : /\ Plays(b, d, m, loc, pla) /\ Suicide(d, loc) # {loc}
                /\ n.colors = m.colors /\ n.captures = m.captures
                /\ n.ko_loc \in {m.ko_loc, NULL_LOC}
  BY <1>2, <1>4
<1> QED
  BY <1>3, <1>5 DEF LivesOnAs, GamePlay

\* In the encore the ban of a ko is lifted at once.
LEMMA BanIsLifted ==
  ASSUME NEW b, NEW c, LivesOnAs(c, b), NEW loc, NEW pla, GamePlay(b, c, loc, pla),
         NEW n, n = clearSimpleKoLoc(c)
  PROVE  LivesOnAs(n, b) /\ GamePlay(b, n, loc, pla) /\ n.ko_loc = NULL_LOC
<1>1. /\ Living(n) /\ Locs(n) = Locs(c) /\ n.x_size = c.x_size /\ n.ko_loc = NULL_LOC
      /\ n.colors = c.colors /\ n.captures = c.captures
  BY LivesWithoutKo DEF LivesOnAs
<1>2. PICK d, m : /\ Plays(b, d, m, loc, pla) /\ Suicide(d, loc) # {loc}
                  /\ c.colors = m.colors /\ c.captures = m.captures
  BY DEF GamePlay
<1>3. \E e, k : /\ Plays(b, e, k, loc, pla) /\ Suicide(e, loc) # {loc}
                /\ n.colors = k.colors /\ n.captures = k.captures
                /\ n.ko_loc \in {k.ko_loc, NULL_LOC}
  BY <1>1, <1>2
<1> QED
  BY <1>1, <1>3 DEF LivesOnAs, GamePlay

\* What a move of a game does to the board.
GameMove(b, n, h, loc, pla) ==
  /\ LivesOnAs(n, b) /\ (GamePass(b, n) \/ GamePlay(b, n, loc, pla))
  /\ (h.encorePhase > 0 \/ loc = PASS_LOC) => n.ko_loc = NULL_LOC

LEMMA BoardPlayed ==
  ASSUME NEW b, Living(b), NEW h, DOMAIN h = HistFields, h.encorePhase \in Nat,
         h.encorePhase > 0 => b.ko_loc = NULL_LOC,
         NEW loc, NEW pla \in Players, isLegalInHistory(h, b, loc, pla),
         NEW g, SameGame(g, h), SameBlocks(g, h), NEW n, n = playOnBoard(g, b, loc, pla).board
  PROVE  GameMove(b, n, h, loc, pla)
<1>1. PICK lifted, c : lifted = passForKoLoc(g, b, loc, pla) /\ c = playMoveAssumeLegal(b, loc, pla)
  OBVIOUS
<1>2. ASSUME n = clearSimpleKoLoc(b) PROVE GameMove(b, n, h, loc, pla)
  <2>1. LivesOnAs(n, b) /\ GamePass(b, n) /\ n.ko_loc = NULL_LOC
    BY <1>2, PassLives
  <2> QED
    BY <2>1 DEF GameMove
<1>3. CASE lifted # NULL_LOC
  BY <1>1, <1>2, <1>3 DEF playOnBoard
<1>4. CASE lifted = NULL_LOC /\ loc = PASS_LOC
  <2>1. c = clearSimpleKoLoc(b)
    BY <1>1, <1>4 DEF playMoveAssumeLegal
  <2>2. n = c \/ n = clearSimpleKoLoc(c)
    BY <1>1, <1>4 DEF playOnBoard, playUnblocked
  <2>3. LivesOnAs(c, b) /\ GamePass(b, c) /\ c.ko_loc = NULL_LOC
    BY <2>1, PassLives
  <2>4. CASE n = c
    BY <1>2, <2>1, <2>4
  <2>5. CASE n = clearSimpleKoLoc(c)
    <3>1. LivesOnAs(n, c) /\ GamePass(c, n) /\ n.ko_loc = NULL_LOC
      BY <2>3, <2>5, PassLives DEF LivesOnAs
    <3>2. LivesOnAs(n, b) /\ GamePass(b, n)
      BY <2>3, <3>1 DEF LivesOnAs, GamePass
    <3> QED
      BY <3>1, <3>2 DEF GameMove
  <2> QED
    BY <2>2, <2>4, <2>5
<1>5. CASE lifted = NULL_LOC /\ loc # PASS_LOC
  <2>1. g.koRecapBlocked = h.koRecapBlocked /\ g.encorePhase = h.encorePhase
    BY DEF SameGame, SameBlocks
  <2>2. PointsOK(b)
    BY DEF Living
  <2>3. ~isPassForKo(h, b, loc, pla)
    <3> SUFFICES ASSUME isPassForKo(h, b, loc, pla) PROVE lifted # NULL_LOC
      BY <1>5
    <3> DEFINE blocked(l) == l \in g.koRecapBlocked /\ b.colors[l] = getOpp(pla)
    <3>1. PICK k : k = getKoCaptureLoc(b, loc, pla)
      OBVIOUS
    <3>2. /\ h.encorePhase > 0 /\ loc \in Locs(b)
          /\ blocked(loc) \/ (k # NULL_LOC /\ blocked(k))
      BY <2>1, <3>1 DEF isPassForKo
    <3>3. lifted = IF blocked(loc) THEN loc
                   ELSE IF k # NULL_LOC /\ blocked(k) THEN k ELSE NULL_LOC
      BY <1>1, <1>5, <2>1, <3>1, <3>2 DEF passForKoLoc
    <3>4. loc # NULL_LOC
      BY <2>2, <3>2 DEF PointsOK
    <3> QED
      BY <3>2, <3>3, <3>4
  <2>4. PICK legal : legal = h.rules.multiStoneSuicideLegal
    OBVIOUS
  <2>5. /\ loc \in Locs(b) /\ b.colors[loc] = C_EMPTY /\ ~isIllegalSuicide(b, loc, pla, legal)
        /\ h.encorePhase > 0 \/ loc # b.ko_loc
    BY <1>5, <2>3, <2>4 DEF isLegalInHistory, isLegalIgnoringKo, isKoBanned
  <2>6. loc # b.ko_loc
    BY <2>2, <2>5 DEF PointsOK
  <2>7. LivesOnAs(c, b) /\ GamePlay(b, c, loc, pla)
    BY <1>1, <2>5, <2>6, StoneLives
  <2>8. CASE h.encorePhase > 0
    <3>1. n = clearSimpleKoLoc(c)
      BY <1>1, <1>5, <2>1, <2>8 DEF playOnBoard, playUnblocked
    <3>2. LivesOnAs(n, b) /\ GamePlay(b, n, loc, pla) /\ n.ko_loc = NULL_LOC
      BY <2>7, <3>1, BanIsLifted
    <3> QED
      BY <3>2 DEF GameMove
  <2>9. CASE ~(h.encorePhase > 0)
    <3>1. n = c
      BY <1>1, <1>5, <2>1, <2>9 DEF playOnBoard, playUnblocked
    <3> QED
      BY <1>5, <2>7, <2>9, <3>1 DEF GameMove
  <2> QED
    BY <2>8, <2>9
<1> QED
  BY <1>3, <1>4, <1>5

\* A board of a game has no ban of a ko in the encore.
KoOK(h, b) == h.encorePhase > 0 => b.ko_loc = NULL_LOC

LEMMA MoveLives ==
  ASSUME NEW b, Living(b), NEW h, KoOK(h, b), NEW turns, HistOK(h, b, turns), NEW loc,
         NEW pla \in Players, isLegalInHistory(h, b, loc, pla), NEW preventEncore,
         NEW after, after = makeBoardMoveAssumeLegal(h, b, loc, pla, preventEncore)
  PROVE  /\ LivesOnAs(after.board, b) /\ KoOK(after.hist, after.board)
         /\ GamePass(b, after.board) \/ GamePlay(b, after.board, loc, pla)
<1>1. PICK r, g, n : r = Restarted(h) /\ g = countPass(r, b, loc, pla) /\ n = after.board
  OBVIOUS
<1>2. SameAll(r, h) /\ DOMAIN r = HistFields
  BY <1>1, RestartedIsOK DEF HistOK
<1>3. SameGame(g, r) /\ SameBlocks(g, r)
  BY <1>1, <1>2, PassCounted DEF PassCountedFrom
<1>4. SameGame(g, h) /\ SameBlocks(g, h)
  BY <1>2, <1>3 DEF SameAll, SameGame, SameBlocks
<1>5. n = playOnBoard(g, b, loc, pla).board
  <2>1. n = PlayedFrom(h, b, loc, pla).board
    BY <1>1, MoveByParts
  <2> QED
    BY <1>1, <2>1 DEF PlayedFrom
<1>6. DOMAIN h = HistFields /\ h.encorePhase \in Nat
  BY DEF HistOK
<1>7. GameMove(b, n, h, loc, pla)
  BY <1>4, <1>5, <1>6, BoardPlayed DEF KoOK
<1>8. KoOK(after.hist, n)
  <2>1. CASE loc = PASS_LOC
    BY <1>7, <2>1 DEF GameMove, KoOK
  <2>2. CASE loc # PASS_LOC
    <3>1. after.hist.encorePhase = h.encorePhase
      BY <2>2, PhaseStays
    <3> QED
      BY <1>7, <3>1 DEF GameMove, KoOK
  <2> QED
    BY <2>1, <2>2
<1> QED
  BY <1>1, <1>7, <1>8 DEF GameMove

-----------------------------------------------------------------------------
(* The invariant of the board                                              *)

BoardInv == Living(board) /\ (Editing \/ KoOK(hist, board))

\* A step of GoRules, or none.
RulesStep == R!Next \/ UNCHANGED R!rulesVars

LEMMA InitIsOK == Init => BoardInv /\ R!Init
<1> SUFFICES ASSUME Init PROVE BoardInv /\ R!Init
  OBVIOUS
<1>1. PICK b : b = EmptyBoard(setup.x_size, setup.y_size)
  OBVIOUS
<1>2. /\ setup.x_size \in Nat \ {0} /\ setup.y_size \in Nat \ {0}
      /\ setup.stones \in Seq(Locs(b) \X ({C_EMPTY} \cup Players))
  BY <1>1, SetupAssumption DEF Init
<1>3. Living(b) /\ b.ko_loc = NULL_LOC
  BY <1>1, <1>2, EmptyBoardIsOK
<1>4. PICK N \in Nat : Len(setup.stones) = N
  BY <1>2
<1>5. \A i \in 1 .. N : setup.stones[i][1] \in Locs(b) /\ setup.stones[i][2] \in 0 .. 2
  <2> SUFFICES ASSUME NEW i \in 1 .. N
               PROVE  setup.stones[i][1] \in Locs(b) /\ setup.stones[i][2] \in 0 .. 2
    OBVIOUS
  <2>1. setup.stones[i] \in Locs(b) \X ({C_EMPTY} \cup Players)
    BY <1>2, <1>4
  <2> QED
    BY <2>1 DEF C_EMPTY, Players, P_BLACK, P_WHITE
<1>6. PICK n : n = setStones(b, setup.stones)
  OBVIOUS
<1>7. Living(n) /\ n.ko_loc = NULL_LOC
  BY <1>3, <1>4, <1>5, <1>6, SetStonesIsOK
<1>8. board = n
  BY <1>1, <1>6 DEF Init
<1>9. BoardInv
  BY <1>7, <1>8 DEF BoardInv, Init, Editing
<1>10. \A l \in DOMAIN board.colors : board.colors[l] # 0 => R!Liberties(board.colors, l) # {}
  <2> SUFFICES ASSUME NEW l \in DOMAIN board.colors, board.colors[l] # 0
               PROVE  R!Liberties(board.colors, l) # {}
    OBVIOUS
  <2>1. l \in Stones(board)
    BY DEF Stones, Locs, C_EMPTY
  <2>2. PICK C : C = Chain(board, board.chain_head[l])
    OBVIOUS
  <2>3. GoodBoard(board) /\ LibsOf(board, C) # {}
    BY <1>7, <1>8, <2>1, <2>2 DEF Living
  <2>4. R!Liberties(board.colors, l) = LibsOf(board, C)
    BY <2>1, <2>2, <2>3, LibertiesOfChain
  <2> QED
    BY <2>3, <2>4
<1>11. R!Init
  BY <1>7, <1>8, <1>10 DEF R!Init, Init, NULL_LOC
<1> QED
  BY <1>9, <1>11

LEMMA EditStoneIsOK ==
  ASSUME BoardInv, NEW loc \in Locs(board), NEW color \in {C_EMPTY} \cup Players,
         EditStone(loc, color)
  PROVE  BoardInv' /\ RulesStep
<1>1. color \in 0 .. 2
  BY DEF C_EMPTY, Players, P_BLACK, P_WHITE
<1>2. PICK n : n = setStone(board, loc, color)
  OBVIOUS
<1>3. /\ Living(n) /\ Locs(n) = Locs(board) /\ n.x_size = board.x_size /\ n.ko_loc = NULL_LOC
      /\ Edits(board, n, loc, color)
  BY <1>1, <1>2, SetStoneIsExact DEF BoardInv
<1>4. board' = n /\ past' = past /\ Editing'
  BY <1>2 DEF EditStone, EditStep, Editing
<1>5. BoardInv'
  BY <1>3, <1>4 DEF BoardInv
<1>6. /\ Living(board) /\ board'.x_size = board.x_size /\ board'.ko_loc = NULL_LOC
      /\ Edits(board, board', loc, color)
  BY <1>3, <1>4 DEF BoardInv
<1>7. R!Next
  BY <1>1, <1>4, <1>6, EditRefines
<1> QED
  BY <1>5, <1>7 DEF RulesStep

LEMMA PlayRecordedIsOK ==
  ASSUME BoardInv, NEW loc, NEW pla \in Players, PlayRecorded(loc, pla)
  PROVE  BoardInv' /\ RulesStep
<1>1. PICK n : n = playMoveAssumeLegal(board, loc, pla)
  OBVIOUS
<1>2. board' = n /\ past' = Append(past, PositionOf(board)) /\ Editing'
  BY <1>1 DEF PlayRecorded, EditStep, Editing
<1>3. R!Record
  BY <1>2 DEF R!Record, PositionOf
<1>4. CASE loc = PASS_LOC
  <2>1. n = clearSimpleKoLoc(board)
    BY <1>1, <1>4 DEF playMoveAssumeLegal
  <2>2. LivesOnAs(n, board) /\ GamePass(board, n)
    BY <2>1, PassLives DEF BoardInv
  <2>3. R!Next
    BY <1>2, <1>3, <2>2, PassRefines DEF LivesOnAs
  <2> QED
    BY <1>2, <2>2, <2>3 DEF BoardInv, LivesOnAs, RulesStep
<1>5. CASE loc # PASS_LOC
  <2>1. /\ loc \in Locs(board) /\ board.colors[loc] = C_EMPTY /\ loc # board.ko_loc
        /\ ~isIllegalSuicide(board, loc, pla, TRUE)
    BY <1>5 DEF PlayRecorded, isLegal, isLegalIgnoringKo, isKoBanned
  <2>2. LivesOnAs(n, board) /\ GamePlay(board, n, loc, pla)
    BY <1>1, <2>1, StoneLives DEF BoardInv
  <2>3. R!Next
    <3>1. Living(board) /\ board'.x_size = board.x_size /\ GamePlay(board, board', loc, pla)
      BY <1>2, <2>2 DEF BoardInv, LivesOnAs
    <3> QED
      BY <1>3, <3>1, PlayRefines
  <2> QED
    BY <1>2, <2>2, <2>3 DEF BoardInv, LivesOnAs, RulesStep
<1> QED
  BY <1>4, <1>5

LEMMA MakeMoveIsOK ==
  ASSUME IInv, BoardInv, NEW loc, NEW preventEncore, MakeMove(loc, preventEncore)
  PROVE  BoardInv' /\ RulesStep
<1>1. PICK pla : pla = hist.presumedNextMovePla
  OBVIOUS
<1>2. HistOK(hist, board, positions) /\ KoOK(hist, board) /\ past' = past
  BY DEF IInv, BoardInv, MakeMove, InGame
<1>3. pla \in Players
  BY <1>1, <1>2 DEF HistOK
<1>4. PICK after : after = makeBoardMoveAssumeLegal(hist, board, loc, pla, preventEncore)
  OBVIOUS
<1>5. isLegalInHistory(hist, board, loc, pla) /\ board' = after.board /\ hist' = after.hist
  BY <1>1, <1>4 DEF MakeMove, Reach
<1>6. /\ LivesOnAs(after.board, board) /\ KoOK(after.hist, after.board)
      /\ GamePass(board, after.board) \/ GamePlay(board, after.board, loc, pla)
  BY <1>2, <1>3, <1>4, <1>5, MoveLives DEF BoardInv
<1>7. BoardInv'
  BY <1>5, <1>6 DEF BoardInv, LivesOnAs
<1>8. R!Record /\ Living(board) /\ board'.x_size = board.x_size
  BY <1>2, <1>5, <1>6 DEF R!Record, BoardInv, LivesOnAs
<1>9. CASE GamePass(board, board')
  BY <1>7, <1>8, <1>9, PassRefines DEF RulesStep
<1>10. CASE GamePlay(board, board', loc, pla)
  BY <1>3, <1>7, <1>8, <1>10, PlayRefines DEF RulesStep
<1> QED
  BY <1>5, <1>6, <1>9, <1>10

\* What is done to the history alone keeps the phase.
LEMMA PhaseKept ==
  ASSUME IInv, EndIfAllPassAlive \/ ForceScore \/ Resign \/ ChangeKomi
  PROVE  hist'.encorePhase = hist.encorePhase
<1>1. HistOK(hist, board, positions)
  BY DEF IInv, EndIfAllPassAlive, ForceScore, Resign, ChangeKomi, Meddle, InGame
<1>2. DOMAIN hist = HistFields
  BY <1>1 DEF HistOK
<1>3. ASSUME NEW score, hist' = endWithBoardScore(hist, score)
      PROVE  hist'.encorePhase = hist.encorePhase
  <2>1. endWithBoardScore(hist, score).encorePhase = hist.encorePhase
    BY <1>1, Scored
  <2> QED
    BY <1>3, <2>1
<1>4. CASE EndIfAllPassAlive
  <2>1. hist' = hist \/ \E score : hist' = endWithBoardScore(hist, score)
    BY <1>4 DEF EndIfAllPassAlive, endGameIfAllPassAlive, endIfAllOwned, endAndScoreGameNow
  <2> QED
    BY <1>3, <2>1
<1>5. CASE ForceScore
  <2>1. \E score : hist' = endWithBoardScore(hist, score)
    BY <1>5 DEF ForceScore, Meddle, endAndScoreGameNow
  <2> QED
    BY <1>3, <2>1
<1>6. CASE Resign
  <2>1. PICK over : hist' = [hist EXCEPT !.over = over]
    BY <1>6 DEF Resign, Meddle, setWinnerByResignation
  <2> QED
    BY <1>2, <2>1 DEF HistFields
<1>7. CASE ChangeKomi
  <2>1. PICK komi : hist' = setKomi(hist, komi)
    BY <1>7 DEF ChangeKomi, Meddle
  <2>2. setKomi(hist, komi).encorePhase = hist.encorePhase
    BY <1>2 DEF setKomi, HistFields
  <2> QED
    BY <2>1, <2>2
<1> QED
  BY <1>4, <1>5, <1>6, <1>7

LEMMA StepIsOK ==
  IInv /\ BoardInv /\ [Next]_vars /\ [~UndoMove]_vars => BoardInv' /\ RulesStep
<1> SUFFICES ASSUME IInv, BoardInv, [Next]_vars, [~UndoMove]_vars PROVE BoardInv' /\ RulesStep
  OBVIOUS
<1>1. ASSUME UNCHANGED <<board, past>>, Editing' \/ (~Editing /\ hist'.encorePhase = hist.encorePhase)
                                         \/ hist'.encorePhase = 0
      PROVE  BoardInv' /\ RulesStep
  <2>1. BoardInv'
    BY <1>1 DEF BoardInv, KoOK
  <2>2. UNCHANGED R!rulesVars
    BY <1>1 DEF R!rulesVars
  <2> QED
    BY <2>1, <2>2 DEF RulesStep
<1>2. CASE UNCHANGED vars
  BY <1>1, <1>2 DEF vars, Editing
<1>3. ASSUME NEW loc \in Locs(board), NEW color \in {C_EMPTY} \cup Players, EditStone(loc, color)
      PROVE  BoardInv' /\ RulesStep
  BY <1>3, EditStoneIsOK
<1>4. ASSUME NEW loc, NEW pla \in Players, PlayRecorded(loc, pla)
      PROVE  BoardInv' /\ RulesStep
  BY <1>4, PlayRecordedIsOK
<1>5. ASSUME NEW loc, NEW preventEncore, MakeMove(loc, preventEncore)
      PROVE  BoardInv' /\ RulesStep
  BY <1>5, MakeMoveIsOK
<1>6. ASSUME NEW pla, NEW rules, StartGame(pla, rules) PROVE BoardInv' /\ RulesStep
  <2>1. clear(board, pla, rules).encorePhase = 0
    BY DEF clear
  <2>2. hist'.encorePhase = 0 /\ UNCHANGED <<board, past>>
    BY <1>6, <2>1 DEF StartGame
  <2> QED
    BY <1>1, <2>2
<1>7. CASE EndIfAllPassAlive \/ ForceScore \/ Resign \/ ChangeKomi
  <2>1. UNCHANGED <<board, past>> /\ ~Editing
    BY <1>7 DEF EndIfAllPassAlive, ForceScore, Resign, ChangeKomi, Meddle, InGame
  <2>2. hist'.encorePhase = hist.encorePhase
    BY <1>7, PhaseKept
  <2> QED
    BY <1>1, <2>1, <2>2
<1>8. Done => UNCHANGED vars
  BY DEF Done
<1>9. ~UndoMove \/ UNCHANGED vars
  OBVIOUS
<1> QED
  BY <1>2, <1>3, <1>4, <1>5, <1>6, <1>7, <1>8, <1>9 DEF Next

\* ChainsAreGroups, of every board that is reached without taking a recorded move back:
\* however stones are set, removed and played, on a board of any size, every stone stays
\* in the list of exactly its group, the head of a chain counts its stones and its
\* liberties, and the hash is that of the stones.
THEOREM ChainsAreGroupsUnlessUndone == Spec /\ [][~UndoMove]_vars => []ChainsAreGroups
<1>1. Init => IInv /\ BoardInv
  BY InitIsOK DEF Init, IInv, Editing
<1>2. IInv /\ BoardInv /\ [Next]_vars /\ [~UndoMove]_vars => (IInv /\ BoardInv)'
  BY StepKeepsHistory, StepIsOK
<1>3. BoardInv => ChainsAreGroups
  BY GoodChainsAreGroups DEF BoardInv, Living
<1> QED
  BY <1>1, <1>2, <1>3, PTL DEF Spec

\* RefinesRules, of every behaviour that takes no recorded move back: on a board of any
\* size, what playMoveAssumeLegal and setStone capture, where a ko ban falls, how the
\* captured stones are counted, and that no move leaves a stone without a liberty, is
\* what the rules of Go say of the stones alone, in a game (passes for ko and encores
\* included) as well as in an edited position.
THEOREM RefinesRulesUnlessUndone == Spec /\ [][~UndoMove]_vars => RefinesRules
<1>1. Init => IInv /\ BoardInv /\ R!Init
  BY InitIsOK DEF Init, IInv, Editing
<1>2. IInv /\ BoardInv /\ [Next]_vars /\ [~UndoMove]_vars => (IInv /\ BoardInv)' /\ RulesStep
  BY StepKeepsHistory, StepIsOK
<1>3. RulesStep => [R!Next]_(R!rulesVars)
  BY DEF RulesStep
<1> QED
  BY <1>1, <1>2, <1>3, PTL DEF Spec, RefinesRules, R!Spec
=============================================================================
