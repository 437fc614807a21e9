------------------------------ MODULE GoRules ------------------------------
(***************************************************************************)
(* What a Go board promises, with no data structure at all: the stones,    *)
(* the point a simple ko forbids, and the counts of captured stones.  A    *)
(* group and its liberties are computed from the stones alone.  The        *)
(* incremental board of game/board.cpp is shown to implement this.         *)
(***************************************************************************)
EXTENDS Integers, Sequences, FiniteSets

VARIABLES
  width,    \* number of columns
  stones,   \* point -> 0 (empty), 1 (black) or 2 (white)
  ko,       \* the point of the ko ban, 0 if none
  captures, \* player -> number of his stones that were captured
  past      \* the positions that recorded moves were made in, to undo them

rulesVars == <<width, stones, ko, captures, past>>

Neighbours(l) == {l - (width + 1), l - 1, l + 1, l + (width + 1)} \cap DOMAIN stones

Group(s, l) ==
  LET grown[S \in SUBSET DOMAIN s] ==
        LET more == {m \in (UNION {Neighbours(k) : k \in S}) \ S : \E k \in S : s[k] = s[m]} IN
        IF more = {} THEN S ELSE grown[S \cup more]
  IN grown[{l}]
Liberties(s, l) == {m \in UNION {Neighbours(k) : k \in Group(s, l)} : s[m] = 0}

Without(s, S) == [l \in DOMAIN s |-> IF l \in S THEN 0 ELSE s[l]]

\* The stones a move takes, and the stones left after captures and suicide.
Move(s, l, p) ==
  LET placed == [s EXCEPT ![l] = p]
      taken  == {m \in DOMAIN s : placed[m] = 3 - p /\ Liberties(placed, m) = {}}
      left   == Without(placed, taken)
      dead   == IF Liberties(left, l) = {} THEN Group(left, l) ELSE {}
      isKo   == Cardinality(taken) = 1 /\ Group(left, l) = {l}
                  /\ Cardinality(Liberties(left, l)) = 1
  IN [stones |-> Without(left, dead), taken |-> taken, dead |-> dead,
      ko |-> IF isKo THEN CHOOSE m \in taken : TRUE ELSE 0]

Count(move, p) == [q \in {1, 2} |-> captures[q] + (IF q = p THEN Cardinality(move.dead)
                                                   ELSE Cardinality(move.taken))]

Record == past' = past \/ past' = Append(past, [stones |-> stones, ko |-> ko,
                                               captures |-> captures])

\* A move on an empty point that the ko ban does not forbid; the stone may not be
\* a lone suicide.  In an encore the ban is lifted at once.
Play(l, p) ==
  LET move == Move(stones, l, p) IN
  /\ stones[l] = 0 /\ l # ko /\ move.dead # {l}
  /\ stones' = move.stones
  /\ ko' \in {move.ko, 0}
  /\ captures' = Count(move, p)
  /\ Record

Pass == ko' = 0 /\ Record /\ UNCHANGED <<stones, captures>>

Undo ==
  /\ past # <<>>
  /\ LET last == past[Len(past)] IN
     stones' = last.stones /\ ko' = last.ko /\ captures' = last.captures
  /\ past' = SubSeq(past, 1, Len(past) - 1)

\* An edit: a stone is taken away without being captured, and a stone that would
\* replace an opponent's is only set if it lives or captures.
SetStone(l, c) ==
  LET base == Without(stones, {l})
      move == Move(base, l, c)
      set  == c # 0 /\ (stones[l] = 0 \/ move.dead = {})
  IN /\ ko' = 0
     /\ IF stones[l] = c THEN UNCHANGED <<stones, captures>>
        ELSE /\ stones' = IF set THEN move.stones ELSE base
             /\ captures' = IF set THEN Count(move, c) ELSE captures
     /\ UNCHANGED past

Init == /\ \A l \in DOMAIN stones : stones[l] # 0 => Liberties(stones, l) # {}
        /\ ko = 0
        /\ past = <<>>

Next == /\ UNCHANGED width
        /\ \/ \E l \in DOMAIN stones, p \in {1, 2} : Play(l, p)
           \/ Pass
           \/ Undo
           \/ \E l \in DOMAIN stones, c \in {0, 1, 2} : SetStone(l, c)

Spec == Init /\ [][Next]_rulesVars
=============================================================================
