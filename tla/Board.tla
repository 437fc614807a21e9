------------------------------- MODULE Board -------------------------------
(***************************************************************************)
(* The Go board of game/board.cpp: an incrementally maintained             *)
(* representation of the stones.  Every chain of stones has a head, a      *)
(* circular list of its stones, and at the head the number of its stones   *)
(* and liberties; the Zobrist hash of the position is updated with every   *)
(* stone.  A move, an undo or an edit only touches the chains around it.   *)
(*                                                                         *)
(* A board is a record; every operation is an operator from a board to a   *)
(* board.  Off-board points (C_WALL) are neither empty nor of a player, so *)
(* they are left out of the arrays and of the neighbours.                  *)
(*                                                                         *)
(* Data left out: a Zobrist hash is the set of the (point, colour) pairs   *)
(* that were xor-ed into it, so xor is the symmetric difference and no two *)
(* positions collide; the entries of the arrays that board.h calls         *)
(* undefined (chain_data away from a head, chain_head and next_in_chain of *)
(* empty points) are reset by Tidy at the end of an operation.             *)
(***************************************************************************)
EXTENDS Integers, Sequences, FiniteSets, SequencesExt

C_EMPTY == 0
P_BLACK == 1
P_WHITE == 2
Players == {P_BLACK, P_WHITE}
NULL_LOC == 0
PASS_LOC == 1

getOpp(pla) == 3 - pla

\* A point (x,y); the array index of the code.
getLoc(x, y, x_size) == (x + 1) + (y + 1) * (x_size + 1)

Locs(b) == DOMAIN b.colors

\* The neighbours of a point, and the loop over them in the order ADJ0..ADJ3.
Adj(b, loc) ==
  {loc - (b.x_size + 1), loc - 1, loc + 1, loc + (b.x_size + 1)} \cap Locs(b)

AdjOf(b, loc, color) == {a \in Adj(b, loc) : b.colors[a] = color}

FOREACHADJ(Op(_, _), s, b, loc) ==
  LET OnBoard(t, a) == IF a \in Locs(b) THEN Op(t, a) ELSE t IN
  OnBoard(OnBoard(OnBoard(OnBoard(s, loc - (b.x_size + 1)), loc - 1), loc + 1),
          loc + (b.x_size + 1))

Xor(S, T) == (S \ T) \cup (T \ S)

NoChain == [owner |-> C_EMPTY, num_locs |-> 0, num_liberties |-> 0]

\* Board::init
EmptyBoard(xS, yS) ==
  LET locs == {getLoc(x, y, xS) : x \in 0 .. xS - 1, y \in 0 .. yS - 1} IN
  [x_size        |-> xS,
   y_size        |-> yS,
   colors        |-> [l \in locs |-> C_EMPTY],
   chain_data    |-> [l \in locs |-> NoChain],
   chain_head    |-> [l \in locs |-> NULL_LOC],
   next_in_chain |-> [l \in locs |-> NULL_LOC],
   ko_loc        |-> NULL_LOC,
   pos_hash      |-> {},
   captures      |-> [p \in Players |-> 0]]

Tidy(b) ==
  LET stones == {l \in Locs(b) : b.colors[l] # C_EMPTY}
      heads == {l \in stones : b.chain_head[l] = l}
      Kept(f, S, none) == [l \in Locs(b) |-> IF l \in S THEN f[l] ELSE none]
  IN [b EXCEPT !.chain_data = Kept(@, heads, NoChain),
               !.chain_head = Kept(@, stones, NULL_LOC),
               !.next_in_chain = Kept(@, stones, NULL_LOC)]

clearSimpleKoLoc(b) == [b EXCEPT !.ko_loc = NULL_LOC]

-----------------------------------------------------------------------------
(* Reading the chains                                                      *)

\* The stones of the chain at loc in the order of the circular list.
ChainOf(b, loc) ==
  LET stone[i \in Nat] == IF i = 0 THEN loc ELSE b.next_in_chain[stone[i - 1]]
      size == CHOOSE n \in 1 .. Cardinality(Locs(b)) :
                stone[n] = loc /\ \A i \in 1 .. n - 1 : stone[i] # loc
  IN [i \in 1 .. size |-> stone[i - 1]]

getChainSize(b, loc) == b.chain_data[b.chain_head[loc]].num_locs

getNumLiberties(b, loc) == b.chain_data[b.chain_head[loc]].num_liberties

getNumImmediateLiberties(b, loc) == Cardinality(AdjOf(b, loc, C_EMPTY))

isLibertyOf(b, loc, head) ==
  \E a \in AdjOf(b, loc, b.colors[head]) : b.chain_head[a] = head

isSuicide(b, loc, pla) ==
  /\ loc # PASS_LOC
  /\ AdjOf(b, loc, C_EMPTY) = {}
  /\ \A a \in AdjOf(b, loc, pla) : getNumLiberties(b, a) <= 1
  /\ \A a \in AdjOf(b, loc, getOpp(pla)) : getNumLiberties(b, a) # 1

isIllegalSuicide(b, loc, pla, isMultiStoneSuicideLegal) ==
  /\ AdjOf(b, loc, C_EMPTY) = {}
  /\ \A a \in AdjOf(b, loc, pla) :
       ~isMultiStoneSuicideLegal /\ getNumLiberties(b, a) <= 1
  /\ \A a \in AdjOf(b, loc, getOpp(pla)) : getNumLiberties(b, a) # 1

isKoBanned(b, loc) == loc = b.ko_loc

isLegalIgnoringKo(b, loc, pla, isMultiStoneSuicideLegal) ==
  \/ loc = PASS_LOC
  \/ /\ loc \in Locs(b)
     /\ b.colors[loc] = C_EMPTY
     /\ ~isIllegalSuicide(b, loc, pla, isMultiStoneSuicideLegal)

isLegal(b, loc, pla, isMultiStoneSuicideLegal) ==
  /\ isLegalIgnoringKo(b, loc, pla, isMultiStoneSuicideLegal)
  /\ loc = PASS_LOC \/ ~isKoBanned(b, loc)

\* The one stone in atari around an empty point that only the opponent (or the
\* edge) surrounds, NULL_LOC if there is none, more than one, or a larger chain.
getKoCaptureLoc(b, loc, pla) ==
  LET opp == getOpp(pla)
      inAtari == {a \in AdjOf(b, loc, opp) : getNumLiberties(b, a) = 1}
  IN IF /\ b.colors[loc] = C_EMPTY
        /\ AdjOf(b, loc, opp) = Adj(b, loc)
        /\ Cardinality(inAtari) = 1
        /\ \A a \in inAtari : getChainSize(b, a) = 1
     THEN CHOOSE a \in inAtari : TRUE ELSE NULL_LOC

wouldBeKoCapture(b, loc, pla) == getKoCaptureLoc(b, loc, pla) # NULL_LOC

-----------------------------------------------------------------------------
(* Changing the chains                                                     *)

addLiberties(b, head, delta) == [b EXCEPT !.chain_data[head].num_liberties = @ + delta]

\* Every distinct chain of pla around loc gains delta liberties.
changeSurroundingLiberties(b, loc, pla, delta) ==
  LET heads == {b.chain_head[a] : a \in AdjOf(b, loc, pla)} IN
  [b EXCEPT !.chain_data =
     [h \in heads |-> [b.chain_data[h] EXCEPT !.num_liberties = @ + delta]] @@ @]

joinChain(b, head1, head2) ==
  LET joining == ChainOf(b, head2)
      new == {a \in UNION {AdjOf(b, stone, C_EMPTY) : stone \in ToSet(joining)} :
                ~isLibertyOf(b, a, head1)}
  IN [b EXCEPT
        !.chain_data[head1].num_locs = @ + b.chain_data[head2].num_locs,
        !.chain_data[head1].num_liberties = @ + Cardinality(new),
        !.chain_head = [l \in Locs(b) |-> IF l \in ToSet(joining) THEN head1
                                               ELSE b.chain_head[l]],
        !.next_in_chain = [@ EXCEPT ![Last(joining)] = b.next_in_chain[head1], ![head1] = head2]]

\* The smaller chain joins the larger one: its stones bring the liberties the larger
\* one does not have yet, and its list is put in after the head of the larger one.
mergeChains(b, loc1, loc2) ==
  LET h1 == b.chain_head[loc1]
      h2 == b.chain_head[loc2]
      swap == b.chain_data[h1].num_locs < b.chain_data[h2].num_locs
  IN IF swap THEN joinChain(b, h2, h1) ELSE joinChain(b, h1, h2)

removeStone(b, loc) ==
  changeSurroundingLiberties(
    [b EXCEPT !.pos_hash = Xor(@, {<<loc, b.colors[loc]>>}), !.colors[loc] = C_EMPTY],
    loc, getOpp(b.colors[loc]), 1)

\* Every stone of the chain goes, which gives a liberty to every distinct chain
\* of the opponent around it.
removeChain(b, loc) ==
  LET chain == ToSet(ChainOf(b, loc))
      color == b.colors[loc]
      opened(head) == {l \in chain : head \in {b.chain_head[a] : a \in AdjOf(b, l, getOpp(color))}}
  IN [b EXCEPT
        !.pos_hash = Xor(@, chain \X {color}),
        !.colors = [l \in Locs(b) |-> IF l \in chain THEN C_EMPTY ELSE b.colors[l]],
        !.chain_data = [h \in Locs(b) |->
           [b.chain_data[h] EXCEPT !.num_liberties = @ + Cardinality(opened(h))]]]

placeStone(b, loc, pla) ==
  [b EXCEPT !.colors[loc] = pla, !.pos_hash = Xor(@, {<<loc, pla>>})]

\* What playMoveAssumeLegal does about one neighbour: s is the board, the number
\* of captured stones, the possible ko point and the opponent heads seen.
meetNeighbour(s, adj, loc, pla) ==
  LET b == s.board
      head == b.chain_head[adj]
      eaten == addLiberties(b, head, -1)
  IN IF b.colors[adj] = pla /\ head # b.chain_head[loc]
     THEN [s EXCEPT !.board = mergeChains(eaten, adj, loc)]
     ELSE IF b.colors[adj] = getOpp(pla) /\ head \notin s.seen
     THEN IF getNumLiberties(eaten, adj) = 0
          THEN [board |-> removeChain(eaten, adj), captured |-> s.captured + getChainSize(b, adj),
                ko |-> adj, seen |-> s.seen \cup {head}]
          ELSE [s EXCEPT !.board = eaten, !.seen = @ \cup {head}]
     ELSE s

\* Mutant: any capture of one stone is a ko.
isKo_AnyChain(met, loc) == met.captured = 1

isKo(met, loc) ==
  met.captured = 1 /\ getChainSize(met.board, loc) = 1 /\ getNumLiberties(met.board, loc) = 1

recordCapture(met, loc, pla) ==
  [met.board EXCEPT !.ko_loc = IF isKo(met, loc) THEN met.ko ELSE NULL_LOC,
                    !.captures[getOpp(pla)] = @ + met.captured]

dieIfSuicide(b, loc, pla) ==
  IF getNumLiberties(b, loc) > 0 THEN b
  ELSE [removeChain(b, loc) EXCEPT !.captures[pla] = @ + getChainSize(b, loc)]

playStone(b, loc, pla) ==
  LET alone == [placeStone(b, loc, pla) EXCEPT
                  !.chain_data[loc] = [owner |-> pla, num_locs |-> 1,
                                       num_liberties |-> getNumImmediateLiberties(b, loc)],
                  !.chain_head[loc] = loc,
                  !.next_in_chain[loc] = loc]
      Meet(s, adj) == meetNeighbour(s, adj, loc, pla)
  IN dieIfSuicide(
       recordCapture(
         FOREACHADJ(Meet, [board |-> alone, captured |-> 0, ko |-> NULL_LOC, seen |-> {}],
                    b, loc), loc, pla), loc, pla)

playMoveAssumeLegal(b, loc, pla) ==
  IF loc = PASS_LOC THEN clearSimpleKoLoc(b) ELSE Tidy(playStone(b, loc, pla))

\* A stone leaves a chain: the chain is removed and the others are played again.
removeSingleStone(b, loc) ==
  LET chain == ChainOf(b, loc)
      again[n \in 0 .. Len(chain) - 1] ==
        IF n = 0 THEN Tidy(removeChain(b, loc))
        ELSE playMoveAssumeLegal(again[n - 1], chain[n + 1], b.colors[loc])
  IN again[Len(chain) - 1]

\* A stone that replaces another is only set if it lives or captures.
replace(removed, loc, color) ==
  IF color = C_EMPTY \/ isSuicide(removed, loc, color) THEN removed
  ELSE playMoveAssumeLegal(removed, loc, color)

setStone(b, loc, color) ==
  clearSimpleKoLoc(
    IF b.colors[loc] = color THEN b
    ELSE IF b.colors[loc] = C_EMPTY THEN playMoveAssumeLegal(b, loc, color)
    ELSE replace(removeSingleStone(b, loc), loc, color))

-----------------------------------------------------------------------------
(* Recorded moves and their undoing                                        *)

\* The record of a move: what playMoveRecorded saves before it plays.  capDirs
\* is the set of the neighbours in captured directions; bit 0x10 is suicide.
moveRecord(b, loc, pla) ==
  LET caps == IF loc = PASS_LOC THEN {}
              ELSE {a \in AdjOf(b, loc, getOpp(pla)) : getNumLiberties(b, a) = 1}
  IN [pla |-> pla, loc |-> loc, ko_loc |-> b.ko_loc, capDirs |-> caps,
      suicide |-> caps = {} /\ isSuicide(b, loc, pla)]

\* The flood-fills that make a chain with head loc.  The calls of the recursion that
\* are still to come are the stack s.calls; a call at a point where there is nothing
\* to do returns at once.  The list grows in front of s.tail.
noChainYet(b, loc, pla) ==
  [board |-> [b EXCEPT !.chain_data[loc] = [owner |-> pla, num_locs |-> 0, num_liberties |-> 0]],
   tail |-> loc, calls |-> <<loc>>]

Listed(b, head, loc, tail) ==
  [b EXCEPT !.chain_head[loc] = head, !.chain_data[head].num_locs = @ + 1,
            !.next_in_chain[loc] = tail]

Called(s, b, loc) ==
  [board |-> b, tail |-> loc,
   calls |-> <<loc - (b.x_size + 1), loc - 1, loc + 1, loc + (b.x_size + 1)>> \o Tail(s.calls)]
Returned(s) == [s EXCEPT !.calls = Tail(@)]

CallBound(b) == 5 * Cardinality(Locs(b))
closeList(s, loc) == [s.board EXCEPT !.next_in_chain[loc] = s.tail]

addChainHelper(s, head, pla) ==
  LET loc == Head(s.calls)
      b == Listed(placeStone(s.board, loc, pla), head, loc, s.tail)
  IN IF s.calls = <<>> THEN s
     ELSE IF loc \notin Locs(b) \/ s.board.colors[loc] # C_EMPTY THEN Returned(s)
     ELSE Called(s, changeSurroundingLiberties(b, loc, getOpp(pla), -1), loc)

addChain(b, loc, pla) ==
  LET after[n \in Nat] == IF n = 0 THEN noChainYet(b, loc, pla)
                          ELSE addChainHelper(after[n - 1], loc, pla)
  IN closeList(after[CallBound(b)], loc)

\* As addChainHelper, through stones already there, counting the liberties.
rebuildChainHelper(s, head, pla) ==
  LET loc == Head(s.calls)
      b == s.board
      new == {a \in AdjOf(b, loc, C_EMPTY) : ~isLibertyOf(b, a, head)}
  IN IF s.calls = <<>> THEN s
     ELSE IF loc \notin Locs(b) \/ b.colors[loc] # pla \/ b.chain_head[loc] = head THEN Returned(s)
     ELSE Called(s, Listed(addLiberties(b, head, Cardinality(new)), head, loc, s.tail), loc)

rebuildChain(b, loc, pla) ==
  LET after[n \in Nat] == IF n = 0 THEN noChainYet(b, loc, pla)
                          ELSE rebuildChainHelper(after[n - 1], loc, pla)
  IN closeList(after[CallBound(b)], loc)

uncount(b, loc, pla) == [b EXCEPT !.captures[pla] = @ - getChainSize(b, loc)]

uncapture(b, loc, pla) == uncount(addChain(b, loc, pla), loc, pla)

\* Takes back captured stones (in the order of the directions), then a suicide.
refill(b, record) ==
  LET Uncapture(c, adj) ==
        IF adj \in record.capDirs /\ c.colors[adj] = C_EMPTY
        THEN uncapture(c, adj, getOpp(record.pla)) ELSE c
      uncaptured == FOREACHADJ(Uncapture, [b EXCEPT !.ko_loc = record.ko_loc], b, record.loc)
  IN IF record.suicide THEN uncapture(uncaptured, record.loc, record.pla) ELSE uncaptured

\* The rest of a chain whose stone at loc, with at most one neighbour, has gone.
detach(b, loc) ==
  LET chain == ChainOf(b, loc)
      head == IF b.chain_head[loc] = loc THEN b.next_in_chain[loc] ELSE b.chain_head[loc]
      moved == [b EXCEPT !.chain_data[head] = b.chain_data[b.chain_head[loc]],
                         !.chain_head = [l \in ToSet(chain) |-> head] @@ @,
                         !.next_in_chain[Last(chain)] = b.next_in_chain[loc]]
      lost == {a \in AdjOf(b, loc, C_EMPTY) : ~isLibertyOf(moved, a, head)}
  IN [addLiberties(moved, head, 1 - Cardinality(lost)) EXCEPT
        !.chain_data[head].num_locs = @ - 1]

\* The rest of a chain that may have fallen apart.
rebuildAround(b, loc, pla) ==
  LET chain == ToSet(ChainOf(b, loc))
      headless == [b EXCEPT !.chain_head = [l \in chain |-> NULL_LOC] @@ @]
      Around(c, adj) == IF c.colors[adj] = pla /\ c.chain_head[adj] = NULL_LOC
                        THEN rebuildChain(c, adj, pla) ELSE c
  IN FOREACHADJ(Around, headless, b, loc)

\* Mutant: a chain is taken to stay whole unless the stone joined three others.
mayFallApart_OfThree(b, loc, pla) == Cardinality(AdjOf(b, loc, pla)) > 2

mayFallApart(b, loc, pla) == Cardinality(AdjOf(b, loc, pla)) > 1

takeOff(b, loc, pla) ==
  LET gone == removeStone(b, loc) IN
  IF getChainSize(b, loc) = 1 THEN gone
  ELSE IF mayFallApart(gone, loc, pla) THEN rebuildAround(gone, loc, pla)
  ELSE detach(gone, loc)

undo(b, record) ==
  IF record.loc = PASS_LOC THEN [b EXCEPT !.ko_loc = record.ko_loc]
  ELSE Tidy(takeOff(refill(b, record), record.loc, record.pla))

-----------------------------------------------------------------------------
(* Foreseeing a move without playing it                                    *)

\* The hash the position would have after the move.
getPosHashAfterMove(b, loc, pla) ==
  LET opp == getOpp(pla)
      dying(p) == {a \in AdjOf(b, loc, p) : getNumLiberties(b, a) = 1}
      stonesOf(S, p) == {<<l, p>> : l \in UNION {ToSet(ChainOf(b, a)) : a \in S}}
      suicide == /\ AdjOf(b, loc, C_EMPTY) = {} /\ dying(opp) = {}
                 /\ dying(pla) = AdjOf(b, loc, pla)
      played == Xor(b.pos_hash, {<<loc, pla>>})
  IN IF loc = PASS_LOC THEN b.pos_hash
     ELSE IF suicide THEN Xor(Xor(played, stonesOf(dying(pla), pla)), {<<loc, pla>>})
     ELSE Xor(played, stonesOf(dying(opp), opp))

\* The number of liberties the stone's chain would have, at most max.
getNumLibertiesAfterPlay(b, loc, pla, max) ==
  LET captured == {a \in AdjOf(b, loc, getOpp(pla)) : getNumLiberties(b, a) = 1}
      heads == {b.chain_head[a] : a \in captured}
      wouldBeEmpty(l) == \/ b.colors[l] = C_EMPTY
                         \/ b.colors[l] = getOpp(pla) /\ b.chain_head[l] \in heads
      connected == UNION {ToSet(ChainOf(b, a)) : a \in AdjOf(b, loc, pla)}
      libs == AdjOf(b, loc, C_EMPTY) \cup captured \cup
              {l \in UNION {Adj(b, s) : s \in connected} : l # loc /\ wouldBeEmpty(l)}
  IN IF Cardinality(libs) >= max THEN max ELSE Cardinality(libs)

\* Bounds of that number from the neighbours' counters alone.
getBoundNumLibertiesAfterPlay(b, loc, pla) ==
  LET captured == {a \in AdjOf(b, loc, getOpp(pla)) : getNumLiberties(b, a) = 1}
      connLibs(a) == getNumLiberties(b, a) - 1
      immediate == getNumImmediateLiberties(b, loc)
      Sum(F(_), S) == FoldLeft(LAMBDA n, a : n + F(a), 0, SetToSeq(S))
      most == FoldLeft(LAMBDA n, a : IF connLibs(a) > n THEN connLibs(a) ELSE n, immediate,
                       SetToSeq(AdjOf(b, loc, pla)))
  IN [lower |-> Cardinality(captured) + most,
      upper |-> immediate + Sum(LAMBDA a : getChainSize(b, a), captured)
                          + Sum(connLibs, AdjOf(b, loc, pla))]

\* parseBoard: the stones of a diagram are set one by one.
setStones(b, stones) ==
  LET after[n \in 0 .. Len(stones)] ==
        IF n = 0 THEN b ELSE setStone(after[n - 1], stones[n][1], stones[n][2])
  IN after[Len(stones)]
=============================================================================
