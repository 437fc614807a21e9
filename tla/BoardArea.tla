----------------------------- MODULE BoardArea -----------------------------
(***************************************************************************)
(* The area of a position, Board::calculateArea and                        *)
(* calculateIndependentLifeArea of game/board.cpp: Benson's algorithm for  *)
(* pass-alive chains, the territory they enclose, and the regions that are *)
(* alive independently of any dame (for seki and group-tax scoring).       *)
(* An area maps every point to the player who owns it, or C_EMPTY.         *)
(***************************************************************************)
EXTENDS Board

\* The points of S connected with those of T through S (the floodfills).
Flood(b, S) ==
  LET flooded[T \in SUBSET S] ==
        LET more == {l \in S \ T : Adj(b, l) \cap T # {}} IN
        IF more = {} THEN T ELSE flooded[T \cup more]
  IN flooded

Components(b, S) == {Flood(b, S)[{l}] : l \in S}

\* The regions: maximal sets of non-pla points with an empty point among them.
Regions(b, pla) ==
  {R \in Components(b, {l \in Locs(b) : b.colors[l] # pla}) :
     \E l \in R : b.colors[l] = C_EMPTY}

PlaHeads(b, pla) == {l \in Locs(b) : b.colors[l] = pla /\ b.chain_head[l] = l}

HeadsAround(b, loc, pla) == {b.chain_head[a] : a \in AdjOf(b, loc, pla)}

\* The points of a region that have to touch a chain for the region to be vital for
\* it: all of them, or only the empty ones where suicide of several stones is illegal.
\* Mutant: the empty ones in any case.
mustTouch_EmptyOnly(b, l, isMultiStoneSuicideLegal) == b.colors[l] = C_EMPTY

mustTouch(b, l, isMultiStoneSuicideLegal) ==
  isMultiStoneSuicideLegal \/ b.colors[l] = C_EMPTY

VitalFor(b, R, pla, isMultiStoneSuicideLegal) ==
  {h \in PlaHeads(b, pla) :
     \A l \in R : mustTouch(b, l, isMultiStoneSuicideLegal)
                    => h \in HeadsAround(b, l, pla)}

BordersAny(b, R, pla, heads) == \E l \in R : HeadsAround(b, l, pla) \cap heads # {}

\* Benson's iteration: kill the chains with fewer than two vital regions, among
\* the regions that border no killed chain, until nothing more is killed.
KilledMore(b, pla, regions, isMultiStoneSuicideLegal, killed) ==
  {h \in PlaHeads(b, pla) :
     Cardinality({R \in regions : /\ ~BordersAny(b, R, pla, killed)
                                  /\ h \in VitalFor(b, R, pla, isMultiStoneSuicideLegal)}) < 2}

Killed(b, pla, regions, isMultiStoneSuicideLegal) ==
  LET killed[round \in Nat] ==
        IF round = 0 THEN {}
        ELSE KilledMore(b, pla, regions, isMultiStoneSuicideLegal, killed[round - 1])
  IN killed[Cardinality(PlaHeads(b, pla))]

\* Adds to an area what pla owns, the living chains and the regions between them.
ownedArea(b, area, pla, alive, marked, ifEmpty) ==
  [l \in alive \cup UNION marked \cup {m \in UNION ifEmpty : area[m] = C_EMPTY} |-> pla] @@ area

markedArea(b, area, pla, regions, killed, safeBig, unsafeBig) ==
  LET alive == {l \in Locs(b) : b.colors[l] = pla /\ b.chain_head[l] \notin killed}
      internal(R) == {l \in R : AdjOf(b, l, pla) = {}}
      containsOpp(R) == \E l \in R : b.colors[l] = getOpp(pla)
      marked == {R \in regions :
                   /\ ~BordersAny(b, R, pla, killed)
                   /\ Cardinality(internal(R)) <= 1 \/ (safeBig /\ ~containsOpp(R))}
      ifEmpty == {R \in regions \ marked : unsafeBig /\ ~containsOpp(R)}
  IN ownedArea(b, area, pla, alive, marked, ifEmpty)

calculateAreaForPla(b, area, pla, safeBig, unsafeBig, isMultiStoneSuicideLegal) ==
  LET atLeastOnePla == \E l \in Locs(b) : b.colors[l] = pla
      regions == IF atLeastOnePla THEN Regions(b, pla) ELSE {}
  IN markedArea(b, area, pla, regions, Killed(b, pla, regions, isMultiStoneSuicideLegal),
                safeBig, unsafeBig)

NoArea(b) == [l \in Locs(b) |-> C_EMPTY]

\* Points nobody owns go to the stones on them.
withStones(b, area) ==
  [l \in {m \in Locs(b) : area[m] = C_EMPTY} |-> b.colors[l]] @@ area

calculateArea(b, nonPassAliveStones, safeBig, unsafeBig, isMultiStoneSuicideLegal) ==
  LET ofPla(area, pla) ==
        calculateAreaForPla(b, area, pla, safeBig, unsafeBig, isMultiStoneSuicideLegal)
      both == ofPla(ofPla(NoArea(b), P_BLACK), P_WHITE)
  IN IF nonPassAliveStones THEN withStones(b, both) ELSE both

PassAlive(b, isMultiStoneSuicideLegal) ==
  calculateArea(b, FALSE, FALSE, FALSE, isMultiStoneSuicideLegal)

\* A region of the basic area is in seki if a stone of it is in atari or a point
\* of it touches dame.
InSeki(b, basicArea, R) ==
  \E l \in R :
    \/ b.colors[l] = basicArea[l] /\ getNumLiberties(b, l) = 1
    \/ \E a \in AdjOf(b, l, C_EMPTY) : basicArea[a] = C_EMPTY

\* The area without the regions in seki, except for their territories or stones
\* on request, and how many regions live independently (white's minus black's).
independentLife(b, basicArea, keepTerritories, keepStones) ==
  LET owned(pla) == Components(b, {l \in Locs(b) : basicArea[l] = pla})
      alive(pla) == {R \in owned(pla) : ~InSeki(b, basicArea, R)}
      aliveLocs == UNION (alive(P_BLACK) \cup alive(P_WHITE))
      kept(l) == \/ l \in aliveLocs
                 \/ keepTerritories /\ basicArea[l] # b.colors[l]
                 \/ keepStones /\ basicArea[l] = b.colors[l]
  IN [area |-> [l \in {m \in Locs(b) : ~kept(m)} |-> C_EMPTY] @@ basicArea,
      whiteMinusBlackRegions |-> Cardinality(alive(P_WHITE)) - Cardinality(alive(P_BLACK))]

calculateIndependentLifeArea(b, keepTerritories, keepStones, isMultiStoneSuicideLegal) ==
  independentLife(b, calculateArea(b, TRUE, TRUE, TRUE, isMultiStoneSuicideLegal),
                  keepTerritories, keepStones)
=============================================================================
