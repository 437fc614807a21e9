--------------------------- MODULE BoardHistory ---------------------------
(***************************************************************************)
(* The history of a game, game/boardhistory.cpp: which moves are legal     *)
(* under the four ko rules, when a phase or the game ends, the encore      *)
(* phases of territory scoring with their ko-recapture blocks, and the     *)
(* final score.  The board a move is made on is passed in and out.         *)
(*                                                                         *)
(* Scores are counted in half points.  Data left out: the moves themselves *)
(* (only their number), handicap bonuses (WHB_ZERO), the hash table that   *)
(* speeds up the search of koHashHistory, the initial board and turn       *)
(* number.  hashesBefore*Pass are only ever searched, so they are sets.    *)
(***************************************************************************)
EXTENDS BoardArea

CONSTANT NUM_RECENT_BOARDS \* length of the ring of recent boards; 6 in the code
ASSUME RecentAssumption == NUM_RECENT_BOARDS \in Nat \ {0}

\* A hash with the player to move (or not) and the ko-recapture blocks xor-ed in.
getKoHash(rules, posHash, pla, encorePhase, koRecapBlockHash) ==
  [pos |-> posHash,
   pla |-> IF rules.koRule \in {"SITUATIONAL", "SIMPLE"} \/ encorePhase > 0 THEN pla ELSE 0,
   blocks |-> koRecapBlockHash]

getKoHashAfterMoveNonEncore(rules, posHashAfterMove, pla) ==
  getKoHash(rules, posHashAfterMove, pla, 0, {})

Count(b, color) == Cardinality({l \in Locs(b) : b.colors[l] = color})

\* White's compensation for the stones on the board that a territory score counts.
initialBonus(rules, b) ==
  IF rules.scoringRule = "TERRITORY"
  THEN 2 * (Count(b, P_BLACK) - Count(b, P_WHITE)
            - (b.captures[P_WHITE] - b.captures[P_BLACK]))
  ELSE 0

NotOver == [isGameFinished |-> FALSE, isPastNormalPhaseEnd |-> FALSE, winner |-> C_EMPTY,
            finalWhiteMinusBlackScore |-> 0, isScored |-> FALSE, isNoResult |-> FALSE,
            isResignation |-> FALSE]

\* BoardHistory(board, pla, rules, 0): the history of a new game.
clear(b, pla, rules) ==
  [rules |-> rules, numMoves |-> 0,
   koHashHistory |-> <<getKoHash(rules, b.pos_hash, pla, 0, {})>>,
   firstTurnIdxWithKoHistory |-> 0,
   recentBoards |-> [i \in 0 .. NUM_RECENT_BOARDS - 1 |-> b.colors],
   currentRecentBoardIdx |-> 0,
   presumedNextMovePla |-> pla,
   wasEverOccupiedOrPlayed |-> {l \in Locs(b) : b.colors[l] # C_EMPTY},
   superKoBanned |-> {},
   consecutiveEndingPasses |-> 0,
   hashesBeforePass |-> [p \in Players |-> {}],
   encorePhase |-> 0, numTurnsThisPhase |-> 0,
   koRecapBlocked |-> {}, koRecapBlockHash |-> {}, koCapturesInEncore |-> {},
   secondEncoreStartColors |-> NoArea(b),
   whiteBonusScore |-> initialBonus(rules, b),
   hasButton |-> rules.hasButton,
   over |-> NotOver]

getRecentBoard(h, numMovesAgo) ==
  h.recentBoards[(h.currentRecentBoardIdx - numMovesAgo + NUM_RECENT_BOARDS)
                 % NUM_RECENT_BOARDS]

-----------------------------------------------------------------------------
(* Scoring                                                                 *)

areaScore(b, area) ==
  Cardinality({l \in Locs(b) : area[l] = P_WHITE})
    - Cardinality({l \in Locs(b) : area[l] = P_BLACK})

\* The score of an area, under group tax less two points for every living region.
taxedScore(h, b, life) ==
  areaScore(b, life.area)
    - (IF h.rules.taxRule = "ALL" THEN 2 * life.whiteMinusBlackRegions ELSE 0)

countAreaScoreWhiteMinusBlack(h, b) ==
  LET suicide == h.rules.multiStoneSuicideLegal IN
  IF h.rules.taxRule = "NONE" THEN areaScore(b, calculateArea(b, TRUE, TRUE, TRUE, suicide))
  ELSE taxedScore(h, b, calculateIndependentLifeArea(b, FALSE, TRUE, suicide))

\* Stones outside the area count for their player if, once the second encore has
\* begun, they were there at its beginning.
withCountedStones(h, b, life) ==
  LET counted(l) == h.encorePhase < 2 \/ h.secondEncoreStartColors[l] = b.colors[l] IN
  [life EXCEPT !.area =
     [l \in {m \in Locs(b) : life.area[m] = C_EMPTY /\ counted(m)} |-> b.colors[l]] @@ @]

countTerritoryAreaScoreWhiteMinusBlack(h, b) ==
  taxedScore(h, b, withCountedStones(h, b,
    calculateIndependentLifeArea(b, h.rules.taxRule = "NONE", FALSE,
                                 h.rules.multiStoneSuicideLegal)))

boardScore(h, b) ==
  IF h.rules.scoringRule = "AREA" THEN countAreaScoreWhiteMinusBlack(h, b)
  ELSE countTerritoryAreaScoreWhiteMinusBlack(h, b)

setFinalScoreAndWinner(over, score) ==
  [over EXCEPT !.finalWhiteMinusBlackScore = score,
               !.winner = IF score > 0 THEN P_WHITE
                          ELSE IF score < 0 THEN P_BLACK ELSE C_EMPTY]

buttonBonus(pla) == IF pla = P_WHITE THEN 1 ELSE -1

\* The player to move takes a button that is left, then the game is scored.
endWithBoardScore(h, score) ==
  LET bonus == IF h.hasButton THEN h.whiteBonusScore + buttonBonus(h.presumedNextMovePla)
               ELSE h.whiteBonusScore
  IN [h EXCEPT !.hasButton = FALSE, !.whiteBonusScore = bonus,
        !.over = [setFinalScoreAndWinner(NotOver, 2 * score + bonus + h.rules.komi)
                    EXCEPT !.isScored = TRUE, !.isGameFinished = TRUE]]

endAndScoreGameNow(h, b) == endWithBoardScore(h, boardScore(h, b))

endIfAllOwned(h, b, area) ==
  IF \E l \in Locs(b) : area[l] = C_EMPTY THEN h
  ELSE IF h.rules.taxRule = "ALL" THEN endAndScoreGameNow(h, b)
  ELSE endWithBoardScore(h, areaScore(b, area))

endGameIfAllPassAlive(h, b) ==
  endIfAllOwned(h, b, PassAlive(b, h.rules.multiStoneSuicideLegal))

setKomi(h, newKomi) ==
  LET score == h.over.finalWhiteMinusBlackScore - h.rules.komi + newKomi IN
  [h EXCEPT !.rules.komi = newKomi,
            !.over = IF @.isGameFinished /\ @.isScored
                     THEN setFinalScoreAndWinner(@, score) ELSE @]

setWinnerByResignation(h, pla) ==
  [h EXCEPT !.over = [NotOver EXCEPT !.isGameFinished = TRUE, !.isResignation = TRUE,
                                     !.winner = pla]]

-----------------------------------------------------------------------------
(* Legality                                                                *)

\* In the encore a blocked stone may be "captured" to lift the block: a pass for ko.
isPassForKo(h, b, loc, pla) ==
  LET blocked(l) == l \in h.koRecapBlocked /\ b.colors[l] = getOpp(pla)
      koCaptureLoc == getKoCaptureLoc(b, loc, pla)
  IN /\ h.encorePhase > 0
     /\ loc \in Locs(b)
     /\ \/ blocked(loc) /\ getChainSize(b, loc) = 1 /\ getNumLiberties(b, loc) = 1
        \/ koCaptureLoc # NULL_LOC /\ blocked(koCaptureLoc)

isLegalInHistory(h, b, loc, pla) ==
  \/ isPassForKo(h, b, loc, pla)
  \/ /\ h.encorePhase > 0 \/ ~isKoBanned(b, loc)
     /\ isLegalIgnoringKo(b, loc, pla, h.rules.multiStoneSuicideLegal)
     /\ loc \notin h.superKoBanned

\* Mutant: under every ko rule passes do not add up in the main phase.
newConsecutiveEndingPassesAfterPass_Spight(h) ==
  IF h.encorePhase = 0 THEN 0 ELSE h.consecutiveEndingPasses + 1

newConsecutiveEndingPassesAfterPass(h) ==
  IF h.encorePhase = 0 /\ h.rules.koRule = "SPIGHT" THEN 0 ELSE h.consecutiveEndingPasses + 1

phaseHasSpightlikeEndingAndPassHistoryClearing(h) ==
  h.encorePhase > 0 \/ h.rules.koRule \in {"SIMPLE", "SPIGHT"}

wouldBeSpightlikeEndingPass(h, pla, koHashBeforeMove) ==
  /\ phaseHasSpightlikeEndingAndPassHistoryClearing(h)
  /\ koHashBeforeMove \in h.hashesBeforePass[pla]

koHashNow(h, b, pla) ==
  getKoHash(h.rules, b.pos_hash, pla, h.encorePhase, h.koRecapBlockHash)

\* Mutant: only consecutive passes are foreseen.
passWouldEndPhase_Passes(h, b, pla) == newConsecutiveEndingPassesAfterPass(h) >= 2

passWouldEndPhase(h, b, pla) ==
  \/ newConsecutiveEndingPassesAfterPass(h) >= 2
  \/ wouldBeSpightlikeEndingPass(h, pla, koHashNow(h, b, pla))

isFinalPhase(h) == h.rules.scoringRule = "AREA" \/ h.encorePhase >= 2

passWouldEndGame(h, b, pla) == passWouldEndPhase(h, b, pla) /\ isFinalPhase(h)

-----------------------------------------------------------------------------
(* makeBoardMoveAssumeLegal, in the order of its parts                     *)

\* The counters of passes, the button and what a pass forgets.
countPass(h, b, loc, pla) ==
  LET forgotten == [h EXCEPT !.koHashHistory = <<>>,
                             !.firstTurnIdxWithKoHistory = h.numMoves + 1]
  IN IF loc # PASS_LOC THEN [h EXCEPT !.consecutiveEndingPasses = 0]
     ELSE IF h.hasButton
     THEN [forgotten EXCEPT !.hasButton = FALSE, !.consecutiveEndingPasses = 0,
                            !.whiteBonusScore = @ + buttonBonus(pla),
                            !.hashesBeforePass = [p \in Players |-> {}]]
     ELSE [(IF phaseHasSpightlikeEndingAndPassHistoryClearing(h) THEN forgotten ELSE h) EXCEPT
             !.consecutiveEndingPasses = newConsecutiveEndingPassesAfterPass(h),
             !.hashesBeforePass[pla] = @ \cup {koHashNow(h, b, pla)}]

setKoRecapBlocked(h, loc, blocked) ==
  IF (loc \in h.koRecapBlocked) = blocked THEN h
  ELSE [h EXCEPT !.koRecapBlocked = IF blocked THEN @ \cup {loc} ELSE @ \ {loc},
                 !.koRecapBlockHash = Xor(@, {loc})]

\* The stone whose block a pass for ko lifts, NULL_LOC if the move is none.  Unlike
\* isPassForKo it does not look at the chain of the stone.
passForKoLoc(h, b, loc, pla) ==
  LET blocked(l) == l \in h.koRecapBlocked /\ b.colors[l] = getOpp(pla)
      koCaptureLoc == getKoCaptureLoc(b, loc, pla)
  IN IF h.encorePhase = 0 \/ loc = PASS_LOC THEN NULL_LOC
     ELSE IF blocked(loc) THEN loc
     ELSE IF koCaptureLoc # NULL_LOC /\ blocked(koCaptureLoc) THEN koCaptureLoc
     ELSE NULL_LOC

\* What an encore move does to the blocks: a ko capture blocks its stone, and no
\* empty point stays blocked.  b is the board before, c the one after the move.
recordKo(h, b, c, loc, pla) ==
  LET captured == IF c.ko_loc = NULL_LOC THEN h
                  ELSE [setKoRecapBlocked(h, loc, TRUE) EXCEPT
                          !.koCapturesInEncore = @ \cup {<<b.pos_hash, loc, pla>>}]
      empty == {l \in captured.koRecapBlocked : c.colors[l] = C_EMPTY}
  IN [captured EXCEPT !.koRecapBlocked = @ \ empty, !.koRecapBlockHash = Xor(@, empty)]

playUnblocked(h, b, c, loc, pla) ==
  IF h.encorePhase > 0
  THEN [hist |-> recordKo(h, b, c, loc, pla), board |-> clearSimpleKoLoc(c)]
  ELSE [hist |-> h, board |-> c]

\* The board part of a move: a pass for ko, an encore move, or an ordinary one.
playOnBoard(h, b, loc, pla) ==
  LET lifted == passForKoLoc(h, b, loc, pla) IN
  IF lifted # NULL_LOC
  THEN [hist |-> setKoRecapBlocked(h, lifted, FALSE), board |-> clearSimpleKoLoc(b)]
  ELSE playUnblocked(h, b, playMoveAssumeLegal(b, loc, pla), loc, pla)

rememberMove(h, b, loc, pla) ==
  LET idx == (h.currentRecentBoardIdx + 1) % NUM_RECENT_BOARDS IN
  [h EXCEPT !.currentRecentBoardIdx = idx, !.recentBoards[idx] = b.colors,
            !.koHashHistory = Append(@, koHashNow(h, b, getOpp(pla))),
            !.numMoves = @ + 1, !.numTurnsThisPhase = @ + 1,
            !.presumedNextMovePla = getOpp(pla),
            !.wasEverOccupiedOrPlayed = IF loc = PASS_LOC THEN @ ELSE @ \cup {loc}]

\* A point never played before cannot repeat a position, unless the move is suicide.
\* Mutant: the suicide is forgotten.
mayRepeat_PlayedOnly(h, b, l, pla) == l \in h.wasEverOccupiedOrPlayed

mayRepeat(h, b, l, pla) == l \in h.wasEverOccupiedOrPlayed \/ isSuicide(b, l, pla)

\* Whether the next player's move at an empty point would repeat a position.
isSuperKo(h, b, l, pla) ==
  /\ b.colors[l] = C_EMPTY
  /\ ~isIllegalSuicide(b, l, pla, h.rules.multiStoneSuicideLegal)
  /\ l # b.ko_loc
  /\ mayRepeat(h, b, l, pla)
  /\ getKoHashAfterMoveNonEncore(h.rules, getPosHashAfterMove(b, l, pla), getOpp(pla))
       \in ToSet(h.koHashHistory)

banSuperKo(h, b, nextPla) ==
  IF h.encorePhase > 0
  THEN [h EXCEPT !.superKoBanned =
          {l \in Locs(b) : <<b.pos_hash, l, nextPla>> \in h.koCapturesInEncore}]
  ELSE IF h.rules.koRule # "SIMPLE"
  THEN [h EXCEPT !.superKoBanned = {l \in Locs(b) : isSuperKo(h, b, l, nextPla)}]
  ELSE h

\* A territory score takes back a point for every move of the main phase and of
\* the first encore.
chill(h, loc, pla, wasPassForKo) ==
  IF /\ h.rules.scoringRule = "TERRITORY" /\ h.encorePhase <= 1
     /\ loc # PASS_LOC /\ ~wasPassForKo
  THEN [h EXCEPT !.whiteBonusScore = @ + (IF pla = P_BLACK THEN 2 ELSE -2)]
  ELSE h

nextPhase(h, b, pla) ==
  LET phase == h.encorePhase + 1 IN
  [h EXCEPT !.encorePhase = phase, !.numTurnsThisPhase = 0,
            !.secondEncoreStartColors = IF phase = 2 THEN b.colors ELSE @,
            !.superKoBanned = {}, !.consecutiveEndingPasses = 0,
            !.hashesBeforePass = [p \in Players |-> {}],
            !.koRecapBlocked = {}, !.koRecapBlockHash = {}, !.koCapturesInEncore = {},
            !.koHashHistory = <<getKoHash(h.rules, b.pos_hash, getOpp(pla), phase, {})>>,
            !.firstTurnIdxWithKoHistory = h.numMoves]

endPhase(h, b, pla, preventEncore) ==
  IF isFinalPhase(h) THEN endAndScoreGameNow(h, b)
  ELSE IF preventEncore THEN [h EXCEPT !.over.isPastNormalPhaseEnd = TRUE]
  ELSE nextPhase(h, b, pla)

numberOfKoHashOccurrencesInHistory(h, hash) ==
  Cardinality({i \in DOMAIN h.koHashHistory : h.koHashHistory[i] = hash})

\* A position that occurs for the third time ends the game without a result.
breakCycle(h, loc) ==
  IF /\ loc # PASS_LOC /\ (h.encorePhase > 0 \/ h.rules.koRule = "SIMPLE")
     /\ numberOfKoHashOccurrencesInHistory(h, Last(h.koHashHistory)) >= 3
  THEN [h EXCEPT !.over.isNoResult = TRUE, !.over.isGameFinished = TRUE]
  ELSE h

endPhaseIfPassed(h, b, pla, isSpightlikeEndingPass, preventEncore) ==
  IF h.consecutiveEndingPasses >= 2 \/ isSpightlikeEndingPass
  THEN endPhase(h, b, pla, preventEncore) ELSE h

\* What follows the move on the board, in order: the records, the bans for the next
\* player, the points, the ends.
finishMove(h, b, loc, pla, wasPassForKo, isSpightlikeEndingPass, preventEncore) ==
  LET banned == banSuperKo(rememberMove(h, b, loc, pla), b, getOpp(pla)) IN
  [board |-> b,
   hist |-> breakCycle(endPhaseIfPassed(chill(banned, loc, pla, wasPassForKo), b, pla,
                                        isSpightlikeEndingPass, preventEncore), loc)]

finishPlayed(played, loc, pla, wasPassForKo, isSpightlikeEndingPass, preventEncore) ==
  finishMove(played.hist, played.board, loc, pla, wasPassForKo, isSpightlikeEndingPass,
             preventEncore)

\* The board and the history after a move.
makeBoardMoveAssumeLegal(h0, b, loc, pla, preventEncore) ==
  LET h == [h0 EXCEPT !.over = NotOver]
      isSpightlikeEndingPass ==
        /\ loc = PASS_LOC /\ ~h.hasButton
        /\ wouldBeSpightlikeEndingPass(h, pla, koHashNow(h, b, pla))
  IN finishPlayed(playOnBoard(countPass(h, b, loc, pla), b, loc, pla), loc, pla,
                  passForKoLoc(h, b, loc, pla) # NULL_LOC, isSpightlikeEndingPass,
                  preventEncore)
=============================================================================
