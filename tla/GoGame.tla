------------------------------- MODULE GoGame -------------------------------
(***************************************************************************)
(* A board and its history in use.  A position is edited, or moves are     *)
(* played on it and taken back in the order of a stack (as the ladder      *)
(* search of game/board.cpp does); then a game is played from it with the  *)
(* rules of game/boardhistory.cpp.  It composes Board, BoardArea and       *)
(* BoardHistory and checks them against GoRules and against the list of    *)
(* the positions of the game.                                              *)
(***************************************************************************)
EXTENDS BoardHistory, TLC

CONSTANTS
  Setups,  \* the instances: see SetupAssumption
  Komis    \* the values setKomi is called with, in half points

\* An instance: the size, the stones that are set first, the number of edits
\* (recorded moves included), the depth of the undo stack, the number of moves of a
\* game, whether that is more than any game can have, the rules to choose from, and
\* whether games are interfered with (komi changes, resignation, forced scoring,
\* moves beyond the end).
ASSUME SetupAssumption ==
  \A s \in Setups :
    /\ DOMAIN s = {"x_size", "y_size", "stones", "edits", "depth", "moves", "toTheEnd",
                   "rules", "meddle"}
    /\ s.x_size \in Nat \ {0} /\ s.y_size \in Nat \ {0}
    /\ s.stones \in Seq(Locs(EmptyBoard(s.x_size, s.y_size)) \X ({C_EMPTY} \cup Players))
    /\ s.edits \in Nat /\ s.depth \in Nat /\ s.moves \in Nat
    /\ s.toTheEnd \in BOOLEAN /\ s.meddle \in BOOLEAN

VARIABLES
  setup,     \* the instance (never changes)
  board,     \* the Board
  records,   \* stack of MoveRecords
  edits,     \* number of edits so far
  hist,      \* the BoardHistory, NoGame while the position is edited
  past,      \* ghost: the positions before the moves in records
  positions  \* ghost: the positions of the game, with the player to move

vars == <<setup, board, records, edits, hist, past, positions>>

NoGame == <<>>
Editing == hist = NoGame
PositionOf(b) == [stones |-> b.colors, ko |-> b.ko_loc, captures |-> b.captures]
Turn(b, pla) == [colors |-> b.colors, pla |-> pla]

Init ==
  /\ setup \in Setups
  /\ board = setStones(EmptyBoard(setup.x_size, setup.y_size), setup.stones)
  /\ records = <<>> /\ edits = 0 /\ hist = NoGame /\ past = <<>> /\ positions = <<>>

-----------------------------------------------------------------------------
(* Editing                                                                 *)

EditStep == Editing /\ edits < setup.edits /\ edits' = edits + 1

EditStone(loc, color) ==
  /\ EditStep /\ records = <<>>
  /\ board' = setStone(board, loc, color)
  /\ UNCHANGED <<setup, records, hist, past, positions>>

\* playMoveRecorded, with suicide allowed
PlayRecorded(loc, pla) ==
  /\ EditStep /\ Len(records) < setup.depth
  /\ isLegal(board, loc, pla, TRUE)
  /\ board' = playMoveAssumeLegal(board, loc, pla)
  /\ records' = Append(records, moveRecord(board, loc, pla))
  /\ past' = Append(past, PositionOf(board))
  /\ UNCHANGED <<setup, hist, positions>>

UndoMove ==
  /\ Editing /\ records # <<>>
  /\ board' = undo(board, Last(records))
  /\ records' = Front(records)
  /\ past' = Front(past)
  /\ UNCHANGED <<setup, edits, hist, positions>>

-----------------------------------------------------------------------------
(* Playing                                                                 *)

StartGame(pla, rules) ==
  /\ Editing /\ records = <<>> /\ setup.moves > 0
  /\ hist' = clear(board, pla, rules)
  /\ positions' = <<Turn(board, pla)>>
  /\ UNCHANGED <<setup, board, records, edits, past>>

InGame == ~Editing /\ UNCHANGED <<setup, records, edits, past>>

Reach(after) ==
  /\ board' = after.board
  /\ hist' = after.hist
  /\ positions' = Append(positions, Turn(after.board, after.hist.presumedNextMovePla))

\* A legal move of the player whose turn it is.
MakeMove(loc, preventEncore) ==
  LET pla == hist.presumedNextMovePla IN
  /\ InGame
  /\ hist.numMoves < setup.moves
  /\ ~hist.over.isGameFinished \/ setup.meddle
  /\ isLegalInHistory(hist, board, loc, pla)
  /\ Reach(makeBoardMoveAssumeLegal(hist, board, loc, pla, preventEncore))

\* Self-play games end as soon as the whole board is pass-alive territory.
EndIfAllPassAlive ==
  /\ InGame /\ ~hist.over.isGameFinished
  /\ hist' = endGameIfAllPassAlive(hist, board)
  /\ UNCHANGED <<board, positions>>

Meddle(h) == InGame /\ setup.meddle /\ hist' = h /\ UNCHANGED <<board, positions>>

ForceScore == Meddle(endAndScoreGameNow(hist, board))
Resign == Meddle(setWinnerByResignation(hist, getOpp(hist.presumedNextMovePla)))
ChangeKomi == \E komi \in Komis : Meddle(setKomi(hist, komi))

\* A game that is over, or has reached the bound on its moves, may stop.
Done ==
  /\ ~Editing
  /\ hist.over.isGameFinished \/ hist.numMoves = setup.moves
  /\ UNCHANGED vars

Next ==
  \/ \E loc \in Locs(board), color \in {C_EMPTY} \cup Players : EditStone(loc, color)
  \/ \E loc \in Locs(board) \cup {PASS_LOC}, pla \in Players : PlayRecorded(loc, pla)
  \/ UndoMove
  \/ \E pla \in Players, rules \in setup.rules : StartGame(pla, rules)
  \/ \E loc \in Locs(board) \cup {PASS_LOC}, preventEncore \in {FALSE, setup.meddle} :
       MakeMove(loc, preventEncore)
  \/ EndIfAllPassAlive
  \/ ForceScore
  \/ Resign
  \/ ChangeKomi
  \/ Done

Spec == Init /\ [][Next]_vars

-----------------------------------------------------------------------------
(* Properties                                                              *)

R == INSTANCE GoRules WITH width <- board.x_size, stones <- board.colors,
                           ko <- board.ko_loc, captures <- board.captures

\* Every move, undo and edit of the incremental board does what the rules of Go say
\* of the stones alone: what is captured, where a ko ban falls, and what is taken
\* back (playMoveAssumeLegal, undo, setStone).
RefinesRules == R!Spec

\* The chains are the groups: after any sequence of operations every stone is in the
\* list of exactly its group, the head counts the stones and the liberties of it,
\* and the hash is that of the stones on the board (checkConsistency of board.cpp,
\* which does not check that a chain is a whole group).
ChainsAreGroups ==
  /\ \A l \in Locs(board) : board.colors[l] # C_EMPTY =>
       LET chain == ChainOf(board, l)
           group == R!Group(board.colors, l)
           head  == board.chain_head[l]
       IN /\ ToSet(chain) = group /\ Len(chain) = Cardinality(group)
          /\ head \in group /\ \A m \in group : board.chain_head[m] = head
          /\ board.chain_data[head] =
               [owner |-> board.colors[l], num_locs |-> Cardinality(group),
                num_liberties |-> Cardinality(R!Liberties(board.colors, l))]
  /\ board.pos_hash = {<<l, board.colors[l]>> : l \in {m \in Locs(board) : board.colors[m] # C_EMPTY}}

\* What is foreseen of a move is what the move does: its hash (the superko test), the
\* liberties of its chain and their bounds (the ladder search), and whether it takes
\* a ko.
MoveForeseen(loc, pla, after) ==
  LET libs == IF after.colors[loc] = C_EMPTY THEN 0 ELSE getNumLiberties(after, loc)
      bounds == getBoundNumLibertiesAfterPlay(board, loc, pla)
  IN /\ getPosHashAfterMove(board, loc, pla) = after.pos_hash
     /\ \A max \in 1 .. 3 : getNumLibertiesAfterPlay(board, loc, pla, max) =
                             (IF libs < max THEN libs ELSE max)
     /\ bounds.lower <= libs /\ libs <= bounds.upper
     /\ wouldBeKoCapture(board, loc, pla) = (after.ko_loc # NULL_LOC)
     /\ wouldBeKoCapture(board, loc, pla) => getKoCaptureLoc(board, loc, pla) = after.ko_loc

\* A pass ends the phase or the game exactly when passWouldEndPhase and
\* passWouldEndGame say so.
PassForeseen(pla, after) ==
  /\ passWouldEndGame(hist, board, pla) = after.over.isGameFinished
  /\ passWouldEndPhase(hist, board, pla) =
       (after.over.isGameFinished \/ after.encorePhase # hist.encorePhase)

\* Scoring a scored game again changes nothing, whichever way it ended (the comment
\* at endAndScoreGameNow in boardhistory.h).
ScoredOnce == hist.over.isScored => endAndScoreGameNow(hist, board) = hist

\* The positions of the game that the ko rule still looks at.
Remembered == SubSeq(positions, hist.firstTurnIdxWithKoHistory + 1, Len(positions))

\* A move is banned by superko exactly if it would recreate a remembered position
\* (with the same player to move, under situational superko), although points that
\* were never played are not even looked at.
SuperKoExact ==
  LET pla == hist.presumedNextMovePla
      repeats(l) == \E i \in DOMAIN Remembered :
        /\ Remembered[i].colors = playMoveAssumeLegal(board, l, pla).colors
        /\ hist.rules.koRule = "SITUATIONAL" => Remembered[i].pla = getOpp(pla)
  IN hist.encorePhase = 0 /\ hist.rules.koRule # "SIMPLE" =>
       \A l \in Locs(board) :
         isLegal(board, l, pla, hist.rules.multiStoneSuicideLegal)
           => (l \in hist.superKoBanned) = repeats(l)

\* What is foreseen of a move and of scoring is what they do, and so is superko, whose
\* hashes are those of the remembered positions.
ForecastsRight ==
  /\ \A loc \in Locs(board), pla \in Players :
       isLegal(board, loc, pla, TRUE) => MoveForeseen(loc, pla, playMoveAssumeLegal(board, loc, pla))
  /\ \/ Editing
     \/ /\ SuperKoExact /\ ScoredOnce
        /\ \A i \in DOMAIN Remembered :
             hist.koHashHistory[i].pos =
               {<<l, Remembered[i].colors[l]>> :
                  l \in {m \in Locs(board) : Remembered[i].colors[m] # C_EMPTY}}

\* The ring returns the last boards, the newest first, and the first one once the game
\* is too short.
RingTellsGame ==
  \A k \in 0 .. NUM_RECENT_BOARDS - 1 :
    getRecentBoard(hist, k) =
      positions[IF k < Len(positions) THEN Len(positions) - k ELSE 1].colors

\* The history tells the game, through passes, the button and both encores: there is a
\* hash for each remembered position, the ring returns the boards, only stones are
\* blocked in the encore, the hash of the blocks is theirs, and a pass does what is
\* foreseen of it.
HistoryTellsGame ==
  Editing \/
  /\ Len(hist.koHashHistory) = Len(Remembered)
  /\ RingTellsGame
  /\ \A l \in hist.koRecapBlocked : board.colors[l] # C_EMPTY
  /\ hist.koRecapBlockHash = hist.koRecapBlocked
  /\ LET pla == hist.presumedNextMovePla IN
     PassForeseen(pla, makeBoardMoveAssumeLegal(hist, board, PASS_LOC, pla, FALSE).hist)

\* Pass-alive stones and territory stay so whatever the opponent plays and however
\* often their owner passes (Benson's algorithm in calculateAreaForPla, in the variant
\* for either suicide rule).
PassAliveStays ==
  [][~Editing /\ hist'.numMoves > hist.numMoves =>
       LET suicide == hist.rules.multiStoneSuicideLegal
           pla == hist'.presumedNextMovePla
           before == PassAlive(board, suicide)
           after == PassAlive(board', suicide)
       IN \A l \in Locs(board) : before[l] = pla => after[l] = pla]_vars

\* Every game that is played on by its rules ends before the bound on its moves: no
\* cycle of captures, passes, buttons and phases goes on for ever.
EveryGameEnds ==
  ~Editing /\ setup.toTheEnd => hist.over.isGameFinished \/ hist.numMoves < setup.moves
=============================================================================
