------------------------------ MODULE MCGoGame ------------------------------
EXTENDS GoGame

Rules(ko, scoring, tax, suicide, button) ==
  [koRule |-> ko, scoringRule |-> scoring, taxRule |-> tax,
   multiStoneSuicideLegal |-> suicide, hasButton |-> button, komi |-> 1]

Simple      == Rules("SIMPLE", "AREA", "NONE", TRUE, FALSE)
Japanese    == Rules("SIMPLE", "TERRITORY", "ALL", FALSE, FALSE)
Tromp       == Rules("POSITIONAL", "AREA", "NONE", TRUE, FALSE)
Positional  == Rules("POSITIONAL", "AREA", "SEKI", FALSE, TRUE)
Situational == Rules("SITUATIONAL", "TERRITORY", "NONE", TRUE, FALSE)
Spight      == Rules("SPIGHT", "AREA", "ALL", FALSE, FALSE)
Button      == Rules("SPIGHT", "AREA", "ALL", TRUE, TRUE)
SituArea    == Rules("SITUATIONAL", "AREA", "SEKI", TRUE, TRUE)

\* The stones of a board given row by row, with columns xs.
Stones(xs, rows) ==
  SelectSeq([i \in DOMAIN rows |-> <<getLoc((i - 1) % xs, (i - 1) \div xs, xs), rows[i]>>],
            LAMBDA s : s[2] # C_EMPTY)

\* A board to edit n times, with an undo stack of depth d.
Edited(xs, rows, n, d) ==
  [x_size |-> xs, y_size |-> Len(rows) \div xs, stones |-> Stones(xs, rows),
   edits |-> n, depth |-> d, moves |-> 0, toTheEnd |-> FALSE, rules |-> {}, meddle |-> FALSE]

\* A game of m moves on it, and games played to their end.
Game(xs, rows, m, rules) == [Edited(xs, rows, 0, 0) EXCEPT !.moves = m, !.rules = rules]
ToTheEnd(xs, rows, m, rules) == [Game(xs, rows, m, rules) EXCEPT !.toTheEnd = TRUE]

CornerKo == <<0,1,2, 1,0,2, 2,1,0>>
Ring     == <<1,1,1, 1,0,1, 1,1,1>>
RowKo    == <<0,1,2,0>>
TwoEyes  == <<0,1,0,2, 1,1,1,0>>

MCSetups ==
  { Edited(3, <<0,0,0, 0,0,0>>, 3, 2), Edited(3, CornerKo, 3, 2), Edited(3, Ring, 3, 2),
    ToTheEnd(2, <<0,0>>, 30, {Simple, Japanese, Tromp, Positional, Spight, SituArea}),
    Game(4, RowKo, 8, {Japanese, Positional, Spight}),
    Game(4, RowKo, 6, {Situational}),
    Game(2, <<0,0, 0,0>>, 6, {Tromp, Positional}),
    Game(4, TwoEyes, 5, {Simple, Positional}),
    [Game(3, CornerKo, 3, {Japanese, Button}) EXCEPT !.edits = 1],
    [Game(2, <<0,0>>, 4, {Situational, Button}) EXCEPT !.meddle = TRUE] }
=============================================================================
