----------------------------- MODULE Gatekeeper -----------------------------
(***************************************************************************)
(* The gatekeeper command of command/gatekeeper.cpp: the newest model of   *)
(* the test directory plays a match against the newest accepted one; game  *)
(* threads play the games, a thread tallies them and ends the match when   *)
(* it is decided, and the main thread moves the candidate to the accepted  *)
(* or to the rejected models.                                              *)
(*                                                                         *)
(* A model is known by its modification time.  The command line options    *)
(* are chosen when they are looked at.  A directory without a model file,  *)
(* a rename that fails, and exceptions, which end the process, are not     *)
(* modelled.                                                               *)
(***************************************************************************)
EXTENDS Command, Integers, Sequences, FiniteSets

CONSTANTS
  GameThreads,
  numGamesPerGating,  \* what MatchPairer has to give out
  MaxCandidates       \* bound: models that training exports

ASSUME GatekeeperAssumption ==
  /\ GameThreads # {} /\ IsFiniteSet(GameThreads)
  /\ numGamesPerGating \in Nat /\ MaxCandidates \in Nat

Models == 0 .. MaxCandidates

\* A game is worth two points; a draw or a game without result divides them as configured.
GamePoints == 2
NoData == -1

VARIABLES
  directory,   \* model -> where it is; "training" if it is not exported yet
  netAndStuff, \* the match
  gameThread   \* thread -> where it is, and the candidate's points in its gameData

gatekeeperVars == <<directory, netAndStuff, gameThread>>
gatekeeperState == <<directory, netAndStuff, gameThread, shouldStop, main>>

In(d) == {m \in Models : directory[m] = d}
Newest(m, S) == m \in S /\ \A i \in S : i <= m

\* data is the game that the data writing thread has popped.
NetAndStuff(candidate) ==
  [candidate |-> candidate, numGamesStarted |-> 0, finishedGameQueue |-> <<>>,
   isDraining |-> FALSE, data |-> NoData, numGamesTallied |-> 0, numBaselineWinPoints |-> 0,
   numCandidateWinPoints |-> 0, terminated |-> FALSE, dataIsWritten |-> FALSE]

\* No match.
NoCandidate == -1
NULLMatch == NetAndStuff(NoCandidate)

NoGames == [t \in GameThreads |-> [pc |-> "ended", gameData |-> NoData]]

-----------------------------------------------------------------------------
(* The game threads: gameLoop                                              *)

Gaming(t, pc) == gameThread[t].pc = pc
Go(t, pc, data) == gameThread' = [gameThread EXCEPT ![t] = [pc |-> pc, gameData |-> data]]

StopConditions == shouldStop \/ netAndStuff.terminated

NextGame(t) ==
  /\ Gaming(t, "next")
  /\ Go(t, IF StopConditions THEN "ended" ELSE "pair", NoData)
  /\ UNCHANGED <<directory, netAndStuff, shouldStop, main>>

GamesLeft == netAndStuff.numGamesStarted < numGamesPerGating

getMatchup(t) ==
  /\ Gaming(t, "pair")
  /\ netAndStuff' = IF GamesLeft THEN [netAndStuff EXCEPT !.numGamesStarted = @ + 1]
                    ELSE netAndStuff
  /\ Go(t, IF GamesLeft THEN "play" ELSE "ended", NoData)
  /\ UNCHANGED <<directory, shouldStop, main>>

\* A game that is stopped gives no data, not even if it was over when the stop was seen.
runGame(t) ==
  /\ Gaming(t, "play")
  /\ IF StopConditions THEN Go(t, "ended", NoData)
     ELSE \E points \in 0 .. GamePoints : Go(t, "push", points)
  /\ UNCHANGED <<directory, netAndStuff, shouldStop, main>>

PushGameData(t) ==
  /\ Gaming(t, "push")
  /\ netAndStuff' = IF netAndStuff.isDraining THEN netAndStuff
                    ELSE [netAndStuff EXCEPT
                            !.finishedGameQueue = Append(@, gameThread[t].gameData)]
  /\ Go(t, "next", NoData)
  /\ UNCHANGED <<directory, shouldStop, main>>

GateGameLoop(t) == NextGame(t) \/ getMatchup(t) \/ runGame(t) \/ PushGameData(t)

-----------------------------------------------------------------------------
(* The data writing thread: runWriteDataLoop                               *)

InMatch == main \in {"match", "drain"}

PopGameData ==
  /\ InMatch /\ netAndStuff.data = NoData /\ netAndStuff.finishedGameQueue # <<>>
  /\ netAndStuff' = [netAndStuff EXCEPT !.data = Head(netAndStuff.finishedGameQueue),
                                        !.finishedGameQueue = Tail(@)]
  /\ UNCHANGED <<directory, gameThread, shouldStop, main>>

\* Has one side won enough, with so many points to play for?
\* Mutant: the candidate, who wins ties, loses one.
Decided_Tie(baseline, candidate, remaining) ==
  candidate >= baseline + remaining \/ baseline >= candidate + remaining
Decided(baseline, candidate, remaining) ==
  candidate >= baseline + remaining \/ baseline > candidate + remaining

TallyGame ==
  LET data      == netAndStuff.data
      tallied   == netAndStuff.numGamesTallied + 1
      baseline  == netAndStuff.numBaselineWinPoints + GamePoints - data
      candidate == netAndStuff.numCandidateWinPoints + data
      remaining == numGamesPerGating - tallied
  IN /\ InMatch /\ data # NoData
     /\ netAndStuff' = [netAndStuff EXCEPT
          !.data = NoData, !.numGamesTallied = tallied, !.numBaselineWinPoints = baseline,
          !.numCandidateWinPoints = candidate,
          !.terminated = @ \/ /\ remaining > 0
                              /\ Decided(baseline, candidate, GamePoints * remaining)]
     /\ UNCHANGED <<directory, gameThread, shouldStop, main>>

\* The queue is closed and empty; main is notified.
EndTally ==
  /\ InMatch /\ netAndStuff.data = NoData /\ netAndStuff.finishedGameQueue = <<>>
  /\ netAndStuff.isDraining /\ ~netAndStuff.dataIsWritten
  /\ netAndStuff' = [netAndStuff EXCEPT !.dataIsWritten = TRUE]
  /\ UNCHANGED <<directory, gameThread, shouldStop, main>>

GateWriteLoop == PopGameData \/ TallyGame \/ EndTally

-----------------------------------------------------------------------------
(* The main thread                                                         *)

PollTestModels ==
  /\ main = "poll"
  /\ main' = IF shouldStop THEN "ended" ELSE "load"
  /\ UNCHANGED <<gatekeeperVars, shouldStop>>

\* loadLatestNeuralNet has loaded nothing: sleep, or quit with --quit-if-no-nets-to-test.
NothingLoaded ==
  /\ main' = "poll"
  /\ shouldStop' \in {shouldStop, TRUE}

NoNetsToTest ==
  /\ main = "load" /\ (In("test") = {} \/ In("accepted") = {})
  /\ NothingLoaded
  /\ UNCHANGED gatekeeperVars

\* Unless --no-autoreject-old-models; no net is loaded then either.
AutoReject ==
  /\ main = "load"
  /\ \E candidate \in In("test"), accepted \in In("accepted") :
       /\ Newest(candidate, In("test")) /\ Newest(accepted, In("accepted"))
       /\ accepted > candidate
       /\ directory' = [directory EXCEPT ![candidate] = "rejected"]
  /\ NothingLoaded
  /\ UNCHANGED <<netAndStuff, gameThread>>

loadLatestNeuralNet ==
  /\ main = "load" /\ In("accepted") # {}
  /\ \E candidate \in In("test") :
       Newest(candidate, In("test")) /\ netAndStuff' = NetAndStuff(candidate)
  /\ main' = "loaded"
  /\ UNCHANGED <<directory, gameThread, shouldStop>>

\* The stop flag is looked at again before the threads are started.
StartMatch ==
  /\ main = "loaded"
  /\ IF shouldStop THEN main' = "ended" /\ netAndStuff' = NULLMatch /\ UNCHANGED gameThread
     ELSE /\ main' = "match"
          /\ gameThread' = [t \in GameThreads |-> [pc |-> "next", gameData |-> NoData]]
          /\ UNCHANGED netAndStuff
  /\ UNCHANGED <<directory, shouldStop>>

JoinGameThreads ==
  /\ main = "match" /\ \A t \in GameThreads : Gaming(t, "ended")
  /\ netAndStuff' = [netAndStuff EXCEPT !.isDraining = TRUE]
  /\ main' = "drain"
  /\ UNCHANGED <<directory, gameThread, shouldStop>>

AwaitDataIsWritten ==
  /\ main = "drain" /\ netAndStuff.dataIsWritten
  /\ main' = "judge"
  /\ UNCHANGED <<gatekeeperVars, shouldStop>>

\* The candidate wins ties.
Verdict(baseline, candidate) == IF baseline > candidate THEN "rejected" ELSE "accepted"

JudgeCandidate ==
  /\ main = "judge"
  /\ IF ~shouldStop
     THEN /\ directory' = [directory EXCEPT ![netAndStuff.candidate] =
               Verdict(netAndStuff.numBaselineWinPoints, netAndStuff.numCandidateWinPoints)]
          /\ main' = "poll"
     ELSE main' = "ended" /\ UNCHANGED directory
  /\ netAndStuff' = NULLMatch
  /\ UNCHANGED <<gameThread, shouldStop>>

GatekeeperMain ==
  \/ PollTestModels \/ NoNetsToTest \/ AutoReject \/ loadLatestNeuralNet \/ StartMatch
  \/ JoinGameThreads \/ AwaitDataIsWritten \/ JudgeCandidate

\* Training exports a model, not always in the order of the modification times.
ExportModel ==
  /\ \E m \in In("training") : directory' = [directory EXCEPT ![m] = "test"]
  /\ UNCHANGED <<netAndStuff, gameThread, shouldStop, main>>

GatekeeperThreads == (\E t \in GameThreads : GateGameLoop(t)) \/ GateWriteLoop \/ GatekeeperMain

\* The command by itself, and the signal.
GatekeeperNext ==
  \/ GatekeeperThreads \/ ExportModel
  \/ signalHandler /\ UNCHANGED gatekeeperVars

\* There may be no accepted model to begin with.
GatekeeperInit ==
  /\ \E accepted \in Models \cup {NoCandidate} :
       directory = [m \in Models |-> IF m = accepted THEN "accepted" ELSE "training"]
  /\ netAndStuff = NULLMatch
  /\ gameThread = NoGames

GatekeeperSpec ==
  GatekeeperInit /\ shouldStop = FALSE /\ main = "poll" /\ [][GatekeeperNext]_gatekeeperState

-----------------------------------------------------------------------------
(* Properties                                                              *)

Points == 0 .. GamePoints

Matches ==
  [candidate : Models \cup {NoCandidate}, numGamesStarted : Nat,
   finishedGameQueue : Seq(Points), isDraining : BOOLEAN, data : Points \cup {NoData},
   numGamesTallied : Nat, numBaselineWinPoints : Nat, numCandidateWinPoints : Nat,
   terminated : BOOLEAN, dataIsWritten : BOOLEAN]

\* Every variable is of its type.
GatekeeperTypeOK ==
  /\ directory \in [Models -> {"training", "test", "accepted", "rejected"}]
  /\ netAndStuff \in Matches
  /\ gameThread \in [GameThreads -> [pc : {"next", "pair", "play", "push", "ended"},
                                     gameData : Points \cup {NoData}]]
  /\ shouldStop \in BOOLEAN
  /\ main \in {"poll", "load", "loaded", "match", "drain", "judge", "ended"}

\* A candidate leaves the test directory by a verdict that no games left unplayed could have
\* changed, with every finished game tallied, though threads were stopped in the middle of
\* games by the tally or by a signal; or because a newer model has been accepted.
VerdictStep ==
  \A c \in In("test") : directory'[c] # "test" =>
    \/ directory'[c] = "rejected" /\ \E m \in In("accepted") : m > c
    \/ LET left == GamePoints * (numGamesPerGating - netAndStuff.numGamesTallied) IN
       /\ netAndStuff.candidate = c
       /\ left >= 0
       /\ \A t \in GameThreads : gameThread[t].gameData = NoData
       /\ netAndStuff.finishedGameQueue = <<>> /\ netAndStuff.data = NoData
       /\ \A points \in 0 .. left :
            directory'[c] = Verdict(netAndStuff.numBaselineWinPoints + left - points,
                                    netAndStuff.numCandidateWinPoints + points)
\* Every verdict stands.
VerdictStands == [][VerdictStep]_gatekeeperState
=============================================================================
