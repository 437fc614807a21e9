-------------------------- MODULE SelfplayCommand --------------------------
(***************************************************************************)
(* The selfplay command of command/selfplay.cpp: game threads that play    *)
(* with the latest net, or switch to it in the middle of a game, and push  *)
(* their games to the data writing threads; a thread that loads new nets;  *)
(* and the end of the command, by its number of games or by a signal.      *)
(*                                                                         *)
(* Every new net has a name of its own.  Exceptions end the process and    *)
(* are not modelled: HeldNetsStay says that the manager throws none.       *)
(***************************************************************************)
EXTENDS SelfplayManager

CONSTANTS
  Players,            \* the game threads
  SELFPLAY,           \* the manager of the command
  NULL,
  maxGamesTotal

ASSUME SelfplayCommandAssumption ==
  SELFPLAY \in Managers /\ IsFiniteSet(Players) /\ NULL \notin Nets /\ maxGamesTotal \in Nat

VARIABLES
  player,         \* game thread -> where it is, its nnEval, newNNEval and gameData
  loader,         \* where the model loading thread is
  numGamesStarted,
  finished        \* net -> games that ended with data for it (not in the code)

selfplayVars == <<player, loader, numGamesStarted, finished>>

Playing(p, pc) == player[p].pc = pc
GoPlayer(p, pc) == [player EXCEPT ![p].pc = pc]

NewPlayer == [pc |-> "top", nnEval |-> NULL, newNNEval |-> NULL, hasData |-> FALSE]

-----------------------------------------------------------------------------
(* gameLoop                                                                *)

StartLoop(p) ==
  /\ Playing(p, "top")
  /\ player' = IF shouldStop THEN GoPlayer(p, "ended") ELSE GoPlayer(p, "acquire")
  /\ UNCHANGED <<managerVars, loader, numGamesStarted, finished, shouldStop, main>>

AcquireLatest(p) ==
  /\ Playing(p, "acquire") /\ modelDatas[SELFPLAY] # {}
  /\ net' = acquired(net, Latest(modelDatas[SELFPLAY]))
  /\ player' = [player EXCEPT ![p] = [NewPlayer EXCEPT !.pc = "count",
                                                       !.nnEval = Latest(modelDatas[SELFPLAY])]]
  /\ UNCHANGED <<command, modelDatas, numDataWriteLoopsActive, written,
                 loader, numGamesStarted, finished, shouldStop, main>>

CountGame(p) ==
  /\ Playing(p, "count")
  /\ numGamesStarted' = numGamesStarted + 1
  /\ player' = GoPlayer(p, IF numGamesStarted < maxGamesTotal THEN "play" ELSE "release")
  /\ UNCHANGED <<managerVars, loader, finished, shouldStop, main>>

\* checkForNewNNEval, called in the middle of a game (not at every move).
CheckForNewNNEval(p) ==
  /\ Playing(p, "play") /\ modelDatas[SELFPLAY] # {}
  /\ net' = acquired(net, Latest(modelDatas[SELFPLAY]))
  /\ player' = [player EXCEPT ![p].pc = "switch",
                              ![p].newNNEval = Latest(modelDatas[SELFPLAY])]
  /\ UNCHANGED <<command, modelDatas, numDataWriteLoopsActive, written,
                 loader, numGamesStarted, finished, shouldStop, main>>

\* The old net is released, which is the new one if there is nothing new.
SwitchNet(p) ==
  /\ Playing(p, "switch")
  /\ release(SELFPLAY, player[p].nnEval)
  /\ player' = [player EXCEPT ![p].pc = "play", ![p].nnEval = player[p].newNNEval,
                              ![p].newNNEval = NULL]
  /\ UNCHANGED <<loader, numGamesStarted, finished, shouldStop, main>>

FinishGame(p) ==
  /\ Playing(p, "play")
  /\ finished' = [finished EXCEPT ![player[p].nnEval] = @ + 1]
  /\ player' = [player EXCEPT ![p].pc = "enqueue", ![p].hasData = TRUE]
  /\ UNCHANGED <<managerVars, loader, numGamesStarted, shouldStop, main>>

InterruptGame(p) ==
  /\ Playing(p, "play") /\ shouldStop
  /\ player' = GoPlayer(p, "release")
  /\ UNCHANGED <<managerVars, loader, numGamesStarted, finished, shouldStop, main>>

\* enqueueDataToWrite finds the net under the lock, and pushes without it.
FindQueue(p) ==
  /\ Playing(p, "enqueue") /\ player[p].nnEval \in modelDatas[SELFPLAY]
  /\ player' = GoPlayer(p, "push")
  /\ UNCHANGED <<managerVars, loader, numGamesStarted, finished, shouldStop, main>>

\* waitPush waits for room; into a closed queue it pushes nothing, and nobody looks.
PushData(p) ==
  LET n == player[p].nnEval IN
  /\ Playing(p, "push")
  /\ net[n].readOnly \/ net[n].queued < maxDataQueueSize
  /\ net' = IF net[n].readOnly THEN net ELSE [net EXCEPT ![n].queued = @ + 1]
  /\ player' = GoPlayer(p, "release")
  /\ UNCHANGED <<command, modelDatas, numDataWriteLoopsActive, written,
                 loader, numGamesStarted, finished, shouldStop, main>>

ReleaseNet(p) ==
  /\ Playing(p, "release")
  /\ release(SELFPLAY, player[p].nnEval)
  /\ player' = [player EXCEPT ![p] = [NewPlayer EXCEPT !.pc = IF player[p].hasData THEN "top"
                                                              ELSE "ended"]]
  /\ UNCHANGED <<loader, numGamesStarted, finished, shouldStop, main>>

GameLoop(p) ==
  \/ StartLoop(p) \/ AcquireLatest(p) \/ CountGame(p) \/ CheckForNewNNEval(p) \/ SwitchNet(p)
  \/ FinishGame(p) \/ InterruptGame(p) \/ FindQueue(p) \/ PushData(p) \/ ReleaseNet(p)

-----------------------------------------------------------------------------
(* modelLoadLoop                                                           *)

PollModels ==
  /\ loader = "top"
  /\ loader' = IF shouldStop THEN "ended" ELSE "load"
  /\ UNCHANGED <<managerVars, player, numGamesStarted, finished, shouldStop, main>>

LoadNewNet ==
  /\ loader = "load"
  /\ \E n \in Nets : loadModelAndStartDataWriting(SELFPLAY, n, n)
  /\ loader' = "loaded"
  /\ UNCHANGED <<player, numGamesStarted, finished, shouldStop, main>>

NoNewNet ==
  /\ loader = "load"
  /\ loader' = "loaded"
  /\ UNCHANGED <<managerVars, player, numGamesStarted, finished, shouldStop, main>>

\* Asleep until notified, or for 20 seconds.
SleepAndPoll ==
  /\ loader = "loaded"
  /\ loader' = IF shouldStop THEN "ended" ELSE "top"
  /\ UNCHANGED <<managerVars, player, numGamesStarted, finished, shouldStop, main>>

ModelLoadLoop == PollModels \/ LoadNewNet \/ NoNewNet \/ SleepAndPoll

-----------------------------------------------------------------------------
(* The main thread, and the signal handler                                 *)

JoinPlayers ==
  /\ main = "playing" /\ \A p \in Players : Playing(p, "ended")
  /\ shouldStop' = TRUE
  /\ main' = "joinLoader"
  /\ UNCHANGED <<managerVars, selfplayVars>>

JoinLoader ==
  /\ main = "joinLoader" /\ loader = "ended"
  /\ main' = "destroy"
  /\ UNCHANGED <<managerVars, selfplayVars, shouldStop>>

DestroyManager ==
  /\ main = "destroy"
  /\ Destroy(SELFPLAY)
  /\ main' = "wait"
  /\ UNCHANGED <<selfplayVars, shouldStop>>

AwaitWriters ==
  /\ main = "wait" /\ Destroyed(SELFPLAY)
  /\ main' = "ended"
  /\ UNCHANGED <<managerVars, selfplayVars, shouldStop>>

SelfplayMain == JoinPlayers \/ JoinLoader \/ DestroyManager \/ AwaitWriters

SelfplayNext ==
  \/ \E p \in Players : GameLoop(p)
  \/ ModelLoadLoop
  \/ SelfplayMain
  \/ \E n \in Nets : DataWriteLoop(n) /\ UNCHANGED <<selfplayVars, shouldStop, main>>

\* The first net is loaded before any thread starts.
SelfplayInit ==
  /\ command = "selfplay" /\ main = "playing" /\ shouldStop = FALSE
  /\ \E first \in Nets :
       /\ \A i \in Nets : i = first \/ NewerThan(i, first)
       /\ modelDatas = [m \in Managers |-> IF m = SELFPLAY THEN {first} ELSE {}]
       /\ net = [n \in Nets |-> IF n = first THEN ModelData(n, SELFPLAY, "running") ELSE NoNet]
  /\ numDataWriteLoopsActive = [m \in Managers |-> IF m = SELFPLAY THEN 1 ELSE 0]
  /\ written = [n \in Nets |-> 0] /\ finished = [n \in Nets |-> 0] /\ numGamesStarted = 0
  /\ player = [p \in Players |-> NewPlayer]
  /\ loader = "top"

\* The command by itself, told to stop at any time.
SelfplaySignal == signalHandler /\ UNCHANGED <<managerVars, selfplayVars>>
SelfplaySpec ==
  SelfplayInit /\ [][SelfplayNext \/ SelfplaySignal]_<<managerVars, selfplayVars, shouldStop, main>>

-----------------------------------------------------------------------------
(* Properties                                                              *)

\* A net is counted as often as it is held, and never cleaned up under a game thread
\* that plays with it, switches to it or is about to push a game to it, however loading,
\* switching and releasing interleave; so no method of the manager throws and no
\* assertion of the game threads, the destructor or the data writing threads fails.
HeldNetsStay ==
  command = "selfplay" =>
    /\ \A n \in Nets : net[n].acquireCount = Cardinality({p \in Players : player[p].nnEval = n})
                                           + Cardinality({p \in Players : player[p].newNNEval = n})
    /\ \A p \in Players : {player[p].nnEval, player[p].newNNEval} \ {NULL}
                            \subseteq {n \in modelDatas[SELFPLAY] : ~net[n].readOnly}
    /\ main \in {"playing", "joinLoader", "destroy"} => modelDatas[SELFPLAY] # {}
    /\ LoopAsserts

\* No finished game is lost between the thread that played it and the disk, or written as
\* one of another net: not by nets that are replaced while their games wait, and not by
\* the end of the command.
GamesKept ==
  /\ \A n \in Nets : finished[n] =
       Cardinality({p \in Players : player[p].pc \in {"enqueue", "push"} /\ player[p].nnEval = n})
       + (IF net[n].deleted THEN 0 ELSE net[n].queued) + written[n]
  /\ command = "selfplay" /\ main = "ended" => finished = written
=============================================================================
