----------------------------- MODULE Contribute -----------------------------
(***************************************************************************)
(* The contribute command of command/contribute.cpp: task loops that ask   *)
(* the server for tasks, download and load the nets they need and queue    *)
(* their games, and game threads that play, upload and release the nets.   *)
(*                                                                         *)
(* taskLoopMutex is a plain mutex here, and so it is in the code:          *)
(* PriorityLock::lockLowPriority locks with high priority, and nothing     *)
(* ever waits for numHighPriorityThreads to come down.  A failed upload is *)
(* given up.  Exceptions (another run, a corrupted file) end the process.  *)
(* The thread that downloads ahead is one action; its join is left out.    *)
(***************************************************************************)
EXTENDS SelfplayManager, Sequences

CONSTANTS
  TaskLoops, Workers,       \* the task loop threads and the game threads
  SELF, RATING,             \* selfplayManager and ratingManager
  NONE,                     \* no thread, no model, no net
  Names,                    \* the models of the server
  taskRepFactor, maxRatingMatches, onlyPlayRatingMatches,
  MaxTasks                  \* bound: the tasks the server hands out

ASSUME ContributeAssumption ==
  /\ {SELF, RATING} \subseteq Managers /\ SELF # RATING
  /\ NONE \notin TaskLoops \cup Names \cup Nets
  /\ taskRepFactor \in Nat \ {0} /\ maxRatingMatches \in Nat /\ MaxTasks \in Nat
  /\ onlyPlayRatingMatches \in BOOLEAN
  /\ IsFiniteSet(TaskLoops) /\ Workers # {}

VARIABLES
  tasker,           \* task loop -> where it is, its task and the managers of its nets
  worker,           \* game thread -> where it is and its GameTask
  taskLoopMutex,    \* the owner
  gameTaskQueue, queueReadOnly,
  numRatingGamesActive,
  modelsPresent,    \* the models in modelsDir
  tasks             \* the number of tasks handed out

contributeVars == <<tasker, worker, taskLoopMutex, gameTaskQueue, queueReadOnly,
                    numRatingGamesActive, modelsPresent, tasks>>

Idle == [pc |-> "top", isRatingGame |-> FALSE, black |-> NONE, white |-> NONE,
         failed |-> FALSE, blackManager |-> NONE, whiteManager |-> NONE, rep |-> 0,
         nnEvalBlack |-> NONE, nnEvalWhite |-> NONE]
NoGame == [isRatingGame |-> FALSE, blackManager |-> NONE, whiteManager |-> NONE,
           nnEvalBlack |-> NONE, nnEvalWhite |-> NONE]

-----------------------------------------------------------------------------
(* taskLoop                                                                *)

Tasking(t, pc) == tasker[t].pc = pc
GoTask(t, pc) == [tasker EXCEPT ![t].pc = pc]

\* A break or continue, out of the scope of taskLock.
Leave(t, pc) ==
  /\ taskLoopMutex' = NONE
  /\ tasker' = [tasker EXCEPT ![t] = [Idle EXCEPT !.pc = pc]]

StartTaskLoop(t) ==
  /\ Tasking(t, "top")
  /\ tasker' = GoTask(t, IF shouldStop THEN "ended" ELSE "lock")
  /\ UNCHANGED <<managerVars, worker, taskLoopMutex, gameTaskQueue, queueReadOnly,
                 numRatingGamesActive, modelsPresent, tasks, shouldStop, main>>

LockTasks(t) ==
  /\ Tasking(t, "lock") \/ Tasking(t, "relock")
  /\ taskLoopMutex = NONE
  /\ taskLoopMutex' = t
  /\ tasker' = GoTask(t, IF Tasking(t, "lock") THEN "locked" ELSE "relocked")
  /\ UNCHANGED <<managerVars, worker, gameTaskQueue, queueReadOnly, numRatingGamesActive,
                 modelsPresent, tasks, shouldStop, main>>

\* The places where a task loop that has the lock looks at shouldStop.
StopTasking(t) ==
  /\ tasker[t].pc \in {"locked", "relocked", "present", "loaded"} /\ shouldStop
  /\ Leave(t, "ended")
  /\ UNCHANGED <<managerVars, worker, gameTaskQueue, queueReadOnly, numRatingGamesActive,
                 modelsPresent, tasks, shouldStop, main>>

\* Too soon after the last query, no task because the command is to stop, or a failed
\* download.
GiveUp(t) ==
  /\ \/ Tasking(t, "locked") /\ ~shouldStop
     \/ Tasking(t, "ask") /\ shouldStop
     \/ Tasking(t, "relocked") /\ ~shouldStop /\ tasker[t].failed
  /\ Leave(t, "top")
  /\ UNCHANGED <<managerVars, worker, gameTaskQueue, queueReadOnly, numRatingGamesActive,
                 modelsPresent, tasks, shouldStop, main>>

\* See which rating games are over.
CleanupRating(t) ==
  /\ Tasking(t, "locked") /\ ~shouldStop
  /\ \E old \in SUBSET Nets : cleanupUnusedModelsOlderThan(RATING, old)
  /\ tasker' = GoTask(t, "ask")
  /\ UNCHANGED <<worker, taskLoopMutex, gameTaskQueue, queueReadOnly, numRatingGamesActive,
                 modelsPresent, tasks, shouldStop, main>>

allowRatingTask ==
  /\ maxRatingMatches > 0
  /\ numRatingGamesActive <= (maxRatingMatches - 1) * taskRepFactor
  /\ Cardinality(modelDatas[RATING]) <= maxRatingMatches * 2 - 2

\* getNextTask: a rating task has two nets, a selfplay task one.
AskForTask(t) ==
  /\ Tasking(t, "ask") /\ tasks < MaxTasks
  /\ \E isRatingGame \in BOOLEAN, black, white \in Names :
       /\ IF isRatingGame THEN allowRatingTask ELSE ~onlyPlayRatingMatches /\ black = white
       /\ tasker' = [tasker EXCEPT ![t] = [Idle EXCEPT !.pc = "fetch", !.black = black,
                                             !.white = white, !.isRatingGame = isRatingGame]]
  /\ tasks' = tasks + 1
  /\ UNCHANGED <<managerVars, worker, taskLoopMutex, gameTaskQueue, queueReadOnly,
                 numRatingGamesActive, modelsPresent, shouldStop, main>>

Fetching(t) == \/ Tasking(t, "fetch")
               \/ Tasking(t, "relocked") /\ ~tasker[t].failed /\ ~shouldStop
Wanted(t) == {tasker[t].black, tasker[t].white}

ModelsArePresent(t) ==
  /\ Fetching(t)
  /\ Wanted(t) \subseteq modelsPresent
  /\ tasker' = GoTask(t, "present")
  /\ UNCHANGED <<managerVars, worker, taskLoopMutex, gameTaskQueue, queueReadOnly,
                 numRatingGamesActive, modelsPresent, tasks, shouldStop, main>>

\* The lock is dropped for the download.
UnlockToDownload(t) ==
  /\ Fetching(t)
  /\ ~(Wanted(t) \subseteq modelsPresent)
  /\ taskLoopMutex' = NONE
  /\ tasker' = GoTask(t, "download")
  /\ UNCHANGED <<managerVars, worker, gameTaskQueue, queueReadOnly, numRatingGamesActive,
                 modelsPresent, tasks, shouldStop, main>>

\* The download of either model may fail, and does when it is told to stop.
Download(t) ==
  /\ Tasking(t, "download")
  /\ \E done \in SUBSET Wanted(t) :
       /\ modelsPresent' = modelsPresent \cup done
       /\ tasker' = [tasker EXCEPT ![t].pc = "relock",
                                   ![t].failed = ~(Wanted(t) \subseteq modelsPresent \cup done)]
  /\ UNCHANGED <<managerVars, worker, taskLoopMutex, gameTaskQueue, queueReadOnly,
                 numRatingGamesActive, tasks, shouldStop, main>>

\* withDataWriters holds the managerMutex of a game of training data over its upload, so
\* that of RATING is never held.  Who wants a net of that manager waits.
MutexFree(manager) ==
  \A w \in Workers : worker[w].pc = "upload" => worker[w].game.blackManager # manager

\* Unused nets are unloaded; a rating game uses a net of selfplayManager if it is there.
ManagerOf(t, name, kept) ==
  IF ~tasker[t].isRatingGame \/ \E n \in kept : net[n].name = name THEN SELF ELSE RATING

ChooseManagers(t) ==
  /\ Tasking(t, "present") /\ ~shouldStop /\ MutexFree(SELF)
  /\ \E old \in SUBSET Nets : cleanupUnusedModelsOlderThan(SELF, old)
  /\ tasker' = [tasker EXCEPT ![t].pc = "cleanRating",
       ![t].blackManager = ManagerOf(t, tasker[t].black, modelDatas'[SELF]),
       ![t].whiteManager = ManagerOf(t, tasker[t].white, modelDatas'[SELF])]
  /\ UNCHANGED <<worker, taskLoopMutex, gameTaskQueue, queueReadOnly, numRatingGamesActive,
                 modelsPresent, tasks, shouldStop, main>>

CleanupRatingAgain(t) ==
  /\ Tasking(t, "cleanRating")
  /\ \E old \in SUBSET Nets : cleanupUnusedModelsOlderThan(RATING, old)
  /\ tasker' = GoTask(t, "loadBlack")
  /\ UNCHANGED <<worker, taskLoopMutex, gameTaskQueue, queueReadOnly, numRatingGamesActive,
                 modelsPresent, tasks, shouldStop, main>>

\* loadNeuralNetIntoManager does nothing for a net that the manager has.
Load(manager, name) ==
  IF hasModel(manager, name) THEN UNCHANGED managerVars
  ELSE \E n \in Nets : loadModelNoDataWritingLoop(manager, n, name)

LoadNets(t) ==
  /\ \/ /\ Tasking(t, "loadBlack") /\ MutexFree(tasker[t].blackManager)
        /\ Load(tasker[t].blackManager, tasker[t].black)
     \/ /\ Tasking(t, "loadWhite") /\ MutexFree(tasker[t].whiteManager)
        /\ Load(tasker[t].whiteManager, tasker[t].white)
  /\ tasker' = GoTask(t, IF Tasking(t, "loadBlack") THEN "loadWhite" ELSE "loaded")
  /\ UNCHANGED <<worker, taskLoopMutex, gameTaskQueue, queueReadOnly, numRatingGamesActive,
                 modelsPresent, tasks, shouldStop, main>>

\* Files that nobody used for long are deleted, which with deleteUnusedModelsAfterDays = 0
\* may be those of this task.
DeleteModels(t) ==
  /\ Tasking(t, "loaded") /\ ~shouldStop
  /\ modelsPresent' \in SUBSET modelsPresent
  /\ tasker' = GoTask(t, "acquire")
  /\ UNCHANGED <<managerVars, worker, taskLoopMutex, gameTaskQueue, queueReadOnly,
                 numRatingGamesActive, tasks, shouldStop, main>>

\* acquireModel for both sides, and the count of rating games.
AcquireNets(t) ==
  LET b == tasker[t].blackManager  w == tasker[t].whiteManager IN
  /\ Tasking(t, "acquire") /\ MutexFree(b) /\ MutexFree(w)
  /\ hasModel(b, tasker[t].black) /\ hasModel(w, tasker[t].white)
  /\ LET black == Named(modelDatas[b], net, tasker[t].black)
         white == Named(modelDatas[w], net, tasker[t].white)
     IN /\ net' = acquired(acquired(net, black), white)
        /\ tasker' = [tasker EXCEPT ![t].pc = "push", ![t].nnEvalBlack = black,
                                    ![t].nnEvalWhite = white]
  /\ numRatingGamesActive' = numRatingGamesActive + (IF tasker[t].isRatingGame THEN 1 ELSE 0)
  /\ UNCHANGED <<command, modelDatas, numDataWriteLoopsActive, written, worker,
                 taskLoopMutex, gameTaskQueue, queueReadOnly, modelsPresent, tasks,
                 shouldStop, main>>

\* The game of a repetition, with either net as black.
GameOf(k, swap) ==
  [isRatingGame |-> k.isRatingGame,
   blackManager |-> IF swap THEN k.whiteManager ELSE k.blackManager,
   whiteManager |-> IF swap THEN k.blackManager ELSE k.whiteManager,
   nnEvalBlack |-> IF swap THEN k.nnEvalWhite ELSE k.nnEvalBlack,
   nnEvalWhite |-> IF swap THEN k.nnEvalBlack ELSE k.nnEvalWhite]

\* waitPush into the queue of one, with the lock held.
PushGame(t) ==
  /\ Tasking(t, "push") /\ gameTaskQueue = <<>>
  /\ \E swap \in BOOLEAN : gameTaskQueue' = <<GameOf(tasker[t], swap)>>
  /\ IF tasker[t].rep + 1 = taskRepFactor THEN Leave(t, "top")
     ELSE /\ tasker' = [tasker EXCEPT ![t].pc = "acquire", ![t].rep = @ + 1]
          /\ UNCHANGED taskLoopMutex
  /\ UNCHANGED <<managerVars, worker, queueReadOnly, numRatingGamesActive, modelsPresent,
                 tasks, shouldStop, main>>

\* preDownloadLoop, once in a while: the newest model, if it is not there.
PreDownload ==
  /\ ~shouldStop
  /\ \E newest \in Names \ modelsPresent : modelsPresent' = modelsPresent \cup {newest}
  /\ UNCHANGED <<managerVars, tasker, worker, taskLoopMutex, gameTaskQueue, queueReadOnly,
                 numRatingGamesActive, tasks, shouldStop, main>>

TaskLoop(t) ==
  \/ StartTaskLoop(t) \/ LockTasks(t) \/ StopTasking(t) \/ GiveUp(t) \/ CleanupRating(t)
  \/ AskForTask(t) \/ ModelsArePresent(t) \/ UnlockToDownload(t) \/ Download(t)
  \/ ChooseManagers(t) \/ CleanupRatingAgain(t) \/ LoadNets(t) \/ DeleteModels(t)
  \/ AcquireNets(t) \/ PushGame(t)

-----------------------------------------------------------------------------
(* runGameLoop                                                             *)

Working(w, pc) == worker[w].pc = pc
GoWorker(w, pc) == [worker EXCEPT ![w].pc = pc]

PopGame(w) ==
  /\ Working(w, "pop") /\ gameTaskQueue # <<>>
  /\ gameTaskQueue' = Tail(gameTaskQueue)
  /\ worker' = [worker EXCEPT ![w] = [pc |-> IF shouldStop THEN "releaseBlack" ELSE "play",
                                      game |-> Head(gameTaskQueue)]]
  /\ UNCHANGED <<managerVars, tasker, taskLoopMutex, queueReadOnly, numRatingGamesActive,
                 modelsPresent, tasks, shouldStop, main>>

\* runAndUploadSingleGame.  A game that is not interrupted is uploaded; a rating game
\* without any lock.  The upload may fail.
PlayGame(w) ==
  /\ Working(w, "play")
  /\ \/ worker' = GoWorker(w, "releaseBlack")
     \/ /\ ~worker[w].game.isRatingGame /\ MutexFree(worker[w].game.blackManager)
        /\ worker' = GoWorker(w, "upload")
  /\ UNCHANGED <<managerVars, tasker, taskLoopMutex, gameTaskQueue, queueReadOnly,
                 numRatingGamesActive, modelsPresent, tasks, shouldStop, main>>

UploadGame(w) ==
  /\ Working(w, "upload")
  /\ worker' = GoWorker(w, "releaseBlack")
  /\ UNCHANGED <<managerVars, tasker, taskLoopMutex, gameTaskQueue, queueReadOnly,
                 numRatingGamesActive, modelsPresent, tasks, shouldStop, main>>

ReleaseBlack(w) ==
  /\ Working(w, "releaseBlack") /\ MutexFree(worker[w].game.blackManager)
  /\ release(worker[w].game.blackManager, worker[w].game.nnEvalBlack)
  /\ worker' = [worker EXCEPT ![w].pc = "releaseWhite", ![w].game.nnEvalBlack = NONE]
  /\ UNCHANGED <<tasker, taskLoopMutex, gameTaskQueue, queueReadOnly, numRatingGamesActive,
                 modelsPresent, tasks, shouldStop, main>>

ReleaseWhite(w) ==
  /\ Working(w, "releaseWhite") /\ MutexFree(worker[w].game.whiteManager)
  /\ release(worker[w].game.whiteManager, worker[w].game.nnEvalWhite)
  /\ worker' = [worker EXCEPT ![w].pc = "count", ![w].game.nnEvalWhite = NONE]
  /\ UNCHANGED <<tasker, taskLoopMutex, gameTaskQueue, queueReadOnly, numRatingGamesActive,
                 modelsPresent, tasks, shouldStop, main>>

CountedRating(game) == IF game.isRatingGame THEN 1 ELSE 0

CountDown(w) ==
  /\ Working(w, "count")
  /\ numRatingGamesActive' = numRatingGamesActive - CountedRating(worker[w].game)
  /\ worker' = [worker EXCEPT ![w] = [pc |-> "pop", game |-> NoGame]]
  /\ UNCHANGED <<managerVars, tasker, taskLoopMutex, gameTaskQueue, queueReadOnly,
                 modelsPresent, tasks, shouldStop, main>>

EndWorker(w) ==
  /\ Working(w, "pop") /\ gameTaskQueue = <<>> /\ queueReadOnly
  /\ worker' = GoWorker(w, "ended")
  /\ UNCHANGED <<managerVars, tasker, taskLoopMutex, gameTaskQueue, queueReadOnly,
                 numRatingGamesActive, modelsPresent, tasks, shouldStop, main>>

RunGameLoop(w) ==
  \/ PopGame(w) \/ PlayGame(w) \/ UploadGame(w) \/ ReleaseBlack(w) \/ ReleaseWhite(w)
  \/ CountDown(w) \/ EndWorker(w)

-----------------------------------------------------------------------------
(* The main thread                                                         *)

JoinTaskLoops ==
  /\ main = "playing" /\ \A t \in TaskLoops : Tasking(t, "ended")
  /\ queueReadOnly' = TRUE /\ shouldStop' = TRUE
  /\ main' = "joinWorkers"
  /\ UNCHANGED <<managerVars, tasker, worker, taskLoopMutex, gameTaskQueue,
                 numRatingGamesActive, modelsPresent, tasks>>

JoinWorkers ==
  /\ main = "joinWorkers" /\ \A w \in Workers : Working(w, "ended")
  /\ main' = "destroySelf"
  /\ UNCHANGED <<managerVars, contributeVars, shouldStop>>

DestroyManagers ==
  /\ \/ main = "destroySelf" /\ Destroy(SELF) /\ main' = "destroyRating"
     \/ main = "destroyRating" /\ Destroy(RATING) /\ main' = "ended"
  /\ UNCHANGED <<contributeVars, shouldStop>>

ContributeMain == JoinTaskLoops \/ JoinWorkers \/ DestroyManagers

ContributeNext ==
  \/ \E t \in TaskLoops : TaskLoop(t)
  \/ \E w \in Workers : RunGameLoop(w)
  \/ PreDownload
  \/ ContributeMain

ContributeInit ==
  /\ tasker = [t \in TaskLoops |-> Idle]
  /\ worker = [w \in Workers |-> [pc |-> "pop", game |-> NoGame]]
  /\ taskLoopMutex = NONE
  /\ gameTaskQueue = <<>> /\ queueReadOnly = FALSE
  /\ numRatingGamesActive = 0 /\ modelsPresent = {} /\ tasks = 0

\* The command by itself, told to stop at any time.
ContributeSignal == signalHandler /\ UNCHANGED <<managerVars, contributeVars>>
ContributeSpec ==
  /\ command = "contribute" /\ main = "playing" /\ shouldStop = FALSE
  /\ NewManagers /\ ContributeInit
  /\ [][ContributeNext \/ ContributeSignal]_<<managerVars, contributeVars, shouldStop, main>>

-----------------------------------------------------------------------------
(* Properties                                                              *)

\* The games that exist: those a task loop is about to queue, queued, or in a game thread.
Games ==
  {<<"task loop", t, GameOf(tasker[t], FALSE)>> : t \in {s \in TaskLoops : Tasking(s, "push")}}
  \cup {<<"queue", i, gameTaskQueue[i]>> : i \in DOMAIN gameTaskQueue}
  \cup {<<"game thread", w, worker[w].game>> :
           w \in {x \in Workers : worker[x].pc \notin {"pop", "ended"}}}

\* Every game has its nets until it has released them, whichever of the two managers
\* they came from, although the task loops unload nets, share them between tasks and
\* drop their lock in between; a net is counted once for each side that it plays, no
\* manager loads a model twice, and no acquireModel comes back with nothing.
GamesHaveNets ==
  command = "contribute" =>
    /\ \A n \in Nets : net[n].acquireCount = Cardinality({g \in Games : g[3].nnEvalBlack = n})
                                           + Cardinality({g \in Games : g[3].nnEvalWhite = n})
    /\ \A g \in Games :
         /\ g[3].nnEvalBlack # NONE => g[3].nnEvalBlack \in modelDatas[g[3].blackManager]
         /\ g[3].nnEvalWhite # NONE => g[3].nnEvalWhite \in modelDatas[g[3].whiteManager]
    /\ \A t \in TaskLoops : Tasking(t, "acquire") =>
         /\ hasModel(tasker[t].blackManager, tasker[t].black)
         /\ hasModel(tasker[t].whiteManager, tasker[t].white)
    /\ \A m \in Managers : \A i, j \in modelDatas[m] :
         ~net[i].deleted /\ (net[i].name = net[j].name => i = j)
    /\ \A t \in TaskLoops : Tasking(t, "push") => ~queueReadOnly

\* The rating games that are being played are no more than the evaluators of rating games
\* and the queues of their data are sized for.  It does not hold: a task is admitted under the
\* lock, the lock is dropped to download its models, its games are counted later, and
\* meanwhile every other task loop may have been admitted on the same count.
maxSimultaneousRatingGamesPossible ==
  LET matches == taskRepFactor * maxRatingMatches  games == Cardinality(Workers)
  IN IF matches < games THEN matches ELSE games

RatingGamesAsSized ==
  Cardinality({w \in Workers : Working(w, "play") /\ worker[w].game.isRatingGame})
    <= maxSimultaneousRatingGamesPossible

\* What does hold, and is proved: numRatingGamesActive counts the rating games, and they are
\* bounded by the chunks the command has room for and one more for each task loop but one,
\* all of which may be admitted beyond line 560's bound.
RatingGamesBounded ==
  /\ numRatingGamesActive = Cardinality({g \in Games : g[3].isRatingGame})
  /\ numRatingGamesActive <= IF maxRatingMatches = 0 THEN 0 ELSE
       (maxRatingMatches - 1 + Cardinality(TaskLoops)) * taskRepFactor
=============================================================================
