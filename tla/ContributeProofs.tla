--------------------------- MODULE ContributeProofs ---------------------------
(***************************************************************************)
(* GamesHaveNets and RatingGamesBounded of Contribute, for every number of *)
(* task loops, game threads, models, nets, tasks and games of a task.      *)
(***************************************************************************)
EXTENDS Contribute, FiniteSetTheorems, TLAPS

-----------------------------------------------------------------------------
(* The inductive invariant                                                 *)

Used == {SELF, RATING}

NetData ==
  [name : Names \cup {0}, manager : Managers \cup {0}, acquireCount : Int, queued : Int,
   readOnly : BOOLEAN, loop : {"none"}, deleted : BOOLEAN]

\* Where a task loop is without the lock, and with it: before its task, with its task,
\* with the managers it has chosen, and with one net and with both nets loaded.
Outside == {"top", "lock", "download", "relock", "ended"}
Before == {"locked", "ask"}
Chosen == {"cleanRating", "loadBlack"}
Loaded == {"loaded", "acquire", "push"}
Managed == Chosen \cup {"loadWhite"} \cup Loaded
WithTask == {"fetch", "relocked", "present"} \cup Managed
Inside == Before \cup WithTask

TaskerData ==
  [pc : Outside \cup Inside, isRatingGame : BOOLEAN, black : Names \cup {NONE},
   white : Names \cup {NONE}, failed : BOOLEAN, blackManager : Used \cup {NONE},
   whiteManager : Used \cup {NONE}, rep : Nat, nnEvalBlack : Nets \cup {NONE},
   nnEvalWhite : Nets \cup {NONE}]

GameTask ==
  [isRatingGame : BOOLEAN, blackManager : Used \cup {NONE}, whiteManager : Used \cup {NONE},
   nnEvalBlack : Nets \cup {NONE}, nnEvalWhite : Nets \cup {NONE}]

WorkerData ==
  [pc : {"pop", "play", "upload", "releaseBlack", "releaseWhite", "count", "ended"},
   game : GameTask]

TypeOK ==
  /\ command = "contribute"
  /\ modelDatas \in [Managers -> SUBSET Nets]
  /\ net \in [Nets -> NetData]
  /\ tasker \in [TaskLoops -> TaskerData]
  /\ worker \in [Workers -> WorkerData]
  /\ taskLoopMutex \in TaskLoops \cup {NONE}
  /\ gameTaskQueue = <<>> \/ \E k \in GameTask : gameTaskQueue = <<k>>
  /\ queueReadOnly \in BOOLEAN
  /\ numRatingGamesActive \in Int
  /\ main \in {"playing", "joinWorkers", "destroySelf", "destroyRating", "ended"}

\* Who has the lock, and what a task loop knows by then.
Locked == \A t \in TaskLoops : tasker[t].pc \in Inside <=> taskLoopMutex = t

TaskOK(t) ==
  /\ tasker[t].pc \in {"top", "lock", "ended"} \cup Before => ~tasker[t].isRatingGame
  /\ tasker[t].pc \in WithTask \cup {"download", "relock"} =>
       tasker[t].black \in Names /\ tasker[t].white \in Names
  /\ tasker[t].pc \in Managed =>
       tasker[t].blackManager \in Used /\ tasker[t].whiteManager \in Used
  /\ tasker[t].pc \in {"loadWhite"} \cup Loaded => hasModel(tasker[t].blackManager, tasker[t].black)
  /\ tasker[t].pc \in Loaded => hasModel(tasker[t].whiteManager, tasker[t].white)
  /\ tasker[t].rep < taskRepFactor
  /\ tasker[t].pc \notin {"acquire", "push"} => tasker[t].rep = 0

Tasks == \A t \in TaskLoops : TaskOK(t)

\* A net that a manager keeps is its own and alive; it has no model twice.
Kept ==
  /\ \A m \in Managers : \A n \in modelDatas[m] : ~net[n].deleted /\ net[n].manager = m
  /\ \A m \in Managers : \A i, j \in modelDatas[m] : net[i].name = net[j].name => i = j

\* The games, and where their nets are.
Pushed == {<<"task loop", t, GameOf(tasker[t], FALSE)>> :
             t \in {s \in TaskLoops : Tasking(s, "push")}}
Queued == {<<"queue", i, gameTaskQueue[i]>> : i \in DOMAIN gameTaskQueue}
Played == {<<"game thread", w, worker[w].game>> :
             w \in {x \in Workers : worker[x].pc \notin {"pop", "ended"}}}

BlackOf(G, n) == {g \in G : g[3].nnEvalBlack = n}
WhiteOf(G, n) == {g \in G : g[3].nnEvalWhite = n}
RatingOf(G) == {g \in G : g[3].isRatingGame}

Uses(G, n) == Cardinality(BlackOf(G, n)) + Cardinality(WhiteOf(G, n))

Counted ==
  /\ IsFiniteSet(Games)
  /\ \A n \in Nets : net[n].acquireCount = Uses(Games, n)
  /\ numRatingGamesActive = Cardinality(RatingOf(Games))

Provided(k) ==
  /\ k.blackManager \in Used /\ k.whiteManager \in Used
  /\ k.nnEvalBlack # NONE => k.nnEvalBlack \in modelDatas[k.blackManager]
  /\ k.nnEvalWhite # NONE => k.nnEvalWhite \in modelDatas[k.whiteManager]

\* A game keeps both nets until its thread releases them.
HasBoth(k) == k.nnEvalBlack # NONE /\ k.nnEvalWhite # NONE
HeldByTaskLoop(t) ==
  Tasking(t, "push") => Provided(GameOf(tasker[t], FALSE)) /\ HasBoth(tasker[t])
HeldInQueue ==
  \A i \in DOMAIN gameTaskQueue : Provided(gameTaskQueue[i]) /\ HasBoth(gameTaskQueue[i])
HeldByWorker(w) ==
  /\ worker[w].pc \notin {"pop", "ended"} => Provided(worker[w].game)
  /\ worker[w].pc \in {"play", "upload", "releaseBlack"} => HasBoth(worker[w].game)
  /\ worker[w].pc = "releaseWhite" =>
       worker[w].game.nnEvalBlack = NONE /\ worker[w].game.nnEvalWhite # NONE
  /\ worker[w].pc = "count" =>
       worker[w].game.nnEvalBlack = NONE /\ worker[w].game.nnEvalWhite = NONE
Held ==
  /\ \A t \in TaskLoops : HeldByTaskLoop(t)
  /\ HeldInQueue
  /\ \A w \in Workers : HeldByWorker(w)

Phases ==
  /\ queueReadOnly <=> main # "playing"
  /\ main # "playing" => \A t \in TaskLoops : tasker[t].pc = "ended"
  /\ \A w \in Workers : worker[w].pc = "ended" => queueReadOnly /\ gameTaskQueue = <<>>
  /\ main \notin {"playing", "joinWorkers"} => \A w \in Workers : worker[w].pc = "ended"

\* The tasks that were admitted as rating tasks, and the games of such a task that have
\* been counted already.
Admitted == {t \in TaskLoops : tasker[t].isRatingGame}
Done(t) == tasker[t].rep + (IF tasker[t].pc = "push" THEN 1 ELSE 0)

\* With room for maxRatingMatches - 1 chunks of games when a task is admitted, the games
\* and those still owed to the tasks admitted are at most so many.
Room == (maxRatingMatches - 1 + Cardinality(TaskLoops)) * taskRepFactor
Spare == IF taskLoopMutex \in Admitted THEN Done(taskLoopMutex) ELSE 0
Bounded ==
  IF maxRatingMatches = 0 THEN Admitted = {} /\ numRatingGamesActive = 0
  ELSE numRatingGamesActive + Cardinality(Admitted) * taskRepFactor <= Room + Spare

IInv == TypeOK /\ Locked /\ Tasks /\ Kept /\ Counted /\ Held /\ Phases /\ Bounded

-----------------------------------------------------------------------------
(* Counting games                                                          *)

LEMMA Constants ==
  /\ SELF \in Managers /\ RATING \in Managers /\ Used \subseteq Managers
  /\ NONE \notin TaskLoops /\ NONE \notin Nets /\ NONE \notin Names
  /\ taskRepFactor \in Nat /\ taskRepFactor > 0 /\ maxRatingMatches \in Nat
  /\ IsFiniteSet(TaskLoops) /\ Workers # {}
BY ContributeAssumption DEF ContributeAssumption, Used

LEMMA SetsOfGames ==
  ASSUME NEW G, IsFiniteSet(G), NEW n
  PROVE  /\ IsFiniteSet(BlackOf(G, n)) /\ Cardinality(BlackOf(G, n)) \in Nat
         /\ IsFiniteSet(WhiteOf(G, n)) /\ Cardinality(WhiteOf(G, n)) \in Nat
         /\ IsFiniteSet(RatingOf(G)) /\ Cardinality(RatingOf(G)) \in Nat
         /\ Uses(G, n) \in Nat
<1>1. BlackOf(G, n) \in SUBSET G /\ WhiteOf(G, n) \in SUBSET G /\ RatingOf(G) \in SUBSET G
  BY DEF BlackOf, WhiteOf, RatingOf
<1>2. IsFiniteSet(BlackOf(G, n)) /\ IsFiniteSet(WhiteOf(G, n)) /\ IsFiniteSet(RatingOf(G))
  BY <1>1, FS_Subset
<1>3. /\ Cardinality(BlackOf(G, n)) \in Nat /\ Cardinality(WhiteOf(G, n)) \in Nat
      /\ Cardinality(RatingOf(G)) \in Nat
  BY <1>2, FS_CardinalityType
<1> QED
  BY <1>2, <1>3 DEF Uses

\* The sides of a game that play with the net n.
Sides(k, n) == (IF k.nnEvalBlack = n THEN 1 ELSE 0) + (IF k.nnEvalWhite = n THEN 1 ELSE 0)

LEMMA GameAdded ==
  ASSUME NEW G, IsFiniteSet(G), NEW y, y \notin G
  PROVE  /\ IsFiniteSet(G \cup {y})
         /\ \A n : Uses(G \cup {y}, n) = Uses(G, n) + Sides(y[3], n)
         /\ Cardinality(RatingOf(G \cup {y})) = Cardinality(RatingOf(G)) + CountedRating(y[3])
<1>1. IsFiniteSet(G \cup {y})
  BY FS_AddElement
<1>2. ASSUME NEW n PROVE Uses(G \cup {y}, n) = Uses(G, n) + Sides(y[3], n)
  <2>1. Cardinality(BlackOf(G \cup {y}, n))
          = Cardinality(BlackOf(G, n)) + (IF y[3].nnEvalBlack = n THEN 1 ELSE 0)
    <3>1. CASE y[3].nnEvalBlack = n
      <4>1. BlackOf(G \cup {y}, n) = BlackOf(G, n) \cup {y} /\ y \notin BlackOf(G, n)
        BY <3>1 DEF BlackOf
      <4> QED
        BY <3>1, <4>1, SetsOfGames, FS_AddElement
    <3>2. CASE y[3].nnEvalBlack # n
      <4>1. BlackOf(G \cup {y}, n) = BlackOf(G, n)
        BY <3>2 DEF BlackOf
      <4> QED
        BY <3>2, <4>1, SetsOfGames
    <3> QED
      BY <3>1, <3>2
  <2>2. Cardinality(WhiteOf(G \cup {y}, n))
          = Cardinality(WhiteOf(G, n)) + (IF y[3].nnEvalWhite = n THEN 1 ELSE 0)
    <3>1. CASE y[3].nnEvalWhite = n
      <4>1. WhiteOf(G \cup {y}, n) = WhiteOf(G, n) \cup {y} /\ y \notin WhiteOf(G, n)
        BY <3>1 DEF WhiteOf
      <4> QED
        BY <3>1, <4>1, SetsOfGames, FS_AddElement
    <3>2. CASE y[3].nnEvalWhite # n
      <4>1. WhiteOf(G \cup {y}, n) = WhiteOf(G, n)
        BY <3>2 DEF WhiteOf
      <4> QED
        BY <3>2, <4>1, SetsOfGames
    <3> QED
      BY <3>1, <3>2
  <2>3. Cardinality(BlackOf(G, n)) \in Nat /\ Cardinality(WhiteOf(G, n)) \in Nat
    BY SetsOfGames
  <2> QED
    BY <2>1, <2>2, <2>3 DEF Uses, Sides
<1>3. Cardinality(RatingOf(G \cup {y})) = Cardinality(RatingOf(G)) + CountedRating(y[3])
  <2>1. CASE y[3].isRatingGame
    <3>1. RatingOf(G \cup {y}) = RatingOf(G) \cup {y} /\ y \notin RatingOf(G)
      BY <2>1 DEF RatingOf
    <3> QED
      BY <2>1, <3>1, SetsOfGames, FS_AddElement DEF CountedRating
  <2>2. CASE ~y[3].isRatingGame
    <3>1. RatingOf(G \cup {y}) = RatingOf(G)
      BY <2>2 DEF RatingOf
    <3> QED
      BY <2>2, <3>1, SetsOfGames DEF CountedRating
  <2> QED
    BY <2>1, <2>2
<1> QED
  BY <1>1, <1>2, <1>3

LEMMA GameTakenAway ==
  ASSUME NEW G, IsFiniteSet(G), NEW x \in G
  PROVE  /\ IsFiniteSet(G \ {x})
         /\ \A n : Uses(G \ {x}, n) = Uses(G, n) - Sides(x[3], n)
         /\ Cardinality(RatingOf(G \ {x})) = Cardinality(RatingOf(G)) - CountedRating(x[3])
<1> DEFINE H == G \ {x}
<1>1. IsFiniteSet(H)
  BY FS_RemoveElement
<1>2. x \notin H /\ G = H \cup {x}
  OBVIOUS
<1> HIDE DEF H
<1>3. /\ \A n : Uses(G, n) = Uses(H, n) + Sides(x[3], n)
      /\ Cardinality(RatingOf(G)) = Cardinality(RatingOf(H)) + CountedRating(x[3])
  BY <1>1, <1>2, GameAdded
<1>4. \A n : Uses(H, n) \in Nat /\ Sides(x[3], n) \in Nat
  BY <1>1, SetsOfGames DEF Sides
<1>5. Cardinality(RatingOf(H)) \in Nat /\ CountedRating(x[3]) \in Nat
  BY <1>1, SetsOfGames DEF CountedRating
<1>6. \A n : Uses(H, n) = Uses(G, n) - Sides(x[3], n)
  BY <1>3, <1>4
<1>7. Cardinality(RatingOf(H)) = Cardinality(RatingOf(G)) - CountedRating(x[3])
  BY <1>3, <1>5
<1> QED
  BY <1>1, <1>6, <1>7 DEF H

\* A game that goes on elsewhere with the same nets, or lets one of them go.
LEMMA GameMoved ==
  ASSUME NEW G, IsFiniteSet(G), NEW x \in G, NEW y, y \notin G
  PROVE  /\ IsFiniteSet((G \ {x}) \cup {y})
         /\ \A n : Uses((G \ {x}) \cup {y}, n) = Uses(G, n) - Sides(x[3], n) + Sides(y[3], n)
         /\ Cardinality(RatingOf((G \ {x}) \cup {y}))
              = Cardinality(RatingOf(G)) - CountedRating(x[3]) + CountedRating(y[3])
<1> DEFINE H == G \ {x}
<1>1. /\ IsFiniteSet(H)
      /\ \A n : Uses(H, n) = Uses(G, n) - Sides(x[3], n)
      /\ Cardinality(RatingOf(H)) = Cardinality(RatingOf(G)) - CountedRating(x[3])
  BY GameTakenAway
<1>2. y \notin H
  OBVIOUS
<1> HIDE DEF H
<1>3. /\ IsFiniteSet(H \cup {y})
      /\ \A n : Uses(H \cup {y}, n) = Uses(H, n) + Sides(y[3], n)
      /\ Cardinality(RatingOf(H \cup {y})) = Cardinality(RatingOf(H)) + CountedRating(y[3])
  BY <1>1, <1>2, GameAdded
<1> QED
  BY <1>1, <1>3 DEF H

LEMMA GamesSplit ==
  /\ Games = Pushed \cup Queued \cup Played
  /\ Games' = Pushed' \cup Queued' \cup Played'
BY DEF Games, Pushed, Queued, Played

\* The nets of all games are provided for.
LEMMA GamesProvided ==
  ASSUME Held, NEW g \in Games
  PROVE  Provided(g[3])
<1>1. CASE g \in Pushed
  <2>1. PICK t \in TaskLoops : Tasking(t, "push") /\ g = <<"task loop", t, GameOf(tasker[t], FALSE)>>
    BY <1>1 DEF Pushed
  <2> QED
    BY <2>1 DEF Held, HeldByTaskLoop
<1>2. CASE g \in Queued
  BY <1>2 DEF Held, HeldInQueue, Queued
<1>3. CASE g \in Played
  <2>1. PICK w \in Workers :
          worker[w].pc \notin {"pop", "ended"} /\ g = <<"game thread", w, worker[w].game>>
    BY <1>3 DEF Played
  <2> QED
    BY <2>1 DEF Held, HeldByWorker
<1> QED
  BY <1>1, <1>2, <1>3, GamesSplit

LEMMA Basics ==
  ASSUME IInv
  PROVE  /\ command = "contribute"
         /\ modelDatas \in [Managers -> SUBSET Nets] /\ net \in [Nets -> NetData]
         /\ tasker \in [TaskLoops -> TaskerData] /\ worker \in [Workers -> WorkerData]
         /\ numRatingGamesActive \in Int /\ taskLoopMutex \in TaskLoops \cup {NONE}
         /\ Locked /\ Tasks /\ Kept /\ Counted /\ Held /\ Phases /\ Bounded
BY DEF IInv, TypeOK

\* A net that nobody is counted for is in no game.
LEMMA NotInUse ==
  ASSUME IInv, NEW n \in Nets, net[n].acquireCount <= 0
  PROVE  \A g \in Games : g[3].nnEvalBlack # n /\ g[3].nnEvalWhite # n
<1>1. IsFiniteSet(Games) /\ net[n].acquireCount = Uses(Games, n)
  BY DEF IInv, Counted
<1>2. /\ IsFiniteSet(BlackOf(Games, n)) /\ Cardinality(BlackOf(Games, n)) \in Nat
      /\ IsFiniteSet(WhiteOf(Games, n)) /\ Cardinality(WhiteOf(Games, n)) \in Nat
  BY <1>1, SetsOfGames
<1>3. Cardinality(BlackOf(Games, n)) = 0 /\ Cardinality(WhiteOf(Games, n)) = 0
  BY <1>1, <1>2 DEF Uses
<1>4. BlackOf(Games, n) = {} /\ WhiteOf(Games, n) = {}
  BY <1>2, <1>3, FS_EmptySet
<1> QED
  BY <1>4 DEF BlackOf, WhiteOf

\* A net that no manager keeps is in no game.
LEMMA NotKeptNotUsed ==
  ASSUME IInv, NEW n \in Nets, \A m \in Managers : n \notin modelDatas[m]
  PROVE  Uses(Games, n) = 0
<1>1. Held /\ n # NONE
  BY Constants DEF IInv
<1>2. \A g \in Games : g[3].nnEvalBlack # n /\ g[3].nnEvalWhite # n
  BY <1>1, GamesProvided, Constants DEF Provided
<1>3. BlackOf(Games, n) = {} /\ WhiteOf(Games, n) = {}
  BY <1>2 DEF BlackOf, WhiteOf
<1>4. Cardinality({}) = 0
  BY FS_EmptySet
<1> QED
  BY <1>3, <1>4 DEF Uses

-----------------------------------------------------------------------------
(* Steps of the task loops                                                 *)

\* Only the task loop t moves.
Moves(t) ==
  /\ tasker' \in [TaskLoops -> TaskerData]
  /\ \A s \in TaskLoops : s # t => tasker'[s] = tasker[s]

LEMMA LockKept ==
  ASSUME IInv, NEW t \in TaskLoops, Moves(t),
         \/ taskLoopMutex' = taskLoopMutex /\ (tasker[t].pc \in Inside <=> tasker'[t].pc \in Inside)
         \/ taskLoopMutex = NONE /\ taskLoopMutex' = t /\ tasker'[t].pc \in Inside
         \/ tasker[t].pc \in Inside /\ taskLoopMutex' = NONE /\ tasker'[t].pc \notin Inside
  PROVE  Locked' /\ taskLoopMutex' \in TaskLoops \cup {NONE}
<1>1. Locked /\ NONE \notin TaskLoops /\ taskLoopMutex \in TaskLoops \cup {NONE}
  BY Basics, Constants
<1>2. ASSUME NEW s \in TaskLoops PROVE tasker'[s].pc \in Inside <=> taskLoopMutex' = s
  <2>1. CASE s = t
    BY <1>1, <2>1 DEF Locked
  <2>2. CASE s # t
    BY <1>1, <2>2 DEF Locked, Moves
  <2> QED
    BY <2>1, <2>2
<1> QED
  BY <1>1, <1>2 DEF Locked

\* The nets that other task loops rely on are theirs by the lock.
LEMMA TasksKept ==
  ASSUME IInv, NEW t \in TaskLoops, Moves(t), TaskOK(t)',
         \/ tasker[t].pc \in Inside
         \/ UNCHANGED <<modelDatas, net>>
  PROVE  Tasks'
<1>1. Locked /\ Tasks
  BY Basics
<1>2. ASSUME NEW s \in TaskLoops, s # t PROVE TaskOK(s)'
  <2>1. TaskOK(s) /\ tasker'[s] = tasker[s]
    BY <1>1, <1>2 DEF Tasks, Moves
  <2>2. CASE tasker[t].pc \in Inside
    <3>1. tasker[s].pc \notin Inside
      BY <1>1, <1>2, <2>2 DEF Locked
    <3>2. tasker[s].pc \notin {"loadWhite"} \cup Loaded
      BY <3>1 DEF Inside, WithTask, Managed, Loaded
    <3> QED
      BY <2>1, <3>2 DEF TaskOK
  <2>3. CASE UNCHANGED <<modelDatas, net>>
    BY <2>1, <2>3 DEF TaskOK, hasModel
  <2> QED
    BY <2>2, <2>3
<1> QED
  BY <1>2 DEF Tasks

\* A task loop that has nothing to push leaves the games as they are.
LEMMA GamesStay ==
  ASSUME IInv, NEW t \in TaskLoops, Moves(t), tasker[t].pc # "push", tasker'[t].pc # "push",
         UNCHANGED <<worker, gameTaskQueue>>
  PROVE  Games' = Games
<1>1. Pushed' = Pushed
  <2>1. \A s \in TaskLoops : /\ tasker'[s].pc = "push" <=> tasker[s].pc = "push"
                             /\ tasker[s].pc = "push" => tasker'[s] = tasker[s]
    BY DEF Moves
  <2> QED
    BY <2>1 DEF Pushed, Tasking, GameOf
<1>2. Queued' = Queued /\ Played' = Played
  BY DEF Queued, Played
<1> QED
  BY <1>1, <1>2, GamesSplit

LEMMA PhasesStay ==
  ASSUME IInv, NEW t \in TaskLoops, tasker[t].pc # "ended",
         UNCHANGED <<worker, gameTaskQueue, queueReadOnly, main>>
  PROVE  Phases' /\ main = "playing" /\ ~queueReadOnly
BY DEF IInv, Phases, TypeOK

\* A game that stays where it is has its nets as before.
LEMMA HeldElsewhere ==
  ASSUME IInv, \A g \in Games : Provided(g[3])'
  PROVE  /\ \A s \in TaskLoops : tasker'[s] = tasker[s] => HeldByTaskLoop(s)'
         /\ gameTaskQueue' = gameTaskQueue => HeldInQueue'
         /\ \A w \in Workers : worker'[w] = worker[w] => HeldByWorker(w)'
<1>1. Held
  BY Basics
<1>2. ASSUME NEW s \in TaskLoops, tasker'[s] = tasker[s], Tasking(s, "push")'
      PROVE  Provided(GameOf(tasker[s], FALSE))' /\ HasBoth(tasker[s])'
  <2>1. Tasking(s, "push")
    BY <1>2 DEF Tasking
  <2>2. <<"task loop", s, GameOf(tasker[s], FALSE)>> \in Games
    BY <2>1, GamesSplit DEF Pushed
  <2>3. Provided(GameOf(tasker[s], FALSE))'
    <3> DEFINE g == <<"task loop", s, GameOf(tasker[s], FALSE)>>
    <3>1. Provided(g[3])'
      BY <1>2, <2>2 DEF GameOf
    <3> QED
      BY <1>2, <3>1 DEF GameOf
  <2> QED
    BY <1>1, <1>2, <2>1, <2>3 DEF Held, HeldByTaskLoop, HasBoth
<1>3. ASSUME gameTaskQueue' = gameTaskQueue, NEW i \in DOMAIN gameTaskQueue
      PROVE  Provided(gameTaskQueue[i])' /\ HasBoth(gameTaskQueue[i])'
  <2>1. <<"queue", i, gameTaskQueue[i]>> \in Games
    BY GamesSplit DEF Queued
  <2>2. Provided(gameTaskQueue[i])'
    BY <1>3, <2>1
  <2> QED
    BY <1>1, <1>3, <2>2 DEF Held, HeldInQueue, HasBoth
<1>4. ASSUME NEW w \in Workers, worker'[w] = worker[w], worker[w].pc \notin {"pop", "ended"}
      PROVE  Provided(worker[w].game)'
  <2>1. <<"game thread", w, worker[w].game>> \in Games
    BY <1>4, GamesSplit DEF Played
  <2> QED
    BY <1>4, <2>1
<1>5. \A s \in TaskLoops : tasker'[s] = tasker[s] => HeldByTaskLoop(s)'
  BY <1>2 DEF HeldByTaskLoop
<1>6. gameTaskQueue' = gameTaskQueue => HeldInQueue'
  BY <1>3 DEF HeldInQueue
<1>7. \A w \in Workers : worker'[w] = worker[w] => HeldByWorker(w)'
  BY <1>1, <1>4 DEF Held, HeldByWorker, HasBoth
<1> QED
  BY <1>5, <1>6, <1>7

\* Where the nets are does not change for any game.
LEMMA HeldStays ==
  ASSUME IInv, NEW t \in TaskLoops, Moves(t), tasker[t].pc # "push", tasker'[t].pc # "push",
         UNCHANGED <<worker, gameTaskQueue>>,
         \A g \in Games : Provided(g[3])'
  PROVE  Held'
<1>1. \A s \in TaskLoops : HeldByTaskLoop(s)'
  BY HeldElsewhere DEF Moves, HeldByTaskLoop, Tasking
<1> QED
  BY <1>1, HeldElsewhere DEF Held

\* Steps that leave the managers, the games and their count alone.
LEMMA ManagersStay ==
  ASSUME IInv, NEW t \in TaskLoops, Moves(t), tasker[t].pc \notin {"push", "ended"},
         tasker'[t].pc # "push",
         UNCHANGED <<managerVars, worker, gameTaskQueue, queueReadOnly, numRatingGamesActive, main>>
  PROVE  /\ Kept' /\ Counted' /\ Held' /\ Phases' /\ Games' = Games
         /\ taskLoopMutex' \in TaskLoops \cup {NONE} => TypeOK'
<1>1. Games' = Games
  BY GamesStay
<1>2. Phases'
  BY PhasesStay
<1>3. UNCHANGED <<command, modelDatas, net>>
  BY DEF managerVars
<1>4. Kept'
  BY <1>3 DEF IInv, Kept
<1>5. Counted'
  BY <1>1, <1>3 DEF IInv, Counted, Uses, BlackOf, WhiteOf, RatingOf
<1>6. \A g \in Games : Provided(g[3])'
  BY <1>3, GamesProvided, Basics DEF Provided
<1>7. Held'
  BY <1>6, HeldStays
<1>8. taskLoopMutex' \in TaskLoops \cup {NONE} => TypeOK'
  BY <1>3 DEF IInv, TypeOK, Moves
<1> QED
  BY <1>1, <1>2, <1>4, <1>5, <1>7, <1>8

\* What tasks are owed when their number does not grow.
LEMMA AdmittedCounts ==
  /\ IsFiniteSet(Admitted) /\ Cardinality(Admitted) \in Nat
  /\ Cardinality(Admitted) <= Cardinality(TaskLoops) /\ Cardinality(TaskLoops) \in Nat
  /\ IsFiniteSet(Admitted') /\ Cardinality(Admitted') \in Nat
  /\ Cardinality(Admitted') <= Cardinality(TaskLoops)
<1>1. Admitted \in SUBSET TaskLoops /\ Admitted' \in SUBSET TaskLoops
  BY DEF Admitted
<1> QED
  BY <1>1, Constants, FS_Subset, FS_CardinalityType

LEMMA Times ==
  ASSUME NEW a \in Int, NEW b \in Int, NEW f \in Nat, a <= b
  PROVE  a * f <= b * f /\ a * f \in Int /\ b * f \in Int
OBVIOUS

LEMMA Distributes ==
  ASSUME NEW a \in Int, NEW b \in Int, NEW f \in Nat
  PROVE  (a + b) * f = a * f + b * f /\ a * f \in Int /\ b * f \in Int
OBVIOUS

LEMMA RoomIsInt == Room \in Int
BY AdmittedCounts, Constants DEF Room

LEMMA SpareTyped ==
  ASSUME IInv
  PROVE  Spare \in Nat
<1>1. \A t \in TaskLoops : Done(t) \in Nat
  BY Basics DEF Done, TaskerData
<1> QED
  BY <1>1 DEF Spare, Admitted

LEMMA BoundKept ==
  ASSUME IInv, numRatingGamesActive' = numRatingGamesActive, Spare' = Spare,
         Admitted' \in SUBSET Admitted
  PROVE  Bounded'
<1>1. Cardinality(Admitted') <= Cardinality(Admitted)
  BY AdmittedCounts, FS_Subset
<1>2. /\ Cardinality(Admitted') * taskRepFactor <= Cardinality(Admitted) * taskRepFactor
      /\ Cardinality(Admitted') * taskRepFactor \in Int
      /\ Cardinality(Admitted) * taskRepFactor \in Int
  BY <1>1, AdmittedCounts, Constants, Times
<1>3. Spare \in Nat /\ Room \in Int /\ numRatingGamesActive \in Int /\ Room' = Room
  BY SpareTyped, RoomIsInt, Basics DEF Room
<1>4. CASE maxRatingMatches = 0
  BY <1>4, Basics DEF Bounded
<1>5. CASE maxRatingMatches # 0
  <2>1. numRatingGamesActive + Cardinality(Admitted) * taskRepFactor <= Room + Spare
    BY <1>5, Basics DEF Bounded
  <2>2. numRatingGamesActive' + Cardinality(Admitted') * taskRepFactor <= Room' + Spare'
    BY <1>2, <1>3, <2>1
  <2> QED
    BY <1>5, <2>2 DEF Bounded
<1> QED
  BY <1>4, <1>5

\* A task loop that is not handing out games is spared nothing.
LEMMA NothingSpared ==
  ASSUME IInv, NEW t \in TaskLoops, Moves(t), tasker[t].pc \notin {"acquire", "push"},
         tasker'[t].rep = 0, tasker'[t].pc # "push",
         \/ taskLoopMutex' = taskLoopMutex /\ tasker'[t].isRatingGame = tasker[t].isRatingGame
         \/ taskLoopMutex \in {t, NONE} /\ taskLoopMutex' \in {t, NONE}
  PROVE  Spare' = Spare
<1>1. tasker[t].rep = 0 /\ NONE \notin TaskLoops
  BY Basics, Constants DEF Tasks, TaskOK
<1>2. Done(t) = 0 /\ Done(t)' = 0
  BY <1>1 DEF Done
<1>3. NONE \notin Admitted /\ NONE \notin Admitted'
  BY <1>1 DEF Admitted
<1>4. CASE taskLoopMutex \in {t, NONE} /\ taskLoopMutex' \in {t, NONE}
  BY <1>2, <1>3, <1>4 DEF Spare
<1>5. CASE taskLoopMutex' = taskLoopMutex /\ tasker'[t].isRatingGame = tasker[t].isRatingGame
  <2>1. Admitted' = Admitted
    BY <1>5 DEF Admitted, Moves
  <2>2. ASSUME taskLoopMutex \in Admitted, taskLoopMutex # t
        PROVE  Done(taskLoopMutex)' = Done(taskLoopMutex)
    BY <1>5, <2>2 DEF Done, Moves, Admitted
  <2>3. CASE taskLoopMutex = t
    BY <1>2, <1>5, <2>1, <2>3 DEF Spare
  <2>4. CASE taskLoopMutex # t
    BY <1>5, <2>1, <2>2, <2>4 DEF Spare
  <2> QED
    BY <2>3, <2>4
<1> QED
  BY <1>4, <1>5

\* A step of a task loop before it hands out games, with the lock, to it or from it.
LEMMA QuietStep ==
  ASSUME IInv, NEW t \in TaskLoops, Moves(t), TaskOK(t)',
         tasker[t].pc \notin {"acquire", "push", "ended"}, tasker'[t].pc # "push",
         UNCHANGED <<managerVars, worker, gameTaskQueue, queueReadOnly, numRatingGamesActive, main>>,
         tasker'[t].isRatingGame => tasker[t].isRatingGame,
         tasker'[t].rep = tasker[t].rep \/ tasker'[t].rep = 0,
         \/ /\ taskLoopMutex' = taskLoopMutex /\ (tasker[t].pc \in Inside <=> tasker'[t].pc \in Inside)
            /\ tasker'[t].isRatingGame = tasker[t].isRatingGame
         \/ taskLoopMutex = NONE /\ taskLoopMutex' = t /\ tasker'[t].pc \in Inside
         \/ taskLoopMutex = t /\ taskLoopMutex' = NONE /\ tasker'[t].pc \notin Inside
  PROVE  IInv'
<1>1. taskLoopMutex = t => tasker[t].pc \in Inside
  BY Basics DEF Locked
<1>2. Locked' /\ taskLoopMutex' \in TaskLoops \cup {NONE}
  BY <1>1, LockKept
<1>3. Kept' /\ Counted' /\ Held' /\ Phases' /\ TypeOK'
  BY <1>2, ManagersStay
<1>4. UNCHANGED <<modelDatas, net>>
  BY DEF managerVars
<1>5. Tasks'
  BY <1>4, TasksKept
<1>6. Spare' = Spare
  <2>1. tasker[t].rep = 0
    BY Basics DEF Tasks, TaskOK
  <2>2. \/ taskLoopMutex' = taskLoopMutex /\ tasker'[t].isRatingGame = tasker[t].isRatingGame
        \/ taskLoopMutex \in {t, NONE} /\ taskLoopMutex' \in {t, NONE}
    OBVIOUS
  <2> QED
    BY <2>1, <2>2, NothingSpared
<1>7. Admitted' \in SUBSET Admitted
  BY DEF Admitted, Moves
<1>8. Bounded'
  BY <1>6, <1>7, BoundKept
<1> QED
  BY <1>2, <1>3, <1>5, <1>8 DEF IInv

LEMMA Inhabited ==
  \A pc \in Outside \cup Inside :
    /\ [Idle EXCEPT !.pc = pc] \in TaskerData /\ [Idle EXCEPT !.pc = pc].pc = pc
    /\ [Idle EXCEPT !.pc = pc].isRatingGame = FALSE /\ [Idle EXCEPT !.pc = pc].rep = 0
BY DEF Idle, TaskerData

LEMMA StartTaskLoopKeeps ==
  ASSUME IInv, NEW t \in TaskLoops, StartTaskLoop(t)
  PROVE  IInv'
<1>1. tasker \in [TaskLoops -> TaskerData] /\ TaskOK(t)
  BY Basics DEF Tasks
<1>2. PICK pc \in {"lock", "ended"} : tasker' = [tasker EXCEPT ![t].pc = pc] /\ tasker[t].pc = "top"
  BY DEF StartTaskLoop, Tasking, GoTask
<1>3. /\ Moves(t) /\ tasker'[t].pc = pc /\ tasker'[t].rep = tasker[t].rep
      /\ tasker'[t].isRatingGame = tasker[t].isRatingGame
  BY <1>1, <1>2 DEF Moves, TaskerData, Outside
<1>4. TaskOK(t)'
  BY <1>1, <1>2, <1>3 DEF TaskOK, Before, WithTask, Managed, Chosen, Loaded
<1>5. tasker[t].pc \notin Inside /\ tasker'[t].pc \notin Inside
  BY <1>2, <1>3 DEF Inside, Before, WithTask, Managed, Chosen, Loaded
<1> QED
  BY <1>2, <1>3, <1>4, <1>5, QuietStep DEF StartTaskLoop

LEMMA LockTasksKeeps ==
  ASSUME IInv, NEW t \in TaskLoops, LockTasks(t)
  PROVE  IInv'
<1>1. tasker \in [TaskLoops -> TaskerData] /\ TaskOK(t)
  BY Basics DEF Tasks
<1>2. PICK pc \in {"locked", "relocked"} :
        /\ tasker' = [tasker EXCEPT ![t].pc = pc]
        /\ tasker[t].pc = IF pc = "locked" THEN "lock" ELSE "relock"
  BY DEF LockTasks, Tasking, GoTask
<1>3. /\ Moves(t) /\ tasker'[t].pc = pc /\ tasker'[t].rep = tasker[t].rep
      /\ tasker'[t].isRatingGame = tasker[t].isRatingGame
      /\ tasker'[t].black = tasker[t].black /\ tasker'[t].white = tasker[t].white
  BY <1>1, <1>2 DEF Moves, TaskerData, Inside, Before, WithTask
<1>4. TaskOK(t)'
  BY <1>1, <1>2, <1>3 DEF TaskOK, Before, WithTask, Managed, Chosen, Loaded
<1>5. tasker'[t].pc \in Inside
  BY <1>2, <1>3 DEF Inside, Before, WithTask, Managed, Chosen, Loaded
<1> QED
  BY <1>2, <1>3, <1>4, <1>5, QuietStep DEF LockTasks

\* A task loop that gives its task up.
LEMMA LeaveKeeps ==
  ASSUME IInv, NEW t \in TaskLoops, StopTasking(t) \/ GiveUp(t)
  PROVE  IInv'
<1>1. tasker \in [TaskLoops -> TaskerData]
  BY Basics
<1>2. PICK pc \in {"top", "ended"} :
        /\ taskLoopMutex' = NONE /\ tasker' = [tasker EXCEPT ![t] = [Idle EXCEPT !.pc = pc]]
        /\ tasker[t].pc \in {"locked", "ask", "relocked", "present", "loaded"}
  BY DEF StopTasking, GiveUp, Leave, Tasking
<1>3. pc \in Outside /\ pc \notin Inside
  BY <1>2 DEF Outside, Inside, Before, WithTask, Managed, Chosen, Loaded
<1>4. /\ Moves(t) /\ tasker'[t].pc = pc /\ tasker'[t].rep = 0 /\ ~tasker'[t].isRatingGame
  BY <1>1, <1>2, <1>3, Inhabited DEF Moves
<1>5. TaskOK(t)'
  BY <1>2, <1>4, Constants DEF TaskOK, Before, WithTask, Managed, Chosen, Loaded
<1>6. taskLoopMutex = t
  <2>1. tasker[t].pc \in Inside
    BY <1>2 DEF Inside, Before, WithTask, Managed, Chosen, Loaded
  <2> QED
    BY <2>1, Basics DEF Locked
<1>7. UNCHANGED <<managerVars, worker, gameTaskQueue, queueReadOnly, numRatingGamesActive, main>>
  BY DEF StopTasking, GiveUp
<1>8. tasker[t].pc \notin {"acquire", "push", "ended"} /\ tasker'[t].pc # "push"
  BY <1>2, <1>4
<1> QED
  BY <1>2, <1>3, <1>4, <1>5, <1>6, <1>7, <1>8, QuietStep

\* Looking for the models, and marking them as used.
LEMMA FetchingKeeps ==
  ASSUME IInv, NEW t \in TaskLoops, ModelsArePresent(t) \/ DeleteModels(t)
  PROVE  IInv'
<1>1. tasker \in [TaskLoops -> TaskerData] /\ TaskOK(t)
  BY Basics DEF Tasks
<1>2. PICK pc \in {"present", "acquire"} :
        /\ tasker' = [tasker EXCEPT ![t].pc = pc]
        /\ pc = "present" => tasker[t].pc \in {"fetch", "relocked"}
        /\ pc = "acquire" => tasker[t].pc = "loaded"
  BY DEF ModelsArePresent, DeleteModels, Fetching, Tasking, GoTask
<1>3. /\ Moves(t) /\ tasker'[t].pc = pc /\ tasker'[t].rep = tasker[t].rep
      /\ tasker'[t].isRatingGame = tasker[t].isRatingGame
      /\ tasker'[t].black = tasker[t].black /\ tasker'[t].white = tasker[t].white
      /\ tasker'[t].blackManager = tasker[t].blackManager
      /\ tasker'[t].whiteManager = tasker[t].whiteManager
  BY <1>1, <1>2 DEF Moves, TaskerData, Inside, WithTask, Managed, Loaded
<1>4. UNCHANGED <<managerVars, worker, gameTaskQueue, queueReadOnly, numRatingGamesActive, main,
                  taskLoopMutex>>
  BY DEF ModelsArePresent, DeleteModels
<1>5. TaskOK(t)'
  BY <1>1, <1>2, <1>3, <1>4 DEF TaskOK, Before, WithTask, Managed, Chosen, Loaded, hasModel, managerVars
<1>6. tasker[t].pc \in Inside /\ tasker'[t].pc \in Inside
  BY <1>2, <1>3 DEF Inside, Before, WithTask, Managed, Chosen, Loaded
<1>7. tasker[t].pc \notin {"acquire", "push", "ended"} /\ tasker'[t].pc # "push"
  BY <1>2, <1>3
<1> QED
  BY <1>3, <1>4, <1>5, <1>6, <1>7, QuietStep

LEMMA DownloadKeeps ==
  ASSUME IInv, NEW t \in TaskLoops, UnlockToDownload(t) \/ Download(t)
  PROVE  IInv'
<1>1. tasker \in [TaskLoops -> TaskerData] /\ TaskOK(t)
  BY Basics DEF Tasks
<1>2. UNCHANGED <<managerVars, worker, gameTaskQueue, queueReadOnly, numRatingGamesActive, main>>
  BY DEF UnlockToDownload, Download
<1>3. CASE UnlockToDownload(t)
  <2>1. /\ tasker' = [tasker EXCEPT ![t].pc = "download"] /\ taskLoopMutex' = NONE
        /\ tasker[t].pc \in {"fetch", "relocked"}
    BY <1>3 DEF UnlockToDownload, Fetching, Tasking, GoTask
  <2>2. /\ Moves(t) /\ tasker'[t].pc = "download" /\ tasker'[t].rep = tasker[t].rep
        /\ tasker'[t].isRatingGame = tasker[t].isRatingGame
        /\ tasker'[t].black = tasker[t].black /\ tasker'[t].white = tasker[t].white
    BY <1>1, <2>1 DEF Moves, TaskerData, Outside
  <2>3. TaskOK(t)'
    BY <1>1, <2>1, <2>2 DEF TaskOK, Before, WithTask, Managed, Chosen, Loaded
  <2>4. tasker[t].pc \in Inside /\ tasker'[t].pc \notin Inside
    BY <2>1, <2>2 DEF Inside, Before, WithTask, Managed, Chosen, Loaded
  <2>5. taskLoopMutex = t
    BY <2>4, Basics DEF Locked
  <2>6. tasker[t].pc \notin {"acquire", "push", "ended"} /\ tasker'[t].pc # "push"
    BY <2>1, <2>2
  <2> QED
    BY <1>2, <2>1, <2>2, <2>3, <2>4, <2>5, <2>6, QuietStep
<1>4. CASE Download(t)
  <2>1. PICK f \in BOOLEAN : tasker' = [tasker EXCEPT ![t].pc = "relock", ![t].failed = f]
    BY <1>4 DEF Download
  <2>2. taskLoopMutex' = taskLoopMutex /\ tasker[t].pc = "download"
    BY <1>4 DEF Download, Tasking
  <2>3. /\ Moves(t) /\ tasker'[t].pc = "relock" /\ tasker'[t].rep = tasker[t].rep
        /\ tasker'[t].isRatingGame = tasker[t].isRatingGame
        /\ tasker'[t].black = tasker[t].black /\ tasker'[t].white = tasker[t].white
    <3> DEFINE r == [tasker[t] EXCEPT !.pc = "relock", !.failed = f]
    <3>1. tasker' = [tasker EXCEPT ![t] = r]
      BY <2>1
    <3>2. tasker[t] \in TaskerData /\ "relock" \in Outside \cup Inside
      BY <1>1 DEF Outside
    <3>3. r \in TaskerData
      BY <3>2 DEF TaskerData
    <3>4. /\ r.pc = "relock" /\ r.rep = tasker[t].rep /\ r.isRatingGame = tasker[t].isRatingGame
          /\ r.black = tasker[t].black /\ r.white = tasker[t].white
      BY <3>2 DEF TaskerData
    <3> HIDE DEF r
    <3> QED
      BY <1>1, <3>1, <3>3, <3>4 DEF Moves
  <2>4. TaskOK(t)'
    BY <1>1, <2>2, <2>3 DEF TaskOK, Before, WithTask, Managed, Chosen, Loaded
  <2>5. tasker[t].pc \notin Inside /\ tasker'[t].pc \notin Inside
    BY <2>2, <2>3 DEF Inside, Before, WithTask, Managed, Chosen, Loaded
  <2> QED
    BY <1>2, <2>2, <2>3, <2>4, <2>5, QuietStep
<1> QED
  BY <1>3, <1>4

\* A rating task is admitted when there is room for its games, whatever tasks the other
\* task loops still have from before.
LEMMA AskForTaskKeeps ==
  ASSUME IInv, NEW t \in TaskLoops, AskForTask(t)
  PROVE  IInv'
<1>1. tasker \in [TaskLoops -> TaskerData] /\ TaskOK(t) /\ Locked
  BY Basics DEF Tasks
<1>2. /\ UNCHANGED <<managerVars, worker, gameTaskQueue, queueReadOnly, numRatingGamesActive, main,
                     taskLoopMutex>>
      /\ tasker[t].pc = "ask"
  BY DEF AskForTask, Tasking
<1>3. PICK rating \in BOOLEAN, black \in Names, white \in Names :
        /\ rating => allowRatingTask
        /\ tasker' = [tasker EXCEPT ![t] = [Idle EXCEPT !.pc = "fetch", !.black = black,
                                              !.white = white, !.isRatingGame = rating]]
  BY DEF AskForTask
<1>4. /\ tasker'[t] \in TaskerData /\ tasker'[t].pc = "fetch" /\ tasker'[t].rep = 0
      /\ tasker'[t].isRatingGame = rating
      /\ tasker'[t].black = black /\ tasker'[t].white = white
  BY <1>1, <1>3 DEF Idle, TaskerData, Inside, WithTask
<1>5. Moves(t)
  BY <1>1, <1>3, <1>4 DEF Moves
<1>6. TaskOK(t)'
  BY <1>4, Constants DEF TaskOK, Before, WithTask, Managed, Chosen, Loaded
<1>7. tasker[t].pc \in Inside /\ tasker'[t].pc \in Inside
  BY <1>2, <1>4 DEF Inside, Before, WithTask, Managed, Chosen, Loaded
<1>8. Locked' /\ taskLoopMutex' \in TaskLoops \cup {NONE}
  BY <1>2, <1>5, <1>7, LockKept
<1>9. Kept' /\ Counted' /\ Held' /\ Phases' /\ TypeOK'
  BY <1>2, <1>4, <1>5, <1>8, ManagersStay
<1>10. Tasks'
  BY <1>5, <1>6, <1>7, TasksKept
<1>11. taskLoopMutex = t
  BY <1>1, <1>7 DEF Locked
<1>12. Spare' = Spare
  BY <1>2, <1>4, <1>5, <1>11, NothingSpared
<1>13. Bounded'
  <2>1. CASE ~rating
    <3>1. Admitted' \in SUBSET Admitted
      BY <1>4, <1>5, <2>1 DEF Admitted, Moves
    <3> QED
      BY <1>2, <1>12, <3>1, BoundKept
  <2>2. CASE rating
    <3>1. maxRatingMatches > 0 /\ numRatingGamesActive <= (maxRatingMatches - 1) * taskRepFactor
      BY <1>3, <2>2 DEF allowRatingTask
    <3>2. Cardinality(Admitted') * taskRepFactor <= Cardinality(TaskLoops) * taskRepFactor
          /\ Cardinality(Admitted') * taskRepFactor \in Int
          /\ Cardinality(TaskLoops) * taskRepFactor \in Int
      BY AdmittedCounts, Constants, Times
    <3>3. maxRatingMatches - 1 \in Int
      BY Constants
    <3>4. Room = (maxRatingMatches - 1) * taskRepFactor + Cardinality(TaskLoops) * taskRepFactor
          /\ (maxRatingMatches - 1) * taskRepFactor \in Int
      BY <3>3, AdmittedCounts, Constants, Distributes DEF Room
    <3>5. Spare' \in Nat /\ numRatingGamesActive \in Int
      BY <1>12, SpareTyped, Basics
    <3>6. Room' = Room
      BY DEF Room
    <3>7. numRatingGamesActive' + Cardinality(Admitted') * taskRepFactor <= Room' + Spare'
      BY <1>2, <3>1, <3>2, <3>4, <3>5, <3>6
    <3> QED
      BY <3>1, <3>7, Constants DEF Bounded
  <2> QED
    BY <2>1, <2>2
<1> QED
  BY <1>8, <1>9, <1>10, <1>13 DEF IInv

-----------------------------------------------------------------------------
(* Loading and unloading                                                   *)

LEMMA DroppedNets ==
  ASSUME NEW U, NEW ns \in [Nets -> NetData]
  PROVE  /\ Dropped(ns, U) \in [Nets -> NetData]
         /\ \A n \in Nets : /\ Dropped(ns, U)[n].acquireCount = ns[n].acquireCount
                            /\ Dropped(ns, U)[n].name = ns[n].name
                            /\ Dropped(ns, U)[n].manager = ns[n].manager
                            /\ n \notin U => Dropped(ns, U)[n] = ns[n]
<1>1. ASSUME NEW n \in Nets
      PROVE  /\ Dropped(ns, U)[n] \in NetData
             /\ Dropped(ns, U)[n].acquireCount = ns[n].acquireCount
             /\ Dropped(ns, U)[n].name = ns[n].name
             /\ Dropped(ns, U)[n].manager = ns[n].manager
             /\ n \notin U => Dropped(ns, U)[n] = ns[n]
  <2>1. ns[n] \in NetData
    OBVIOUS
  <2>2. CASE n \in U
    <3>1. Dropped(ns, U)[n]
            = [ns[n] EXCEPT !.readOnly = TRUE, !.deleted = @ \/ ns[n].loop = "none"]
      BY <2>2 DEF Dropped
    <3> QED
      BY <2>1, <2>2, <3>1 DEF NetData
  <2>3. CASE n \notin U
    <3>1. Dropped(ns, U)[n] = ns[n]
      BY <2>3 DEF Dropped
    <3> QED
      BY <2>1, <3>1
  <2> QED
    BY <2>2, <2>3
<1>2. Dropped(ns, U) = [n \in Nets |-> Dropped(ns, U)[n]]
  BY DEF Dropped
<1> QED
  BY <1>1, <1>2

\* The contribution client's managers do not clean up by themselves.
LEMMA NoAutoCleanup ==
  ASSUME IInv, NEW m \in Managers, NEW S \in SUBSET Nets, NEW ns \in [Nets -> NetData],
         MaybeAutoCleanup(m, S, ns)
  PROVE  net' = ns /\ modelDatas' = [modelDatas EXCEPT ![m] = S]
<1>1. AutoUnused(S, ns) = {}
  BY Basics DEF AutoUnused, autoCleanup
<1>2. Dropped(ns, {}) = ns
  BY DEF Dropped
<1> QED
  BY <1>1, <1>2 DEF MaybeAutoCleanup

\* What is unloaded is in no game.
LEMMA CleanupKeeps ==
  ASSUME IInv, NEW m \in Managers, NEW old, cleanupUnusedModelsOlderThan(m, old),
         Games' = Games, numRatingGamesActive' = numRatingGamesActive
  PROVE  /\ modelDatas' \in [Managers -> SUBSET Nets] /\ net' \in [Nets -> NetData]
         /\ command' = command /\ Kept' /\ Counted' /\ \A g \in Games : Provided(g[3])'
<1>1. /\ modelDatas \in [Managers -> SUBSET Nets] /\ net \in [Nets -> NetData]
      /\ Kept /\ Counted /\ Held
  BY Basics
<1>2. /\ old \in SUBSET UnusedIn(modelDatas[m], net)
      /\ modelDatas' = [modelDatas EXCEPT ![m] = @ \ old] /\ net' = Dropped(net, old)
      /\ command' = command
  BY DEF cleanupUnusedModelsOlderThan
<1>3. \A n \in old : n \in modelDatas[m] /\ n \in Nets /\ net[n].acquireCount <= 0
  BY <1>1, <1>2 DEF UnusedIn
<1>4. modelDatas' \in [Managers -> SUBSET Nets]
  BY <1>1, <1>2
<1>5. /\ net' \in [Nets -> NetData]
      /\ \A n \in Nets : /\ net'[n].acquireCount = net[n].acquireCount
                         /\ net'[n].name = net[n].name /\ net'[n].manager = net[n].manager
                         /\ n \notin old => net'[n] = net[n]
  BY <1>1, <1>2, DroppedNets
<1>6. \A k \in Managers : modelDatas'[k] = IF k = m THEN modelDatas[k] \ old ELSE modelDatas[k]
  BY <1>1, <1>2
<1>7. Kept'
  <2>1. \A k \in Managers : \A n \in modelDatas'[k] :
          n \in modelDatas[k] /\ n \in Nets /\ n \notin old
    <3> SUFFICES ASSUME NEW k \in Managers, NEW n \in modelDatas'[k]
                 PROVE  n \in modelDatas[k] /\ n \in Nets /\ n \notin old
      OBVIOUS
    <3>1. n \in modelDatas[k] /\ n \in Nets
      BY <1>1, <1>6
    <3>2. k # m => n \notin old
      BY <1>1, <1>3, <3>1 DEF Kept
    <3> QED
      BY <1>6, <3>1, <3>2
  <2> QED
    BY <1>1, <1>5, <2>1 DEF Kept
<1>8. Counted'
  BY <1>1, <1>5 DEF Counted, Uses, BlackOf, WhiteOf, RatingOf
<1>9. ASSUME NEW g \in Games PROVE Provided(g[3])'
  <2>1. Provided(g[3])
    BY <1>1, GamesProvided
  <2>2. g[3].nnEvalBlack \notin old /\ g[3].nnEvalWhite \notin old
    BY <1>3, NotInUse
  <2> QED
    BY <1>6, <2>1, <2>2, Constants DEF Provided
<1> QED
  BY <1>2, <1>4, <1>5, <1>7, <1>8, <1>9

\* A task loop unloads the nets that are not in use.
LEMMA CleanupStepKeeps ==
  ASSUME IInv, NEW t \in TaskLoops, CleanupRating(t) \/ ChooseManagers(t) \/ CleanupRatingAgain(t)
  PROVE  IInv'
<1>1. tasker \in [TaskLoops -> TaskerData] /\ TaskOK(t) /\ Locked
  BY Basics DEF Tasks
<1>2. PICK m, old : m \in Used /\ cleanupUnusedModelsOlderThan(m, old)
  BY DEF CleanupRating, ChooseManagers, CleanupRatingAgain, Used
<1>3. PICK pc \in {"ask", "cleanRating", "loadBlack"}, b \in Used \cup {NONE}, w \in Used \cup {NONE} :
        /\ tasker' = [tasker EXCEPT ![t].pc = pc, ![t].blackManager = b, ![t].whiteManager = w]
        /\ pc = "ask" <=> tasker[t].pc = "locked"
        /\ tasker[t].pc \in {"locked", "present", "cleanRating"}
        /\ pc # "ask" => b \in Used /\ w \in Used
  <2>1. CASE CleanupRating(t) \/ CleanupRatingAgain(t)
    <3>1. PICK pc \in {"ask", "loadBlack"} :
            /\ tasker' = [tasker EXCEPT ![t].pc = pc]
            /\ pc = "ask" => tasker[t].pc = "locked"
            /\ pc = "loadBlack" => tasker[t].pc = "cleanRating"
      BY <2>1 DEF CleanupRating, CleanupRatingAgain, GoTask, Tasking
    <3>2. tasker' = [tasker EXCEPT ![t].pc = pc, ![t].blackManager = tasker[t].blackManager,
                                   ![t].whiteManager = tasker[t].whiteManager]
      BY <1>1, <3>1 DEF TaskerData
    <3>3. /\ tasker[t].blackManager \in Used \cup {NONE} /\ tasker[t].whiteManager \in Used \cup {NONE}
      BY <1>1 DEF TaskerData
    <3>4. pc # "ask" => tasker[t].blackManager \in Used /\ tasker[t].whiteManager \in Used
      BY <1>1, <3>1 DEF TaskOK, Managed, Chosen
    <3>5. pc = "ask" <=> tasker[t].pc = "locked"
      BY <3>1
    <3>6. tasker[t].pc \in {"locked", "present", "cleanRating"} /\ pc \in {"ask", "cleanRating", "loadBlack"}
      BY <3>1
    <3> DEFINE bm == tasker[t].blackManager
               wm == tasker[t].whiteManager
    <3> HIDE DEF bm, wm
    <3>7. /\ tasker' = [tasker EXCEPT ![t].pc = pc, ![t].blackManager = bm, ![t].whiteManager = wm]
          /\ bm \in Used \cup {NONE} /\ wm \in Used \cup {NONE}
          /\ pc # "ask" => bm \in Used /\ wm \in Used
      BY <3>2, <3>3, <3>4 DEF bm, wm
    <3> QED
      BY <3>5, <3>6, <3>7
  <2>2. CASE ChooseManagers(t)
    <3>1. PICK b \in Used, w \in Used :
            tasker' = [tasker EXCEPT ![t].pc = "cleanRating", ![t].blackManager = b,
                                     ![t].whiteManager = w]
      BY <2>2 DEF ChooseManagers, ManagerOf, Used
    <3>2. tasker[t].pc = "present"
      BY <2>2 DEF ChooseManagers, Tasking
    <3> QED
      BY <3>1, <3>2
  <2> QED
    BY <2>1, <2>2
<1>4. /\ UNCHANGED <<worker, gameTaskQueue, queueReadOnly, numRatingGamesActive, main, taskLoopMutex>>
  BY DEF CleanupRating, ChooseManagers, CleanupRatingAgain
<1>5. /\ Moves(t) /\ tasker'[t].pc = pc /\ tasker'[t].rep = tasker[t].rep
      /\ tasker'[t].isRatingGame = tasker[t].isRatingGame
      /\ tasker'[t].black = tasker[t].black /\ tasker'[t].white = tasker[t].white
      /\ tasker'[t].blackManager = b /\ tasker'[t].whiteManager = w
  <2> DEFINE r == [tasker[t] EXCEPT !.pc = pc, !.blackManager = b, !.whiteManager = w]
  <2>1. tasker' = [tasker EXCEPT ![t] = r]
    BY <1>3
  <2>2. tasker[t] \in TaskerData /\ pc \in Outside \cup Inside
    BY <1>1, <1>3 DEF Inside, Before, WithTask, Managed, Chosen
  <2>3. r \in TaskerData
    BY <2>2 DEF TaskerData
  <2>4. r.pc = pc /\ r.blackManager = b /\ r.whiteManager = w
    BY <2>2 DEF TaskerData
  <2>5. /\ r.rep = tasker[t].rep /\ r.isRatingGame = tasker[t].isRatingGame
        /\ r.black = tasker[t].black /\ r.white = tasker[t].white
    BY <2>2 DEF TaskerData
  <2> HIDE DEF r
  <2> QED
    BY <1>1, <2>1, <2>3, <2>4, <2>5 DEF Moves
<1>6. TaskOK(t)'
  BY <1>1, <1>3, <1>5 DEF TaskOK, Before, WithTask, Managed, Chosen, Loaded
<1>7. tasker[t].pc \in Inside /\ tasker'[t].pc \in Inside
  BY <1>3, <1>5 DEF Inside, Before, WithTask, Managed, Chosen, Loaded
<1>8. tasker[t].pc \notin {"acquire", "push", "ended"} /\ tasker'[t].pc # "push"
  BY <1>3, <1>5
<1>9. Games' = Games
  BY <1>4, <1>5, <1>8, GamesStay
<1>10. /\ modelDatas' \in [Managers -> SUBSET Nets] /\ net' \in [Nets -> NetData]
       /\ command' = command /\ Kept' /\ Counted' /\ \A g \in Games : Provided(g[3])'
  BY <1>2, <1>4, <1>9, Constants, CleanupKeeps
<1>11. Held'
  BY <1>4, <1>5, <1>8, <1>10, HeldStays
<1>12. Phases'
  BY <1>4, <1>8, PhasesStay
<1>13. Locked' /\ taskLoopMutex' \in TaskLoops \cup {NONE}
  BY <1>4, <1>5, <1>7, LockKept
<1>14. TypeOK'
  BY <1>4, <1>5, <1>10, <1>13 DEF IInv, TypeOK, Moves
<1>15. Tasks'
  BY <1>5, <1>6, <1>7, TasksKept
<1>16. Bounded'
  <2>1. tasker'[t].rep = 0
    BY <1>1, <1>5, <1>8 DEF TaskOK
  <2>2. Spare' = Spare
    BY <1>4, <1>5, <1>8, <2>1, NothingSpared
  <2>3. Admitted' = Admitted
    BY <1>5 DEF Admitted, Moves
  <2> QED
    BY <1>4, <2>2, <2>3, BoundKept
<1> QED
  BY <1>10, <1>11, <1>12, <1>13, <1>14, <1>15, <1>16 DEF IInv

\* A new net takes a number that no manager knows; the nets of the games stay.
LEMMA LoadManagers ==
  ASSUME IInv, NEW m \in Used, NEW name \in Names, Load(m, name),
         Games' = Games, numRatingGamesActive' = numRatingGamesActive
  PROVE  /\ modelDatas' \in [Managers -> SUBSET Nets] /\ net' \in [Nets -> NetData]
         /\ command' = command /\ Kept' /\ Counted' /\ \A g \in Games : Provided(g[3])'
         /\ hasModel(m, name)'
         /\ \A k \in Managers, other \in Names : hasModel(k, other) => hasModel(k, other)'
<1>1. /\ modelDatas \in [Managers -> SUBSET Nets] /\ net \in [Nets -> NetData]
      /\ Kept /\ Counted /\ Held /\ m \in Managers
  BY Basics, Constants
<1>2. CASE hasModel(m, name)
  <2>1. UNCHANGED <<command, modelDatas, net>>
    BY <1>2 DEF Load, managerVars
  <2>2. Kept'
    BY <1>1, <2>1 DEF Kept
  <2>3. Counted'
    BY <1>1, <2>1 DEF Counted, Uses, BlackOf, WhiteOf, RatingOf
  <2>4. \A g \in Games : Provided(g[3])'
    BY <1>1, <2>1, GamesProvided DEF Provided
  <2>5. hasModel(m, name)' /\ \A k \in Managers, other \in Names : hasModel(k, other) => hasModel(k, other)'
    BY <1>2, <2>1 DEF hasModel
  <2> QED
    BY <1>1, <2>1, <2>2, <2>3, <2>4, <2>5
<1>3. CASE ~hasModel(m, name)
  <2>1. PICK n \in Nets : loadModelNoDataWritingLoop(m, n, name)
    BY <1>3 DEF Load
  <2> DEFINE fresh == ModelData(name, m, "none")
             kept == modelDatas[m] \cup {n}
             ns == [net EXCEPT ![n] = fresh]
  <2>2. /\ fresh \in NetData /\ fresh.acquireCount = 0 /\ fresh.name = name
        /\ fresh.manager = m /\ ~fresh.deleted
    BY <1>1 DEF ModelData, NetData
  <2>3. kept \in SUBSET Nets /\ ns \in [Nets -> NetData]
    BY <1>1, <2>2
  <2>4. net[n].deleted /\ MaybeAutoCleanup(m, kept, ns) /\ command' = command
    BY <2>1 DEF loadModelNoDataWritingLoop, IsNextNet, FreeNets
  <2>5. net' = ns /\ modelDatas' = [modelDatas EXCEPT ![m] = kept]
    <3> HIDE DEF kept, ns
    <3> QED
      BY <1>1, <2>3, <2>4, NoAutoCleanup
  <2>6. \A k \in Managers : n \notin modelDatas[k]
    BY <1>1, <2>4 DEF Kept
  <2> HIDE DEF fresh
  <2>7. /\ net'[n] = fresh
        /\ \A i \in Nets : i # n => net'[i] = net[i]
        /\ \A k \in Managers : modelDatas'[k] = IF k = m THEN modelDatas[k] \cup {n} ELSE modelDatas[k]
    BY <1>1, <2>5
  <2>8. modelDatas' \in [Managers -> SUBSET Nets] /\ net' \in [Nets -> NetData]
    BY <1>1, <2>3, <2>5
  <2>9. \A k \in Managers : \A i \in modelDatas[k] : i \in Nets /\ i # n /\ net'[i] = net[i]
    BY <1>1, <2>6, <2>7
  <2>10. Kept'
    <3>1. ASSUME NEW k \in Managers, NEW i \in modelDatas'[k]
          PROVE  ~net'[i].deleted /\ net'[i].manager = k
      <4>1. CASE i = n
        <5>1. k = m
          BY <2>6, <2>7, <4>1
        <5> QED
          BY <2>2, <2>7, <4>1, <5>1
      <4>2. CASE i # n
        <5>1. i \in modelDatas[k]
          BY <2>7, <4>2
        <5> QED
          BY <1>1, <2>9, <5>1 DEF Kept
      <4> QED
        BY <4>1, <4>2
    <3>2. ASSUME NEW k \in Managers, NEW i \in modelDatas'[k], NEW j \in modelDatas'[k],
                 net'[i].name = net'[j].name
          PROVE  i = j
      <4>1. CASE i # n /\ j # n
        <5>1. i \in modelDatas[k] /\ j \in modelDatas[k]
          BY <2>7, <4>1
        <5> QED
          BY <1>1, <2>9, <3>2, <5>1 DEF Kept
      <4>2. ASSUME NEW x \in modelDatas'[k], x # n PROVE net'[x].name = name => k # m
        <5>1. x \in modelDatas[k]
          BY <2>7, <4>2
        <5>2. net'[x] = net[x]
          BY <2>9, <5>1
        <5> QED
          BY <1>3, <5>1, <5>2 DEF hasModel
      <4>3. n \in modelDatas'[k] => k = m
        BY <2>6, <2>7
      <4> QED
        BY <2>2, <2>7, <3>2, <4>1, <4>2, <4>3
    <3> QED
      BY <3>1, <3>2 DEF Kept
  <2>11. Counted'
    <3>1. Uses(Games, n) = 0
      BY <2>6, NotKeptNotUsed
    <3>2. \A i \in Nets : net'[i].acquireCount = Uses(Games, i)
      BY <1>1, <2>2, <2>7, <3>1 DEF Counted
    <3> QED
      BY <1>1, <3>2 DEF Counted, Uses, BlackOf, WhiteOf, RatingOf
  <2>12. \A g \in Games : Provided(g[3])'
    BY <1>1, <2>7, GamesProvided, Constants DEF Provided
  <2>13. hasModel(m, name)'
    BY <1>1, <2>2, <2>7 DEF hasModel
  <2>14. \A k \in Managers, other \in Names : hasModel(k, other) => hasModel(k, other)'
    BY <2>7, <2>9 DEF hasModel
  <2> QED
    BY <2>4, <2>8, <2>10, <2>11, <2>12, <2>13, <2>14
<1> QED
  BY <1>2, <1>3

LEMMA LoadNetsKeeps ==
  ASSUME IInv, NEW t \in TaskLoops, LoadNets(t)
  PROVE  IInv'
<1>1. tasker \in [TaskLoops -> TaskerData] /\ TaskOK(t) /\ Locked
  BY Basics DEF Tasks
<1>2. PICK pc \in {"loadWhite", "loaded"} :
        /\ tasker' = [tasker EXCEPT ![t].pc = pc]
        /\ pc = "loadWhite" => tasker[t].pc = "loadBlack" /\ Load(tasker[t].blackManager, tasker[t].black)
        /\ pc = "loaded" => tasker[t].pc = "loadWhite" /\ Load(tasker[t].whiteManager, tasker[t].white)
  <2>1. \/ tasker[t].pc = "loadBlack" /\ Load(tasker[t].blackManager, tasker[t].black)
        \/ tasker[t].pc = "loadWhite" /\ Load(tasker[t].whiteManager, tasker[t].white)
    BY DEF LoadNets, Tasking
  <2>2. tasker' = [tasker EXCEPT ![t].pc = IF tasker[t].pc = "loadBlack" THEN "loadWhite" ELSE "loaded"]
    BY DEF LoadNets, Tasking, GoTask
  <2> QED
    BY <2>1, <2>2
<1>3. UNCHANGED <<worker, gameTaskQueue, queueReadOnly, numRatingGamesActive, main, taskLoopMutex>>
  BY DEF LoadNets
<1>4. /\ Moves(t) /\ tasker'[t].pc = pc /\ tasker'[t].rep = tasker[t].rep
      /\ tasker'[t].isRatingGame = tasker[t].isRatingGame
      /\ tasker'[t].black = tasker[t].black /\ tasker'[t].white = tasker[t].white
      /\ tasker'[t].blackManager = tasker[t].blackManager
      /\ tasker'[t].whiteManager = tasker[t].whiteManager
  BY <1>1, <1>2 DEF Moves, TaskerData, Inside, WithTask, Managed, Loaded
<1>5. tasker[t].pc \in Inside /\ tasker'[t].pc \in Inside
  BY <1>2, <1>4 DEF Inside, Before, WithTask, Managed, Chosen, Loaded
<1>6. tasker[t].pc \notin {"acquire", "push", "ended"} /\ tasker'[t].pc # "push"
  BY <1>2, <1>4
<1>7. Games' = Games
  BY <1>3, <1>4, <1>6, GamesStay
<1>8. /\ tasker[t].black \in Names /\ tasker[t].white \in Names
      /\ tasker[t].blackManager \in Used /\ tasker[t].whiteManager \in Used
      /\ tasker[t].pc = "loadWhite" => hasModel(tasker[t].blackManager, tasker[t].black)
  BY <1>1, <1>2 DEF TaskOK, WithTask, Managed, Chosen, Loaded
<1>9. PICK m \in Used, name \in Names :
        /\ Load(m, name)
        /\ pc = "loadWhite" => m = tasker[t].blackManager /\ name = tasker[t].black
        /\ pc = "loaded" => m = tasker[t].whiteManager /\ name = tasker[t].white
  BY <1>2, <1>8
<1>10. /\ modelDatas' \in [Managers -> SUBSET Nets] /\ net' \in [Nets -> NetData]
       /\ command' = command /\ Kept' /\ Counted' /\ \A g \in Games : Provided(g[3])'
       /\ hasModel(m, name)'
       /\ \A k \in Managers, other \in Names : hasModel(k, other) => hasModel(k, other)'
  BY <1>3, <1>7, <1>9, LoadManagers
<1>11. TaskOK(t)'
  <2>1. pc = "loadWhite" => hasModel(tasker[t].blackManager, tasker[t].black)'
    BY <1>4, <1>9, <1>10 DEF hasModel
  <2>2. pc = "loaded" => hasModel(tasker[t].whiteManager, tasker[t].white)'
    BY <1>4, <1>9, <1>10 DEF hasModel
  <2>3. pc = "loaded" => hasModel(tasker[t].blackManager, tasker[t].black)'
    BY <1>2, <1>4, <1>8, <1>10, Constants DEF hasModel
  <2>4. tasker[t].rep = 0
    BY <1>1, <1>6 DEF TaskOK
  <2> QED
    BY <1>1, <1>2, <1>4, <1>8, <2>1, <2>2, <2>3, <2>4
    DEF TaskOK, Before, WithTask, Managed, Chosen, Loaded
<1>12. Held'
  BY <1>3, <1>4, <1>6, <1>10, HeldStays
<1>13. Phases'
  BY <1>3, <1>6, PhasesStay
<1>14. Locked' /\ taskLoopMutex' \in TaskLoops \cup {NONE}
  BY <1>3, <1>4, <1>5, LockKept
<1>15. TypeOK'
  BY <1>3, <1>4, <1>10, <1>14 DEF IInv, TypeOK, Moves
<1>16. Tasks'
  BY <1>4, <1>5, <1>11, TasksKept
<1>17. Bounded'
  <2>1. tasker'[t].rep = 0
    BY <1>1, <1>4, <1>6 DEF TaskOK
  <2>2. Spare' = Spare
    BY <1>3, <1>4, <1>6, <2>1, NothingSpared
  <2>3. Admitted' = Admitted
    BY <1>4 DEF Admitted, Moves
  <2> QED
    BY <1>3, <2>2, <2>3, BoundKept
<1> QED
  BY <1>10, <1>12, <1>13, <1>14, <1>15, <1>16, <1>17 DEF IInv

-----------------------------------------------------------------------------
(* Handing out games                                                       *)

LEMMA AcquiredNets ==
  ASSUME NEW ns \in [Nets -> NetData], NEW n \in Nets
  PROVE  /\ acquired(ns, n) \in [Nets -> NetData]
         /\ \A i \in Nets :
              /\ acquired(ns, n)[i].acquireCount = ns[i].acquireCount + (IF i = n THEN 1 ELSE 0)
              /\ acquired(ns, n)[i].name = ns[i].name
              /\ acquired(ns, n)[i].manager = ns[i].manager
              /\ acquired(ns, n)[i].deleted = ns[i].deleted
<1> DEFINE r == [ns[n] EXCEPT !.acquireCount = ns[n].acquireCount + 1]
<1>1. ns[n] \in NetData /\ ns[n].acquireCount \in Int
  BY DEF NetData
<1>2. /\ r \in NetData /\ r.acquireCount = ns[n].acquireCount + 1 /\ r.name = ns[n].name
      /\ r.manager = ns[n].manager /\ r.deleted = ns[n].deleted
  BY <1>1 DEF NetData
<1>3. acquired(ns, n) = [ns EXCEPT ![n] = r]
  BY DEF acquired
<1> HIDE DEF r
<1>4. \A i \in Nets : ns[i].acquireCount \in Int
  BY DEF NetData
<1> QED
  BY <1>2, <1>3, <1>4

LEMMA AcquireNetsKeeps ==
  ASSUME IInv, NEW t \in TaskLoops, AcquireNets(t)
  PROVE  IInv'
<1>1. /\ modelDatas \in [Managers -> SUBSET Nets] /\ net \in [Nets -> NetData]
      /\ tasker \in [TaskLoops -> TaskerData] /\ tasker[t] \in TaskerData
      /\ TaskOK(t) /\ Locked /\ Kept /\ Counted /\ numRatingGamesActive \in Int
  BY Basics DEF Tasks
<1>2. /\ tasker[t].pc = "acquire"
      /\ UNCHANGED <<command, modelDatas, worker, taskLoopMutex, gameTaskQueue, queueReadOnly, main>>
  BY DEF AcquireNets, Tasking
<1>3. PICK black, white :
        /\ black = Named(modelDatas[tasker[t].blackManager], net, tasker[t].black)
        /\ white = Named(modelDatas[tasker[t].whiteManager], net, tasker[t].white)
  OBVIOUS
<1>4. /\ hasModel(tasker[t].blackManager, tasker[t].black)
      /\ hasModel(tasker[t].whiteManager, tasker[t].white)
      /\ net' = acquired(acquired(net, black), white)
      /\ tasker' = [tasker EXCEPT ![t].pc = "push", ![t].nnEvalBlack = black,
                                  ![t].nnEvalWhite = white]
      /\ numRatingGamesActive' = numRatingGamesActive + (IF tasker[t].isRatingGame THEN 1 ELSE 0)
  BY <1>3 DEF AcquireNets
<1>5. /\ tasker[t].blackManager \in Used /\ tasker[t].whiteManager \in Used
      /\ tasker[t].black \in Names /\ tasker[t].white \in Names
  BY <1>1, <1>2 DEF TaskOK, Managed, WithTask, Loaded
<1>6. /\ black \in modelDatas[tasker[t].blackManager] /\ black \in Nets /\ black # NONE
      /\ white \in modelDatas[tasker[t].whiteManager] /\ white \in Nets /\ white # NONE
  <2>1. black \in modelDatas[tasker[t].blackManager]
    BY <1>3, <1>4 DEF hasModel, Named
  <2>2. white \in modelDatas[tasker[t].whiteManager]
    BY <1>3, <1>4 DEF hasModel, Named
  <2> QED
    BY <1>1, <1>5, <2>1, <2>2, Constants
<1>7. /\ net' \in [Nets -> NetData]
      /\ \A i \in Nets :
           /\ net'[i].acquireCount
                = net[i].acquireCount + (IF i = black THEN 1 ELSE 0) + (IF i = white THEN 1 ELSE 0)
           /\ net'[i].name = net[i].name /\ net'[i].manager = net[i].manager
           /\ net'[i].deleted = net[i].deleted
  <2> DEFINE ns == acquired(net, black)
  <2>1. /\ ns \in [Nets -> NetData]
        /\ \A i \in Nets : /\ ns[i].acquireCount = net[i].acquireCount + (IF i = black THEN 1 ELSE 0)
                           /\ ns[i].name = net[i].name /\ ns[i].manager = net[i].manager
                           /\ ns[i].deleted = net[i].deleted
    BY <1>1, <1>6, AcquiredNets
  <2>2. net' = acquired(ns, white)
    BY <1>4
  <2> HIDE DEF ns
  <2> QED
    BY <1>6, <2>1, <2>2, AcquiredNets
<1> DEFINE r == [tasker[t] EXCEPT !.pc = "push", !.nnEvalBlack = black, !.nnEvalWhite = white]
<1>8. /\ r \in TaskerData /\ r.pc = "push" /\ r.nnEvalBlack = black /\ r.nnEvalWhite = white
      /\ r.isRatingGame = tasker[t].isRatingGame /\ r.rep = tasker[t].rep
      /\ r.black = tasker[t].black /\ r.white = tasker[t].white
      /\ r.blackManager = tasker[t].blackManager /\ r.whiteManager = tasker[t].whiteManager
  BY <1>1, <1>6 DEF TaskerData, Inside, WithTask, Managed, Loaded
<1>9. tasker' = [tasker EXCEPT ![t] = r]
  BY <1>4
<1> HIDE DEF r
<1>10. Moves(t) /\ tasker'[t] = r
  BY <1>1, <1>8, <1>9 DEF Moves
<1> DEFINE y == <<"task loop", t, GameOf(r, FALSE)>>
<1>11. /\ y[3].nnEvalBlack = black /\ y[3].nnEvalWhite = white
       /\ y[3].isRatingGame = tasker[t].isRatingGame
       /\ y[3].blackManager = tasker[t].blackManager /\ y[3].whiteManager = tasker[t].whiteManager
  BY <1>8 DEF GameOf
<1>12. Games' = Games \cup {y} /\ y \notin Games
  <2>1. Pushed' = Pushed \cup {y}
    <3>1. \A s \in TaskLoops : s # t => tasker'[s] = tasker[s]
      BY <1>10 DEF Moves
    <3>2. ASSUME NEW g \in Pushed' PROVE g \in Pushed \cup {y}
      <4>1. PICK s \in TaskLoops : tasker'[s].pc = "push" /\ g = <<"task loop", s, GameOf(tasker'[s], FALSE)>>
        BY <3>2 DEF Pushed, Tasking, GameOf
      <4>2. CASE s = t
        BY <1>10, <4>1, <4>2
      <4>3. CASE s # t
        BY <3>1, <4>1, <4>3 DEF Pushed, Tasking
      <4> QED
        BY <4>2, <4>3
    <3>3. ASSUME NEW g \in Pushed PROVE g \in Pushed'
      <4>1. PICK s \in TaskLoops : tasker[s].pc = "push" /\ g = <<"task loop", s, GameOf(tasker[s], FALSE)>>
        BY <3>3 DEF Pushed, Tasking
      <4>2. tasker'[s] = tasker[s]
        BY <1>2, <3>1, <4>1
      <4> QED
        BY <4>1, <4>2 DEF Pushed, Tasking, GameOf
    <3>4. y \in Pushed'
      BY <1>8, <1>10 DEF Pushed, Tasking, GameOf
    <3> QED
      BY <3>2, <3>3, <3>4
  <2>2. Queued' = Queued /\ Played' = Played
    BY <1>2 DEF Queued, Played
  <2>3. y \notin Pushed
    BY <1>2 DEF Pushed, Tasking
  <2>4. y \notin Queued /\ y \notin Played
    BY DEF Queued, Played
  <2> HIDE DEF y
  <2> QED
    BY <2>1, <2>2, <2>3, <2>4, GamesSplit
<1>13. IsFiniteSet(Games)
  BY <1>1 DEF Counted
<1> HIDE DEF y
<1>14. /\ IsFiniteSet(Games')
       /\ \A n : Uses(Games', n) = Uses(Games, n) + Sides(y[3], n)
       /\ Cardinality(RatingOf(Games')) = Cardinality(RatingOf(Games)) + CountedRating(y[3])
  BY <1>12, <1>13, GameAdded
<1>15. Counted'
  <2>1. \A n \in Nets : net'[n].acquireCount = Uses(Games', n)
    <3>1. \A n \in Nets : net[n].acquireCount \in Int /\ net[n].acquireCount = Uses(Games, n)
      BY <1>1 DEF Counted, NetData
    <3>2. \A n \in Nets : Sides(y[3], n) = (IF n = black THEN 1 ELSE 0) + (IF n = white THEN 1 ELSE 0)
      BY <1>11 DEF Sides
    <3> QED
      BY <1>7, <1>14, <3>1, <3>2
  <2>2. numRatingGamesActive' = Cardinality(RatingOf(Games'))
    BY <1>1, <1>4, <1>11, <1>14 DEF Counted, CountedRating
  <2> QED
    BY <1>14, <2>1, <2>2 DEF Counted, Uses, BlackOf, WhiteOf, RatingOf
<1>16. Kept'
  BY <1>1, <1>2, <1>7 DEF Kept
<1>17. \A g \in Games : Provided(g[3])'
  BY <1>2, GamesProvided, Basics DEF Provided
<1>18. Held'
  <2>1. Provided(GameOf(tasker[t], FALSE))' /\ HasBoth(tasker[t])'
    BY <1>2, <1>5, <1>6, <1>8, <1>10 DEF Provided, HasBoth, GameOf
  <2>2. \A s \in TaskLoops : HeldByTaskLoop(s)'
    BY <1>10, <1>17, <2>1, HeldElsewhere DEF Moves, HeldByTaskLoop
  <2> QED
    BY <1>2, <1>17, <2>2, HeldElsewhere DEF Held
<1>19. Phases'
  BY <1>2, PhasesStay
<1>20. tasker[t].pc \in Inside /\ tasker'[t].pc \in Inside
  BY <1>2, <1>8, <1>10 DEF Inside, WithTask, Managed, Loaded
<1>21. Locked' /\ taskLoopMutex' \in TaskLoops \cup {NONE} /\ taskLoopMutex = t
  BY <1>1, <1>2, <1>10, <1>20, LockKept DEF Locked
<1>22. numRatingGamesActive' \in Int
  BY <1>1, <1>4
<1>23. TypeOK'
  BY <1>2, <1>7, <1>10, <1>21, <1>22 DEF IInv, TypeOK, Moves
<1>24. TaskOK(t)'
  <2>1. /\ hasModel(tasker[t].blackManager, tasker[t].black)'
        /\ hasModel(tasker[t].whiteManager, tasker[t].white)'
    BY <1>1, <1>2, <1>4, <1>5, <1>7, <1>8, <1>10, Constants DEF hasModel
  <2> QED
    BY <1>1, <1>5, <1>8, <1>10, <2>1 DEF TaskOK, Before, WithTask, Managed, Chosen, Loaded
<1>25. Tasks'
  BY <1>10, <1>20, <1>24, TasksKept
<1>26. Bounded'
  <2>1. Admitted' = Admitted
    BY <1>8, <1>10 DEF Admitted, Moves
  <2>2. CASE ~tasker[t].isRatingGame
    <3>1. t \notin Admitted
      BY <2>2 DEF Admitted
    <3>2. Spare' = Spare
      BY <1>2, <1>21, <2>1, <3>1 DEF Spare
    <3>3. numRatingGamesActive' = numRatingGamesActive
      BY <1>1, <1>4, <2>2
    <3> QED
      BY <2>1, <3>2, <3>3, BoundKept
  <2>3. CASE tasker[t].isRatingGame
    <3>1. t \in Admitted
      BY <2>3 DEF Admitted
    <3>2. Done(t) = tasker[t].rep /\ Done(t)' = tasker[t].rep + 1 /\ tasker[t].rep \in Nat
      BY <1>1, <1>2, <1>8, <1>10 DEF Done, TaskerData
    <3>3. Spare' = Spare + 1 /\ Spare \in Nat
      BY <1>2, <1>21, <2>1, <3>1, <3>2 DEF Spare
    <3>4. maxRatingMatches # 0 /\ numRatingGamesActive + Cardinality(Admitted) * taskRepFactor <= Room + Spare
      BY <3>1, Basics DEF Bounded
    <3>5. numRatingGamesActive' = numRatingGamesActive + 1
      BY <1>4, <2>3
    <3>6. Room' = Room /\ Room \in Int
      BY RoomIsInt DEF Room
    <3>7. Cardinality(Admitted) * taskRepFactor \in Int
      BY AdmittedCounts, Constants, Times
    <3>8. numRatingGamesActive' + Cardinality(Admitted') * taskRepFactor <= Room' + Spare'
      BY <1>1, <2>1, <3>3, <3>4, <3>5, <3>6, <3>7
    <3> QED
      BY <3>4, <3>8 DEF Bounded
  <2> QED
    BY <2>2, <2>3
<1> QED
  BY <1>15, <1>16, <1>18, <1>19, <1>21, <1>23, <1>25, <1>26 DEF IInv

\* A game is queued: its task goes on with the lock, or was the last and gives it back.
LEMMA PushGameKeeps ==
  ASSUME IInv, NEW t \in TaskLoops, PushGame(t)
  PROVE  IInv'
<1>1. /\ tasker \in [TaskLoops -> TaskerData] /\ tasker[t] \in TaskerData
      /\ TaskOK(t) /\ Locked /\ Kept /\ Counted /\ Held /\ Phases /\ IsFiniteSet(Games)
  BY Basics DEF Tasks, Counted
<1>2. /\ tasker[t].pc = "push" /\ gameTaskQueue = <<>>
      /\ UNCHANGED <<managerVars, worker, queueReadOnly, numRatingGamesActive, main>>
      /\ UNCHANGED <<command, modelDatas, net>>
  BY DEF PushGame, Tasking, managerVars
<1>3. PICK k : gameTaskQueue' = <<k>> /\ \E swap \in BOOLEAN : k = GameOf(tasker[t], swap)
  BY DEF PushGame
<1> DEFINE last == tasker[t].rep + 1 = taskRepFactor
           r == IF last THEN [Idle EXCEPT !.pc = "top"]
                ELSE [tasker[t] EXCEPT !.pc = "acquire", !.rep = tasker[t].rep + 1]
           x == <<"task loop", t, GameOf(tasker[t], FALSE)>>
           y == <<"queue", 1, k>>
<1>4. tasker' = [tasker EXCEPT ![t] = r] /\ taskLoopMutex' = IF last THEN NONE ELSE taskLoopMutex
  BY DEF PushGame, Leave
<1>5. /\ r \in TaskerData
      /\ last => r.pc = "top" /\ r.rep = 0 /\ ~r.isRatingGame
      /\ ~last => /\ r.pc = "acquire" /\ r.rep = tasker[t].rep + 1
                  /\ r.isRatingGame = tasker[t].isRatingGame
                  /\ r.black = tasker[t].black /\ r.white = tasker[t].white
                  /\ r.blackManager = tasker[t].blackManager /\ r.whiteManager = tasker[t].whiteManager
  <2>1. CASE last
    BY <2>1, Inhabited DEF Outside
  <2>2. CASE ~last
    <3>1. "acquire" \in Outside \cup Inside /\ tasker[t].rep + 1 \in Nat
      BY <1>1 DEF Inside, WithTask, Managed, Loaded, TaskerData
    <3>2. r = [tasker[t] EXCEPT !.pc = "acquire", !.rep = tasker[t].rep + 1]
      BY <2>2
    <3> HIDE DEF r
    <3> QED
      BY <1>1, <2>2, <3>1, <3>2 DEF TaskerData
  <2> QED
    BY <2>1, <2>2
<1> HIDE DEF r
<1>6. Moves(t) /\ tasker'[t] = r /\ r.pc \in {"top", "acquire"}
  BY <1>1, <1>4, <1>5 DEF Moves
<1>7. /\ x \in Games /\ y \notin Games
      /\ Games' = (Games \ {x}) \cup {y}
  <2>1. \A s \in TaskLoops : s # t => tasker'[s] = tasker[s]
    BY <1>6 DEF Moves
  <2>2. Pushed' = Pushed \ {x} /\ x \in Pushed
    <3>1. ASSUME NEW g \in Pushed' PROVE g \in Pushed \ {x}
      <4>1. PICK s \in TaskLoops : tasker'[s].pc = "push" /\ g = <<"task loop", s, GameOf(tasker'[s], FALSE)>>
        BY <3>1 DEF Pushed, Tasking, GameOf
      <4>2. s # t
        BY <1>6, <4>1
      <4> QED
        BY <2>1, <4>1, <4>2 DEF Pushed, Tasking
    <3>2. ASSUME NEW g \in Pushed, g # x PROVE g \in Pushed'
      <4>1. PICK s \in TaskLoops : tasker[s].pc = "push" /\ g = <<"task loop", s, GameOf(tasker[s], FALSE)>>
        BY <3>2 DEF Pushed, Tasking
      <4>2. tasker'[s] = tasker[s]
        BY <2>1, <3>2, <4>1
      <4> QED
        BY <4>1, <4>2 DEF Pushed, Tasking, GameOf
    <3>3. x \in Pushed
      BY <1>2 DEF Pushed, Tasking
    <3> HIDE DEF x
    <3> QED
      BY <3>1, <3>2, <3>3
  <2>3. Queued = {} /\ Queued' = {y}
    <3>1. DOMAIN gameTaskQueue = {}
      BY <1>2
    <3>2. DOMAIN (gameTaskQueue') = {1} /\ gameTaskQueue'[1] = k
      BY <1>3
    <3> QED
      BY <3>1, <3>2 DEF Queued
  <2>4. Played' = Played
    BY <1>2 DEF Played
  <2>5. x \notin Played /\ y \notin Played /\ y \notin Pushed
    BY DEF Played, Pushed
  <2> HIDE DEF x, y
  <2> QED
    BY <2>2, <2>3, <2>4, <2>5, GamesSplit
<1>8. /\ \A n : Sides(x[3], n) = Sides(y[3], n) /\ Sides(x[3], n) \in Int
      /\ CountedRating(x[3]) = CountedRating(y[3]) /\ CountedRating(x[3]) \in Int
  BY <1>3 DEF Sides, CountedRating, GameOf
<1>9. Provided(GameOf(tasker[t], FALSE)) /\ HasBoth(tasker[t])
  BY <1>1, <1>2 DEF Held, HeldByTaskLoop, Tasking
<1>10. Provided(k)' /\ HasBoth(k)
  BY <1>2, <1>3, <1>9 DEF Provided, HasBoth, GameOf
<1>11. \A n : Uses(Games, n) \in Int /\ Cardinality(RatingOf(Games)) \in Int
  BY <1>1, SetsOfGames
<1> HIDE DEF x, y
<1>12. /\ IsFiniteSet(Games')
       /\ \A n : Uses(Games', n) = Uses(Games, n)
       /\ Cardinality(RatingOf(Games')) = Cardinality(RatingOf(Games))
  <2>1. /\ IsFiniteSet(Games')
        /\ \A n : Uses(Games', n) = Uses(Games, n) - Sides(x[3], n) + Sides(y[3], n)
        /\ Cardinality(RatingOf(Games'))
             = Cardinality(RatingOf(Games)) - CountedRating(x[3]) + CountedRating(y[3])
    <3>1. /\ IsFiniteSet((Games \ {x}) \cup {y})
          /\ \A n : Uses((Games \ {x}) \cup {y}, n) = Uses(Games, n) - Sides(x[3], n) + Sides(y[3], n)
          /\ Cardinality(RatingOf((Games \ {x}) \cup {y}))
               = Cardinality(RatingOf(Games)) - CountedRating(x[3]) + CountedRating(y[3])
      BY <1>1, <1>7, GameMoved
    <3> QED
      BY <1>7, <3>1
  <2> QED
    BY <1>8, <1>11, <2>1
<1>13. Counted'
  BY <1>1, <1>2, <1>12 DEF Counted, Uses, BlackOf, WhiteOf, RatingOf
<1>14. Kept'
  BY <1>1, <1>2 DEF Kept
<1>15. Held'
  <2>1. \A g \in Games : Provided(g[3])'
    BY <1>1, <1>2, GamesProvided DEF Provided
  <2>2. \A s \in TaskLoops : HeldByTaskLoop(s)'
    BY <1>6, <2>1, HeldElsewhere DEF Moves, HeldByTaskLoop, Tasking
  <2>3. HeldInQueue'
    BY <1>3, <1>10 DEF HeldInQueue, HasBoth
  <2> QED
    BY <1>2, <2>1, <2>2, <2>3, HeldElsewhere DEF Held
<1>16. Phases'
  <2>1. main = "playing" /\ ~queueReadOnly /\ \A w \in Workers : worker[w].pc # "ended"
    BY <1>1, <1>2 DEF Phases
  <2> QED
    BY <1>1, <1>2, <2>1 DEF Phases
<1>17. tasker[t].pc \in Inside /\ (r.pc \in Inside <=> ~last) /\ taskLoopMutex = t
  <2>1. tasker[t].pc \in Inside /\ (r.pc \in Inside <=> ~last)
    BY <1>2, <1>5 DEF Inside, Before, WithTask, Managed, Chosen, Loaded
  <2> QED
    BY <1>1, <2>1 DEF Locked
<1>18. Locked' /\ taskLoopMutex' \in TaskLoops \cup {NONE}
  BY <1>4, <1>6, <1>17, LockKept
<1>19. TypeOK'
  <2>1. k \in GameTask
    BY <1>1, <1>3 DEF GameOf, GameTask, TaskerData
  <2> QED
    BY <1>2, <1>3, <1>6, <1>18, <2>1 DEF IInv, TypeOK, Moves
<1>20. TaskOK(t)'
  <2>1. CASE last
    BY <1>5, <1>6, <2>1, Constants DEF TaskOK, Before, WithTask, Managed, Chosen, Loaded
  <2>2. CASE ~last
    <3>1. tasker[t].rep + 1 < taskRepFactor
      BY <1>1, <2>2, Constants DEF TaskOK, TaskerData
    <3> QED
      BY <1>1, <1>2, <1>5, <1>6, <2>2, <3>1
      DEF TaskOK, Before, WithTask, Managed, Chosen, Loaded, hasModel
  <2> QED
    BY <2>1, <2>2
<1>21. Tasks'
  BY <1>6, <1>17, <1>20, TasksKept
<1>22. Bounded'
  <2>1. tasker[t].rep \in Nat /\ Done(t) = tasker[t].rep + 1
    BY <1>1, <1>2 DEF Done, TaskerData
  <2>2. CASE ~last
    <3>1. Admitted' = Admitted
      BY <1>5, <1>6, <2>2 DEF Admitted, Moves
    <3>2. Done(t)' = Done(t) /\ taskLoopMutex' = taskLoopMutex
      BY <1>4, <1>5, <1>6, <2>1, <2>2 DEF Done
    <3>3. Spare' = Spare
      BY <1>17, <3>1, <3>2 DEF Spare
    <3> QED
      BY <1>2, <3>1, <3>3, BoundKept
  <2>3. CASE last /\ t \notin Admitted
    <3>1. Admitted' \in SUBSET Admitted
      BY <1>5, <1>6, <2>3 DEF Admitted, Moves
    <3>2. NONE \notin Admitted'
      BY Constants DEF Admitted
    <3>3. Spare' = Spare
      BY <1>4, <1>17, <2>3, <3>2 DEF Spare
    <3> QED
      BY <1>2, <3>1, <3>3, BoundKept
  <2>4. CASE last /\ t \in Admitted
    <3>1. Admitted' = Admitted \ {t}
      BY <1>5, <1>6, <2>4 DEF Admitted, Moves
    <3>2. Cardinality(Admitted') = Cardinality(Admitted) - 1 /\ Cardinality(Admitted) \in Int
      BY <2>4, <3>1, AdmittedCounts, FS_RemoveElement
    <3>3. NONE \notin Admitted'
      BY Constants DEF Admitted
    <3>4. Spare = taskRepFactor /\ Spare' = 0
      BY <1>4, <1>17, <2>1, <2>4, <3>3 DEF Spare
    <3>5. maxRatingMatches # 0 /\ numRatingGamesActive + Cardinality(Admitted) * taskRepFactor <= Room + Spare
      BY <2>4, Basics DEF Bounded
    <3>6. (Cardinality(Admitted) + (-1)) * taskRepFactor
            = Cardinality(Admitted) * taskRepFactor + (-1) * taskRepFactor
          /\ Cardinality(Admitted) * taskRepFactor \in Int
      BY <3>2, Constants, Distributes
    <3>7. Cardinality(Admitted') * taskRepFactor = Cardinality(Admitted) * taskRepFactor - taskRepFactor
      BY <3>2, <3>6, Constants
    <3>8. Room' = Room /\ Room \in Int /\ numRatingGamesActive \in Int
      BY RoomIsInt, Basics DEF Room
    <3>9. numRatingGamesActive' + Cardinality(Admitted') * taskRepFactor <= Room' + Spare'
      BY <1>2, <3>4, <3>5, <3>6, <3>7, <3>8, Constants
    <3> QED
      BY <3>5, <3>9 DEF Bounded
  <2> QED
    BY <2>2, <2>3, <2>4
<1> QED
  BY <1>13, <1>14, <1>15, <1>16, <1>18, <1>19, <1>21, <1>22 DEF IInv

-----------------------------------------------------------------------------
(* Steps of the game threads                                               *)

\* Only the game thread w moves; the nets only change in who is counted for them.
Works(w) ==
  /\ worker' \in [Workers -> WorkerData]
  /\ \A v \in Workers : v # w => worker'[v] = worker[v]
  /\ UNCHANGED <<command, modelDatas, tasker, taskLoopMutex, queueReadOnly, main>>
  /\ net' \in [Nets -> NetData]
  /\ \A n \in Nets : /\ net'[n].name = net[n].name /\ net'[n].manager = net[n].manager
                     /\ net'[n].deleted = net[n].deleted
  /\ gameTaskQueue' = gameTaskQueue \/ gameTaskQueue' = <<>>

LEMMA WorkerStep ==
  ASSUME IInv, NEW w \in Workers, Works(w), worker[w].pc # "ended",
         Counted', HeldByWorker(w)', numRatingGamesActive' <= numRatingGamesActive,
         numRatingGamesActive' \in Nat,
         worker'[w].pc = "ended" => queueReadOnly /\ gameTaskQueue' = <<>>
  PROVE  IInv'
<1>1. /\ modelDatas \in [Managers -> SUBSET Nets] /\ net \in [Nets -> NetData]
      /\ tasker \in [TaskLoops -> TaskerData]
      /\ Locked /\ Tasks /\ Kept /\ Held /\ Phases /\ numRatingGamesActive \in Int
  BY Basics
<1>2. Locked'
  BY <1>1 DEF Locked, Works
<1>3. Kept'
  BY <1>1 DEF Kept, Works
<1>4. Tasks'
  <2>1. ASSUME NEW t \in TaskLoops PROVE TaskOK(t)'
    <3>1. TaskOK(t) /\ tasker' = tasker
      BY <1>1 DEF Tasks, Works
    <3>2. \A m \in Used : \A name : hasModel(m, name) => hasModel(m, name)'
      BY <1>1, Constants DEF hasModel, Works
    <3> QED
      BY <3>1, <3>2 DEF TaskOK, Managed, Loaded, hasModel
  <2> QED
    BY <2>1 DEF Tasks
<1>5. \A g \in Games : Provided(g[3])'
  BY <1>1, GamesProvided DEF Provided, Works
<1>6. Held'
  <2>1. \A s \in TaskLoops : HeldByTaskLoop(s)'
    BY <1>5, HeldElsewhere DEF Works
  <2>2. HeldInQueue'
    <3>1. CASE gameTaskQueue' = gameTaskQueue
      BY <1>5, <3>1, HeldElsewhere
    <3>2. CASE gameTaskQueue' = <<>>
      BY <3>2 DEF HeldInQueue
    <3> QED
      BY <3>1, <3>2 DEF Works
  <2>3. \A v \in Workers : HeldByWorker(v)'
    BY <1>5, HeldElsewhere DEF Works
  <2> QED
    BY <2>1, <2>2, <2>3 DEF Held
<1>7. Phases'
  <2>1. \A v \in Workers : worker'[v].pc = "ended" => queueReadOnly /\ gameTaskQueue' = <<>>
    BY <1>1 DEF Phases, Works
  <2>2. main \in {"playing", "joinWorkers"}
    BY <1>1 DEF Phases
  <2> QED
    BY <1>1, <2>1, <2>2 DEF Phases, Works
<1>8. TypeOK'
  BY DEF IInv, TypeOK, Works
<1>9. Bounded'
  <2>1. Admitted' = Admitted /\ Spare' = Spare /\ Room' = Room
    BY DEF Admitted, Spare, Done, Room, Works
  <2>2. CASE maxRatingMatches = 0
    BY <2>1, <2>2, Basics DEF Bounded
  <2>3. CASE maxRatingMatches # 0
    <3>1. numRatingGamesActive + Cardinality(Admitted) * taskRepFactor <= Room + Spare
      BY <2>3, Basics DEF Bounded
    <3>2. Cardinality(Admitted) * taskRepFactor \in Int /\ Room \in Int /\ Spare \in Nat
      BY AdmittedCounts, Constants, Times, RoomIsInt, SpareTyped
    <3>3. numRatingGamesActive' + Cardinality(Admitted') * taskRepFactor <= Room' + Spare'
      BY <1>1, <2>1, <3>1, <3>2
    <3> QED
      BY <2>3, <3>3 DEF Bounded
  <2> QED
    BY <2>2, <2>3
<1> QED
  BY <1>2, <1>3, <1>4, <1>6, <1>7, <1>8, <1>9 DEF IInv

\* The games when only what the game thread w plays has changed.
LEMMA OthersPlay ==
  ASSUME IInv, NEW w \in Workers, Works(w)
  PROVE  /\ Pushed' = Pushed
         /\ gameTaskQueue' = gameTaskQueue => Queued' = Queued
         /\ \A g \in Played : g[2] # w => g \in Played'
         /\ \A g \in Played' : g[2] # w => g \in Played
         /\ worker[w].pc \notin {"pop", "ended"} =>
              /\ <<"game thread", w, worker[w].game>> \in Played
              /\ \A g \in Played : g[2] = w => g = <<"game thread", w, worker[w].game>>
         /\ worker'[w].pc \notin {"pop", "ended"} =>
              /\ <<"game thread", w, worker'[w].game>> \in Played'
              /\ \A g \in Played' : g[2] = w => g = <<"game thread", w, worker'[w].game>>
         /\ worker[w].pc \in {"pop", "ended"} => \A g \in Played : g[2] # w
         /\ worker'[w].pc \in {"pop", "ended"} => \A g \in Played' : g[2] # w
         /\ \A g \in Pushed \cup Queued : g \notin Played /\ g[1] # "game thread"
<1>1. Pushed' = Pushed /\ (gameTaskQueue' = gameTaskQueue => Queued' = Queued)
  BY DEF Works, Pushed, Queued, Tasking, GameOf
<1>2. \A g \in Played : g[2] # w => g \in Played'
  <2> SUFFICES ASSUME NEW g \in Played, g[2] # w PROVE g \in Played'
    OBVIOUS
  <2>1. PICK v \in Workers : worker[v].pc \notin {"pop", "ended"} /\ g = <<"game thread", v, worker[v].game>>
    BY DEF Played
  <2>2. worker'[v] = worker[v]
    BY <2>1 DEF Works
  <2> QED
    BY <2>1, <2>2 DEF Played
<1>3. \A g \in Played' : g[2] # w => g \in Played
  <2> SUFFICES ASSUME NEW g \in Played', g[2] # w PROVE g \in Played
    OBVIOUS
  <2>1. PICK v \in Workers : worker'[v].pc \notin {"pop", "ended"} /\ g = <<"game thread", v, worker'[v].game>>
    BY DEF Played
  <2>2. worker'[v] = worker[v]
    BY <2>1 DEF Works
  <2> QED
    BY <2>1, <2>2 DEF Played
<1>4. ASSUME NEW g \in Played, g[2] = w
      PROVE  worker[w].pc \notin {"pop", "ended"} /\ g = <<"game thread", w, worker[w].game>>
  <2>1. PICK v \in Workers : worker[v].pc \notin {"pop", "ended"} /\ g = <<"game thread", v, worker[v].game>>
    BY DEF Played
  <2> QED
    BY <1>4, <2>1
<1>5. ASSUME NEW g \in Played', g[2] = w
      PROVE  worker'[w].pc \notin {"pop", "ended"} /\ g = <<"game thread", w, worker'[w].game>>
  <2>1. PICK v \in Workers : worker'[v].pc \notin {"pop", "ended"} /\ g = <<"game thread", v, worker'[v].game>>
    BY DEF Played
  <2> QED
    BY <1>5, <2>1
<1>6. /\ worker[w].pc \notin {"pop", "ended"} => <<"game thread", w, worker[w].game>> \in Played
      /\ worker'[w].pc \notin {"pop", "ended"} => <<"game thread", w, worker'[w].game>> \in Played'
  BY DEF Played
<1>7. ASSUME NEW g \in Pushed \cup Queued PROVE g[1] # "game thread"
  <2>1. CASE g \in Pushed
    <3>1. PICK t \in TaskLoops : g = <<"task loop", t, GameOf(tasker[t], FALSE)>>
      BY <2>1 DEF Pushed
    <3> QED
      BY <3>1
  <2>2. CASE g \in Queued
    <3>1. PICK i \in DOMAIN gameTaskQueue : g = <<"queue", i, gameTaskQueue[i]>>
      BY <2>2 DEF Queued
    <3> QED
      BY <3>1
  <2> QED
    BY <2>1, <2>2
<1>8. ASSUME NEW g \in Played PROVE g[1] = "game thread"
  <2>1. PICK v \in Workers : g = <<"game thread", v, worker[v].game>>
    BY DEF Played
  <2> QED
    BY <2>1
<1> QED
  BY <1>1, <1>2, <1>3, <1>4, <1>5, <1>6, <1>7, <1>8

LEMMA MovedCounted ==
  ASSUME IInv, NEW x \in Games, NEW y, y \notin Games, Games' = (Games \ {x}) \cup {y},
         \A n \in Nets : net'[n].acquireCount = net[n].acquireCount - Sides(x[3], n) + Sides(y[3], n),
         y[3].isRatingGame = x[3].isRatingGame, numRatingGamesActive' = numRatingGamesActive
  PROVE  Counted' /\ numRatingGamesActive' \in Nat
<1>1. /\ IsFiniteSet(Games) /\ \A n \in Nets : net[n].acquireCount = Uses(Games, n)
      /\ numRatingGamesActive = Cardinality(RatingOf(Games))
  BY Basics DEF Counted
<1>2. /\ IsFiniteSet((Games \ {x}) \cup {y})
      /\ \A n : Uses((Games \ {x}) \cup {y}, n) = Uses(Games, n) - Sides(x[3], n) + Sides(y[3], n)
      /\ Cardinality(RatingOf((Games \ {x}) \cup {y}))
           = Cardinality(RatingOf(Games)) - CountedRating(x[3]) + CountedRating(y[3])
  <2> DEFINE G == Games
  <2>1. IsFiniteSet(G) /\ x \in G /\ y \notin G
    BY <1>1
  <2> HIDE DEF G
  <2>2. /\ IsFiniteSet((G \ {x}) \cup {y})
        /\ \A n : Uses((G \ {x}) \cup {y}, n) = Uses(G, n) - Sides(x[3], n) + Sides(y[3], n)
        /\ Cardinality(RatingOf((G \ {x}) \cup {y}))
             = Cardinality(RatingOf(G)) - CountedRating(x[3]) + CountedRating(y[3])
    BY <2>1, GameMoved
  <2> QED
    BY <2>2 DEF G
<1>3. CountedRating(x[3]) = CountedRating(y[3]) /\ CountedRating(x[3]) \in Int
  BY DEF CountedRating
<1>4. Cardinality(RatingOf(Games)) \in Nat
  BY <1>1, SetsOfGames
<1>5. Cardinality(RatingOf(Games')) = numRatingGamesActive'
  BY <1>1, <1>2, <1>3, <1>4
<1>6. \A n \in Nets : net'[n].acquireCount = Uses(Games', n)
  BY <1>1, <1>2
<1>7. IsFiniteSet(Games')
  BY <1>2
<1> QED
  BY <1>1, <1>4, <1>5, <1>6, <1>7 DEF Counted, Uses, BlackOf, WhiteOf, RatingOf

LEMMA PopGameKeeps ==
  ASSUME IInv, NEW w \in Workers, PopGame(w)
  PROVE  IInv'
<1>1. /\ worker \in [Workers -> WorkerData] /\ net \in [Nets -> NetData]
      /\ Held /\ Counted /\ numRatingGamesActive \in Int
  BY Basics
<1>2. /\ worker[w].pc = "pop" /\ gameTaskQueue # <<>>
      /\ UNCHANGED <<managerVars, tasker, taskLoopMutex, queueReadOnly, numRatingGamesActive, main>>
      /\ UNCHANGED <<command, modelDatas, net>>
  BY DEF PopGame, Working, managerVars
<1>3. PICK k \in GameTask : gameTaskQueue = <<k>>
  BY <1>2 DEF IInv, TypeOK
<1>4. /\ gameTaskQueue' = <<>>
      /\ \E pc \in {"play", "releaseBlack"} : worker' = [worker EXCEPT ![w] = [pc |-> pc, game |-> k]]
  <2>1. Tail(<<k>>) = <<>> /\ Head(<<k>>) = k
    OBVIOUS
  <2> QED
    BY <1>3, <2>1 DEF PopGame
<1>5. PICK pc \in {"play", "releaseBlack"} : worker' = [worker EXCEPT ![w] = [pc |-> pc, game |-> k]]
  BY <1>4
<1>6. [pc |-> pc, game |-> k] \in WorkerData
  BY DEF WorkerData
<1>7. worker'[w].pc = pc /\ worker'[w].game = k /\ Works(w)
  BY <1>1, <1>2, <1>4, <1>5, <1>6 DEF Works
<1> DEFINE x == <<"queue", 1, k>>
           y == <<"game thread", w, k>>
<1>8. x \in Games /\ y \notin Games /\ Games' = (Games \ {x}) \cup {y}
  <2>1. Queued = {x} /\ Queued' = {}
    <3>1. DOMAIN gameTaskQueue = {1} /\ gameTaskQueue[1] = k
      BY <1>3
    <3>2. DOMAIN (gameTaskQueue') = {}
      BY <1>4
    <3> QED
      BY <3>1, <3>2 DEF Queued
  <2>2. /\ Pushed' = Pushed
        /\ \A g \in Played : g[2] # w /\ g \in Played'
        /\ \A g \in Played' : g \in Played \/ g = y
        /\ y \in Played'
        /\ \A g \in Pushed \cup Queued : g \notin Played /\ g[1] # "game thread"
    BY <1>2, <1>7, OthersPlay
  <2>3. Played' = Played \cup {y} /\ y \notin Played
    BY <2>2
  <2>4. y \notin Pushed \cup Queued
    BY <2>2
  <2>5. x \notin Pushed
    BY DEF Pushed
  <2>6. x \notin Played
    BY <2>1, <2>2
  <2> HIDE DEF x, y
  <2> QED
    BY <2>1, <2>2, <2>3, <2>4, <2>5, <2>6, GamesSplit
<1>9. Counted' /\ numRatingGamesActive' \in Nat
  <2>1. \A n : Sides(x[3], n) = Sides(y[3], n) /\ Sides(x[3], n) \in Int
    BY DEF Sides
  <2>2. \A n \in Nets : net[n].acquireCount \in Int
    BY <1>1 DEF NetData
  <2>3. \A n \in Nets : net'[n].acquireCount = net[n].acquireCount - Sides(x[3], n) + Sides(y[3], n)
    BY <1>2, <2>1, <2>2
  <2>4. y[3].isRatingGame = x[3].isRatingGame
    OBVIOUS
  <2> HIDE DEF x, y
  <2> QED
    BY <1>2, <1>8, <2>3, <2>4, MovedCounted
<1>10. HeldByWorker(w)'
  <2>1. Provided(k) /\ HasBoth(k)
    BY <1>1, <1>3 DEF Held, HeldInQueue
  <2> QED
    BY <1>2, <1>7, <2>1 DEF HeldByWorker, Provided, HasBoth
<1> QED
  BY <1>1, <1>2, <1>7, <1>9, <1>10, WorkerStep

LEMMA PlayOrEndKeeps ==
  ASSUME IInv, NEW w \in Workers, PlayGame(w) \/ UploadGame(w) \/ EndWorker(w)
  PROVE  IInv'
<1>1. /\ worker \in [Workers -> WorkerData] /\ worker[w] \in WorkerData
      /\ net \in [Nets -> NetData] /\ Held /\ Counted
  BY Basics
<1>2. /\ UNCHANGED <<managerVars, tasker, taskLoopMutex, gameTaskQueue, queueReadOnly,
                     numRatingGamesActive, main>>
      /\ UNCHANGED <<command, modelDatas, net>>
  BY DEF PlayGame, UploadGame, EndWorker, managerVars
<1>3. PICK pc \in {"upload", "releaseBlack", "ended"} :
        /\ worker' = [worker EXCEPT ![w].pc = pc]
        /\ pc # "ended" => worker[w].pc \in {"play", "upload"}
        /\ pc = "ended" => worker[w].pc = "pop" /\ gameTaskQueue = <<>> /\ queueReadOnly
  BY DEF PlayGame, UploadGame, EndWorker, Working, GoWorker
<1>4. worker'[w].pc = pc /\ worker'[w].game = worker[w].game /\ Works(w)
  BY <1>1, <1>2, <1>3 DEF Works, WorkerData
<1>5. Games' = Games
  <2>1. /\ Pushed' = Pushed /\ Queued' = Queued
        /\ \A g \in Played : g[2] # w => g \in Played'
        /\ \A g \in Played' : g[2] # w => g \in Played
    BY <1>2, <1>4, OthersPlay
  <2>2. /\ \A g \in Played : g[2] = w => g \in Played'
        /\ \A g \in Played' : g[2] = w => g \in Played
    <3>1. CASE pc # "ended"
      <4>1. /\ worker[w].pc \notin {"pop", "ended"} /\ worker'[w].pc \notin {"pop", "ended"}
            /\ worker'[w].game = worker[w].game
        BY <1>3, <1>4, <3>1
      <4>2. /\ <<"game thread", w, worker[w].game>> \in Played
            /\ \A g \in Played : g[2] = w => g = <<"game thread", w, worker[w].game>>
        BY <1>4, <4>1, OthersPlay
      <4>3. /\ <<"game thread", w, worker'[w].game>> \in Played'
            /\ \A g \in Played' : g[2] = w => g = <<"game thread", w, worker'[w].game>>
        BY <1>4, <4>1, OthersPlay
      <4> QED
        BY <4>1, <4>2, <4>3
    <3>2. CASE pc = "ended"
      BY <1>3, <1>4, <3>2, OthersPlay
    <3> QED
      BY <3>1, <3>2
  <2>3. Played' = Played
    BY <2>1, <2>2
  <2> QED
    BY <2>1, <2>3, GamesSplit
<1>6. Counted'
  BY <1>1, <1>2, <1>5 DEF Counted, Uses, BlackOf, WhiteOf, RatingOf
<1>7. numRatingGamesActive' \in Nat /\ numRatingGamesActive' <= numRatingGamesActive
  BY <1>1, <1>2, SetsOfGames DEF Counted
<1>8. HeldByWorker(w)'
  <2>1. HeldByWorker(w)
    BY <1>1 DEF Held
  <2> QED
    BY <1>2, <1>3, <1>4, <2>1 DEF HeldByWorker, Provided, HasBoth
<1> QED
  BY <1>2, <1>3, <1>4, <1>6, <1>7, <1>8, WorkerStep

\* The manager still has the net of a game, and counts one user less.
LEMMA ReleasedNets ==
  ASSUME IInv, NEW m \in Used, NEW n \in modelDatas[m], release(m, n)
  PROVE  /\ command' = command /\ modelDatas' = modelDatas /\ net' \in [Nets -> NetData]
         /\ \A i \in Nets : /\ net'[i].name = net[i].name /\ net'[i].manager = net[i].manager
                            /\ net'[i].deleted = net[i].deleted
                            /\ net'[i].acquireCount = net[i].acquireCount - (IF i = n THEN 1 ELSE 0)
<1>1. /\ modelDatas \in [Managers -> SUBSET Nets] /\ net \in [Nets -> NetData] /\ m \in Managers
      /\ n \in Nets
  BY Basics, Constants
<1> DEFINE r == [net[n] EXCEPT !.acquireCount = net[n].acquireCount - 1]
           ns == [net EXCEPT ![n] = r]
<1>2. net[n] \in NetData /\ net[n].acquireCount \in Int
  BY <1>1 DEF NetData
<1>3. /\ r \in NetData /\ r.acquireCount = net[n].acquireCount - 1 /\ r.name = net[n].name
      /\ r.manager = net[n].manager /\ r.deleted = net[n].deleted
  BY <1>2 DEF NetData
<1>4. MaybeAutoCleanup(m, modelDatas[m], ns) /\ command' = command
  BY DEF release
<1> HIDE DEF r
<1>5. ns \in [Nets -> NetData]
  BY <1>1, <1>3
<1>6. net' = ns /\ modelDatas' = [modelDatas EXCEPT ![m] = modelDatas[m]]
  <2>1. modelDatas[m] \in SUBSET Nets
    BY <1>1
  <2> HIDE DEF ns
  <2> QED
    BY <1>1, <1>4, <1>5, <2>1, NoAutoCleanup
<1>7. modelDatas' = modelDatas
  BY <1>1, <1>6
<1>8. \A i \in Nets : net[i].acquireCount \in Int
  BY <1>1 DEF NetData
<1> QED
  BY <1>1, <1>3, <1>4, <1>5, <1>6, <1>7, <1>8

LEMMA ReleaseKeeps ==
  ASSUME IInv, NEW w \in Workers, ReleaseBlack(w) \/ ReleaseWhite(w)
  PROVE  IInv'
<1>1. /\ worker \in [Workers -> WorkerData] /\ worker[w] \in WorkerData
      /\ net \in [Nets -> NetData] /\ Held /\ numRatingGamesActive \in Int
  BY Basics
<1> DEFINE game == worker[w].game
<1>2. PICK k : k = game
  OBVIOUS
<1>3. k \in GameTask /\ HeldByWorker(w) /\ Provided(k) /\ worker[w].pc \in {"releaseBlack", "releaseWhite"}
  BY <1>1, <1>2 DEF WorkerData, Held, HeldByWorker, ReleaseBlack, ReleaseWhite, Working
<1>4. /\ UNCHANGED <<tasker, taskLoopMutex, gameTaskQueue, queueReadOnly, main>>
      /\ numRatingGamesActive' = numRatingGamesActive
  BY DEF ReleaseBlack, ReleaseWhite
<1>5. PICK m \in Used, n \in Nets, pc \in {"releaseWhite", "count"}, new \in GameTask,
             d \in WorkerData :
        /\ n \in modelDatas[m] /\ release(m, n)
        /\ worker' = [worker EXCEPT ![w] = d] /\ d.pc = pc /\ d.game = new
        /\ new.isRatingGame = k.isRatingGame
        /\ new.blackManager = k.blackManager /\ new.whiteManager = k.whiteManager
        /\ \/ /\ pc = "releaseWhite" /\ n = k.nnEvalBlack
              /\ new.nnEvalBlack = NONE /\ new.nnEvalWhite = k.nnEvalWhite /\ k.nnEvalWhite # NONE
           \/ /\ pc = "count" /\ n = k.nnEvalWhite
              /\ new.nnEvalBlack = NONE /\ k.nnEvalBlack = NONE /\ new.nnEvalWhite = NONE
  <2>1. CASE ReleaseBlack(w)
    <3>1. k.nnEvalBlack # NONE /\ k.nnEvalWhite # NONE
      BY <1>2, <1>3, <2>1 DEF ReleaseBlack, Working, HeldByWorker, HasBoth
    <3>2. /\ k.blackManager \in Used /\ k.nnEvalBlack \in modelDatas[k.blackManager]
          /\ k.nnEvalBlack \in Nets
      BY <1>3, <3>1, Constants DEF Provided, GameTask
    <3> DEFINE new == [k EXCEPT !.nnEvalBlack = NONE]
    <3>3. /\ new \in GameTask /\ new.isRatingGame = k.isRatingGame /\ new.blackManager = k.blackManager
          /\ new.whiteManager = k.whiteManager /\ new.nnEvalBlack = NONE
          /\ new.nnEvalWhite = k.nnEvalWhite
      BY <1>3 DEF GameTask
    <3> DEFINE d == [worker[w] EXCEPT !.pc = "releaseWhite", !.game = new]
    <3>4. worker' = [worker EXCEPT ![w] = d]
      BY <1>2, <2>1 DEF ReleaseBlack
    <3>6. d \in WorkerData /\ d.pc = "releaseWhite" /\ d.game = new
      <4> HIDE DEF new
      <4> QED
        BY <1>1, <3>3 DEF WorkerData
    <3>5. release(k.blackManager, k.nnEvalBlack)
      BY <1>2, <2>1 DEF ReleaseBlack
    <3> HIDE DEF new, d
    <3> QED
      BY <3>1, <3>2, <3>3, <3>4, <3>5, <3>6
  <2>2. CASE ReleaseWhite(w)
    <3>1. k.nnEvalBlack = NONE /\ k.nnEvalWhite # NONE
      BY <1>2, <1>3, <2>2 DEF ReleaseWhite, Working, HeldByWorker
    <3>2. /\ k.whiteManager \in Used /\ k.nnEvalWhite \in modelDatas[k.whiteManager]
          /\ k.nnEvalWhite \in Nets
      BY <1>3, <3>1, Constants DEF Provided, GameTask
    <3> DEFINE new == [k EXCEPT !.nnEvalWhite = NONE]
    <3>3. /\ new \in GameTask /\ new.isRatingGame = k.isRatingGame /\ new.blackManager = k.blackManager
          /\ new.whiteManager = k.whiteManager /\ new.nnEvalBlack = NONE
          /\ new.nnEvalWhite = NONE
      BY <1>3, <3>1 DEF GameTask
    <3> DEFINE d == [worker[w] EXCEPT !.pc = "count", !.game = new]
    <3>4. worker' = [worker EXCEPT ![w] = d]
      BY <1>2, <2>2 DEF ReleaseWhite
    <3>6. d \in WorkerData /\ d.pc = "count" /\ d.game = new
      <4> HIDE DEF new
      <4> QED
        BY <1>1, <3>3 DEF WorkerData
    <3>5. release(k.whiteManager, k.nnEvalWhite)
      BY <1>2, <2>2 DEF ReleaseWhite
    <3> HIDE DEF new, d
    <3> QED
      BY <3>1, <3>2, <3>3, <3>4, <3>5, <3>6
  <2> QED
    BY <2>1, <2>2
<1>6. /\ command' = command /\ modelDatas' = modelDatas /\ net' \in [Nets -> NetData]
      /\ \A i \in Nets : /\ net'[i].name = net[i].name /\ net'[i].manager = net[i].manager
                         /\ net'[i].deleted = net[i].deleted
                         /\ net'[i].acquireCount = net[i].acquireCount - (IF i = n THEN 1 ELSE 0)
  BY <1>5, ReleasedNets
<1>7. worker'[w].pc = pc /\ worker'[w].game = new /\ Works(w)
  BY <1>1, <1>4, <1>5, <1>6 DEF Works
<1>9. n \in Nets /\ n # NONE
  BY <1>5, Basics, Constants
<1> DEFINE x == <<"game thread", w, k>>
           y == <<"game thread", w, new>>
<1>10. x \in Games /\ y \notin Games /\ Games' = (Games \ {x}) \cup {y}
  <2>1. new # k
    BY <1>5, <1>9
  <2>2. /\ Pushed' = Pushed /\ Queued' = Queued
        /\ \A g \in Played : g[2] # w => g \in Played'
        /\ \A g \in Played' : g[2] # w => g \in Played
        /\ x \in Played /\ \A g \in Played : g[2] = w => g = x
        /\ y \in Played' /\ \A g \in Played' : g[2] = w => g = y
        /\ \A g \in Pushed \cup Queued : g \notin Played /\ g[1] # "game thread"
    BY <1>2, <1>3, <1>4, <1>7, OthersPlay
  <2>3. x[2] = w /\ y[2] = w /\ x # y
    BY <2>1
  <2>4. Played' = (Played \ {x}) \cup {y} /\ y \notin Played
    <3> HIDE DEF x, y
    <3> QED
      BY <2>2, <2>3
  <2>5. y \notin Pushed \cup Queued
    BY <2>2
  <2> HIDE DEF x, y
  <2> QED
    BY <2>2, <2>4, <2>5, GamesSplit
<1>11. Counted' /\ numRatingGamesActive' \in Nat
  <2>1. ASSUME NEW i \in Nets
        PROVE  net'[i].acquireCount = net[i].acquireCount - Sides(x[3], i) + Sides(y[3], i)
    <3>1. net[i].acquireCount \in Int /\ i # NONE
      BY <1>1, Constants DEF NetData
    <3>2. Sides(x[3], i) = (IF k.nnEvalBlack = i THEN 1 ELSE 0) + (IF k.nnEvalWhite = i THEN 1 ELSE 0)
          /\ Sides(y[3], i) = (IF new.nnEvalBlack = i THEN 1 ELSE 0) + (IF new.nnEvalWhite = i THEN 1 ELSE 0)
      BY DEF Sides
    <3>3. Sides(x[3], i) = Sides(y[3], i) + (IF i = n THEN 1 ELSE 0) /\ Sides(y[3], i) \in Int
      BY <1>5, <3>1, <3>2
    <3> QED
      BY <1>6, <3>1, <3>3
  <2>2. y[3].isRatingGame = x[3].isRatingGame
    BY <1>5
  <2> HIDE DEF x, y
  <2> QED
    BY <1>4, <1>10, <2>1, <2>2, MovedCounted
<1>12. HeldByWorker(w)'
  <2>1. Provided(new)'
    BY <1>3, <1>5, <1>6 DEF Provided
  <2> QED
    BY <1>5, <1>7, <2>1 DEF HeldByWorker, Provided, HasBoth
<1> QED
  BY <1>1, <1>3, <1>4, <1>5, <1>7, <1>11, <1>12, WorkerStep

LEMMA CountDownKeeps ==
  ASSUME IInv, NEW w \in Workers, CountDown(w)
  PROVE  IInv'
<1>1. /\ worker \in [Workers -> WorkerData] /\ worker[w] \in WorkerData
      /\ net \in [Nets -> NetData] /\ Held /\ numRatingGamesActive \in Int
      /\ IsFiniteSet(Games) /\ \A n \in Nets : net[n].acquireCount = Uses(Games, n)
      /\ numRatingGamesActive = Cardinality(RatingOf(Games))
  BY Basics DEF Counted
<1>2. PICK k : k = worker[w].game
  OBVIOUS
<1>3. /\ UNCHANGED <<managerVars, tasker, taskLoopMutex, gameTaskQueue, queueReadOnly, main>>
      /\ UNCHANGED <<command, modelDatas, net>>
      /\ numRatingGamesActive' = numRatingGamesActive - CountedRating(k)
      /\ worker[w].pc = "count"
      /\ worker' = [worker EXCEPT ![w] = [pc |-> "pop", game |-> NoGame]]
  BY <1>2 DEF CountDown, managerVars, Working
<1>4. [pc |-> "pop", game |-> NoGame] \in WorkerData
  BY DEF WorkerData, NoGame, GameTask
<1>5. worker'[w].pc = "pop" /\ Works(w)
  BY <1>1, <1>3, <1>4 DEF Works
<1> DEFINE x == <<"game thread", w, k>>
<1>6. x \in Games /\ Games' = Games \ {x}
  <2>1. /\ Pushed' = Pushed /\ Queued' = Queued
        /\ \A g \in Played : g[2] # w => g \in Played'
        /\ \A g \in Played' : g \in Played /\ g[2] # w
        /\ x \in Played /\ \A g \in Played : g[2] = w => g = x
        /\ \A g \in Pushed \cup Queued : g \notin Played
    BY <1>2, <1>3, <1>5, OthersPlay
  <2>2. x[2] = w
    OBVIOUS
  <2>3. Played' = Played \ {x} /\ x \notin Pushed \cup Queued
    <3> HIDE DEF x
    <3> QED
      BY <2>1, <2>2
  <2> HIDE DEF x
  <2> QED
    BY <2>1, <2>3, GamesSplit
<1>7. k.nnEvalBlack = NONE /\ k.nnEvalWhite = NONE
  BY <1>1, <1>2, <1>3 DEF Held, HeldByWorker
<1>8. \A n \in Nets : Sides(x[3], n) = 0
  BY <1>7, Constants DEF Sides
<1> HIDE DEF x
<1>9. /\ IsFiniteSet(Games \ {x})
      /\ \A n : Uses(Games \ {x}, n) = Uses(Games, n) - Sides(x[3], n)
      /\ Cardinality(RatingOf(Games \ {x})) = Cardinality(RatingOf(Games)) - CountedRating(x[3])
  BY <1>1, <1>6, GameTakenAway
<1>10. x[3] = k
  BY DEF x
<1>11. ASSUME NEW n \in Nets PROVE net'[n].acquireCount = Uses(Games', n)
  <2>1. Uses(Games, n) \in Nat
    BY <1>1, SetsOfGames
  <2>2. Uses(Games', n) = Uses(Games, n) - Sides(x[3], n)
    BY <1>6, <1>9
  <2>3. Sides(x[3], n) = 0 /\ net'[n].acquireCount = Uses(Games, n)
    BY <1>1, <1>3, <1>8
  <2> QED
    BY <2>1, <2>2, <2>3
<1>12. numRatingGamesActive' = Cardinality(RatingOf(Games')) /\ IsFiniteSet(Games')
  BY <1>1, <1>3, <1>6, <1>9, <1>10
<1>13. Counted'
  BY <1>11, <1>12 DEF Counted, Uses, BlackOf, WhiteOf, RatingOf
<1>14. numRatingGamesActive' \in Nat
  BY <1>6, <1>9, <1>12, SetsOfGames
<1>15. numRatingGamesActive' <= numRatingGamesActive
  BY <1>1, <1>3 DEF CountedRating
<1>16. HeldByWorker(w)'
  BY <1>5 DEF HeldByWorker
<1> QED
  BY <1>3, <1>5, <1>13, <1>14, <1>15, <1>16, WorkerStep

-----------------------------------------------------------------------------
(* The main thread                                                         *)

\* Steps that only the phase of the command can notice.
LEMMA SameState ==
  ASSUME IInv, Phases', queueReadOnly' \in BOOLEAN,
         main' \in {"playing", "joinWorkers", "destroySelf", "destroyRating", "ended"},
         UNCHANGED <<command, modelDatas, net, tasker, worker, taskLoopMutex, gameTaskQueue,
                     numRatingGamesActive>>
  PROVE  IInv'
<1>1. TypeOK'
  BY DEF IInv, TypeOK
<1>2. Locked' /\ Kept'
  BY DEF IInv, Locked, Kept
<1>3. Tasks'
  BY DEF IInv, Tasks, TaskOK, hasModel
<1>4. Games' = Games
  BY DEF Games, Tasking, GameOf
<1>5. Counted'
  BY <1>4 DEF IInv, Counted, Uses, BlackOf, WhiteOf, RatingOf
<1>6. \A g \in Games : Provided(g[3])'
  BY GamesProvided, Basics DEF Provided
<1>7. Held'
  BY <1>6, HeldElsewhere DEF Held
<1>8. Admitted' = Admitted /\ Spare' = Spare
  BY DEF Admitted, Spare, Done
<1>9. Bounded'
  BY <1>8, BoundKept
<1> QED
  BY <1>1, <1>2, <1>3, <1>5, <1>7, <1>9 DEF IInv

LEMMA JoinKeeps ==
  ASSUME IInv, JoinTaskLoops \/ JoinWorkers
  PROVE  IInv'
<1>1. Phases
  BY Basics
<1>2. UNCHANGED <<command, modelDatas, net, tasker, worker, taskLoopMutex, gameTaskQueue,
                  numRatingGamesActive>>
  BY DEF JoinTaskLoops, JoinWorkers, managerVars, contributeVars
<1>3. /\ Phases' /\ queueReadOnly' \in BOOLEAN
      /\ main' \in {"playing", "joinWorkers", "destroySelf", "destroyRating", "ended"}
  <2>1. CASE JoinTaskLoops
    BY <1>1, <1>2, <2>1 DEF JoinTaskLoops, Phases, Tasking
  <2>2. CASE JoinWorkers
    BY <1>1, <1>2, <2>2 DEF JoinWorkers, Phases, Working, contributeVars
  <2> QED
    BY <2>1, <2>2
<1> QED
  BY <1>2, <1>3, SameState

\* When the managers go, nobody has a net of theirs.
LEMMA DestroyKeeps ==
  ASSUME IInv, DestroyManagers
  PROVE  IInv'
<1>1. /\ modelDatas \in [Managers -> SUBSET Nets] /\ net \in [Nets -> NetData]
      /\ Locked /\ Tasks /\ Kept /\ Counted /\ Phases
  BY Basics
<1>2. PICK m \in Managers : Destroy(m)
  BY Constants DEF DestroyManagers
<1>3. /\ UNCHANGED <<tasker, worker, taskLoopMutex, gameTaskQueue, queueReadOnly,
                     numRatingGamesActive>>
      /\ main \in {"destroySelf", "destroyRating"} /\ main' \in {"destroyRating", "ended"}
  BY DEF DestroyManagers, contributeVars
<1>4. /\ modelDatas' = [modelDatas EXCEPT ![m] = {}] /\ net' = Dropped(net, modelDatas[m])
      /\ command' = command
  BY <1>2 DEF Destroy
<1>5. /\ \A t \in TaskLoops : tasker[t].pc = "ended"
      /\ \A w \in Workers : worker[w].pc = "ended"
      /\ gameTaskQueue = <<>>
  BY <1>1, <1>3, Constants DEF Phases
<1>6. Games = {} /\ Games' = {}
  <2>1. DOMAIN gameTaskQueue = {} /\ DOMAIN (gameTaskQueue') = {}
    BY <1>3, <1>5
  <2>2. Pushed = {} /\ Pushed' = {}
    BY <1>3, <1>5 DEF Pushed, Tasking
  <2>3. Queued = {} /\ Queued' = {}
    BY <2>1 DEF Queued
  <2>4. Played = {} /\ Played' = {}
    BY <1>3, <1>5 DEF Played
  <2> QED
    BY <2>2, <2>3, <2>4, GamesSplit
<1>7. /\ net' \in [Nets -> NetData]
      /\ \A n \in Nets : /\ net'[n].acquireCount = net[n].acquireCount
                         /\ net'[n].name = net[n].name /\ net'[n].manager = net[n].manager
                         /\ n \notin modelDatas[m] => net'[n] = net[n]
  BY <1>1, <1>4, DroppedNets
<1>8. /\ modelDatas' \in [Managers -> SUBSET Nets]
      /\ \A k \in Managers : modelDatas'[k] = IF k = m THEN {} ELSE modelDatas[k]
  BY <1>1, <1>4
<1>9. Kept'
  <2>1. \A k \in Managers : \A n \in modelDatas'[k] :
          n \in modelDatas[k] /\ n \in Nets /\ net'[n] = net[n]
    <3> SUFFICES ASSUME NEW k \in Managers, NEW n \in modelDatas'[k]
                 PROVE  n \in modelDatas[k] /\ n \in Nets /\ net'[n] = net[n]
      OBVIOUS
    <3>1. k # m /\ n \in modelDatas[k] /\ n \in Nets
      BY <1>1, <1>8
    <3>2. n \notin modelDatas[m]
      BY <1>1, <3>1 DEF Kept
    <3> QED
      BY <1>7, <3>1, <3>2
  <2> QED
    BY <1>1, <2>1 DEF Kept
<1>10. Counted'
  BY <1>1, <1>3, <1>6, <1>7 DEF Counted, Uses, BlackOf, WhiteOf, RatingOf
<1>11. Held'
  BY <1>3, <1>6, HeldElsewhere DEF Held
<1>12. Tasks'
  <2>1. ASSUME NEW t \in TaskLoops PROVE TaskOK(t)'
    <3>1. TaskOK(t) /\ tasker'[t] = tasker[t] /\ tasker[t].pc = "ended"
      BY <1>1, <1>3, <1>5 DEF Tasks
    <3> QED
      BY <3>1 DEF TaskOK, WithTask, Managed, Chosen, Loaded
  <2> QED
    BY <2>1 DEF Tasks
<1>13. Locked'
  BY <1>1, <1>3 DEF Locked
<1>14. Phases'
  BY <1>1, <1>3, <1>5 DEF Phases
<1>15. Admitted' = Admitted /\ Spare' = Spare
  BY <1>3 DEF Admitted, Spare, Done
<1>16. Bounded'
  BY <1>3, <1>15, BoundKept
<1>17. TypeOK'
  BY <1>3, <1>4, <1>7, <1>8 DEF IInv, TypeOK
<1> QED
  BY <1>9, <1>10, <1>11, <1>12, <1>13, <1>14, <1>16, <1>17 DEF IInv

-----------------------------------------------------------------------------
(* The theorems                                                            *)

ContributeStates == <<managerVars, contributeVars, shouldStop, main>>

LEMMA InitIInv ==
  ASSUME command = "contribute", main = "playing", NewManagers, ContributeInit
  PROVE  IInv
<1>1. /\ modelDatas = [m \in Managers |-> {}] /\ net = [n \in Nets |-> NoNet]
      /\ tasker = [t \in TaskLoops |-> Idle]
      /\ worker = [w \in Workers |-> [pc |-> "pop", game |-> NoGame]]
      /\ taskLoopMutex = NONE /\ gameTaskQueue = <<>> /\ queueReadOnly = FALSE
      /\ numRatingGamesActive = 0
  BY DEF NewManagers, ContributeInit
<1>2. NoNet \in NetData /\ NoNet.acquireCount = 0
  <2> DEFINE d == ModelData(0, 0, "none")
  <2>1. d \in NetData /\ d.acquireCount = 0
    BY DEF ModelData, NetData
  <2>2. NoNet = [d EXCEPT !.deleted = TRUE]
    BY DEF NoNet
  <2> HIDE DEF d
  <2> QED
    BY <2>1, <2>2 DEF NetData
<1>3. Idle \in TaskerData /\ Idle.pc = "top" /\ ~Idle.isRatingGame /\ Idle.rep = 0
  BY DEF Idle, TaskerData, Outside
<1>4. [pc |-> "pop", game |-> NoGame] \in WorkerData
  BY DEF WorkerData, NoGame, GameTask
<1>5. TypeOK
  <2>1. modelDatas \in [Managers -> SUBSET Nets] /\ net \in [Nets -> NetData]
    BY <1>1, <1>2
  <2>2. tasker \in [TaskLoops -> TaskerData] /\ worker \in [Workers -> WorkerData]
    BY <1>1, <1>3, <1>4
  <2>3. taskLoopMutex \in TaskLoops \cup {NONE} /\ gameTaskQueue = <<>>
    BY <1>1
  <2>4. queueReadOnly \in BOOLEAN
    BY <1>1
  <2>5. numRatingGamesActive \in Int
    BY <1>1
  <2> QED
    BY <1>1, <2>1, <2>2, <2>3, <2>4, <2>5 DEF TypeOK
<1>6. Locked
  BY <1>1, <1>3, Constants DEF Locked, Inside, Before, WithTask, Managed, Chosen, Loaded
<1>7. Tasks
  BY <1>1, <1>3, Constants DEF Tasks, TaskOK, Before, WithTask, Managed, Chosen, Loaded
<1>8. Kept
  BY <1>1 DEF Kept
<1>9. Games = {}
  <2>1. DOMAIN gameTaskQueue = {}
    BY <1>1
  <2>2. Pushed = {}
    BY <1>1, <1>3 DEF Pushed, Tasking
  <2>3. Queued = {}
    BY <2>1 DEF Queued
  <2>4. Played = {}
    BY <1>1 DEF Played
  <2> QED
    BY <2>2, <2>3, <2>4, GamesSplit
<1>10. Counted
  <2>1. IsFiniteSet({}) /\ Cardinality({}) = 0
    BY FS_EmptySet
  <2>2. \A n : BlackOf({}, n) = {} /\ WhiteOf({}, n) = {} /\ RatingOf({}) = {}
    BY DEF BlackOf, WhiteOf, RatingOf
  <2>3. \A n : Uses({}, n) = 0
    BY <2>1, <2>2 DEF Uses
  <2> QED
    BY <1>1, <1>2, <1>9, <2>1, <2>2, <2>3 DEF Counted
<1>11. Held
  <2>1. DOMAIN gameTaskQueue = {}
    BY <1>1
  <2>2. HeldInQueue
    BY <2>1 DEF HeldInQueue
  <2>3. \A t \in TaskLoops : HeldByTaskLoop(t)
    BY <1>1, <1>3 DEF HeldByTaskLoop, Tasking
  <2>4. \A w \in Workers : HeldByWorker(w)
    BY <1>1 DEF HeldByWorker
  <2> QED
    BY <2>2, <2>3, <2>4 DEF Held
<1>12. Phases
  BY <1>1 DEF Phases
<1>13. Bounded
  <2>1. Admitted = {} /\ Spare = 0
    BY <1>1, <1>3 DEF Admitted, Spare
  <2>2. Cardinality(Admitted) = 0
    BY <2>1, FS_EmptySet
  <2>3. maxRatingMatches # 0 => Room \in Nat
    <3>1. maxRatingMatches # 0 => maxRatingMatches - 1 + Cardinality(TaskLoops) \in Nat
      BY AdmittedCounts, Constants
    <3> QED
      BY <3>1, Constants DEF Room
  <2> QED
    BY <1>1, <2>1, <2>2, <2>3, Constants DEF Bounded
<1> QED
  BY <1>5, <1>6, <1>7, <1>8, <1>10, <1>11, <1>12, <1>13 DEF IInv

LEMMA NextIInv ==
  ASSUME IInv, [ContributeNext \/ ContributeSignal]_ContributeStates
  PROVE  IInv'
<1>1. ASSUME NEW t \in TaskLoops, TaskLoop(t) PROVE IInv'
  BY <1>1, StartTaskLoopKeeps, LockTasksKeeps, LeaveKeeps, CleanupStepKeeps, AskForTaskKeeps,
     FetchingKeeps, DownloadKeeps, LoadNetsKeeps, AcquireNetsKeeps, PushGameKeeps
  DEF TaskLoop
<1>2. ASSUME NEW w \in Workers, RunGameLoop(w) PROVE IInv'
  BY <1>2, PopGameKeeps, PlayOrEndKeeps, ReleaseKeeps, CountDownKeeps DEF RunGameLoop
<1>3. CASE ContributeMain
  BY <1>3, JoinKeeps, DestroyKeeps DEF ContributeMain
<1>4. CASE PreDownload \/ ContributeSignal \/ UNCHANGED ContributeStates
  <2>1. UNCHANGED <<command, modelDatas, net, tasker, worker, taskLoopMutex, gameTaskQueue,
                    queueReadOnly, numRatingGamesActive, main>>
    BY <1>4 DEF PreDownload, ContributeSignal, signalHandler, ContributeStates, managerVars,
                contributeVars
  <2>2. Phases' /\ queueReadOnly' \in BOOLEAN
        /\ main' \in {"playing", "joinWorkers", "destroySelf", "destroyRating", "ended"}
    BY <2>1 DEF IInv, TypeOK, Phases
  <2> QED
    BY <2>1, <2>2, SameState
<1> QED
  BY <1>1, <1>2, <1>3, <1>4 DEF ContributeNext

LEMMA Invariance == ContributeSpec => []IInv
<1>1. ContributeSpec =>
        command = "contribute" /\ main = "playing" /\ NewManagers /\ ContributeInit
  BY DEF ContributeSpec
<1>2. ContributeSpec => IInv
  BY <1>1, InitIInv
<1>3. ContributeSpec => [][ContributeNext \/ ContributeSignal]_ContributeStates
  BY DEF ContributeSpec, ContributeStates
<1> QED
  BY <1>2, <1>3, NextIInv, PTL

\* Nobody takes a net away from a game of the contribution client before it is over: the
\* counts of the nets are the numbers of sides that play with them, over both managers and
\* whatever is unloaded, acquired, passed on through the queue and released in between.
THEOREM ContributeGamesHaveNets == ContributeSpec => []GamesHaveNets
<1>1. IInv => GamesHaveNets
  <2> SUFFICES ASSUME IInv PROVE GamesHaveNets
    OBVIOUS
  <2>1. \A n \in Nets : net[n].acquireCount = Cardinality({g \in Games : g[3].nnEvalBlack = n})
                                             + Cardinality({g \in Games : g[3].nnEvalWhite = n})
    BY Basics DEF Counted, Uses, BlackOf, WhiteOf
  <2>2. \A g \in Games :
          /\ g[3].nnEvalBlack # NONE => g[3].nnEvalBlack \in modelDatas[g[3].blackManager]
          /\ g[3].nnEvalWhite # NONE => g[3].nnEvalWhite \in modelDatas[g[3].whiteManager]
    BY Basics, GamesProvided DEF Provided
  <2>3. \A t \in TaskLoops : Tasking(t, "acquire") =>
          /\ hasModel(tasker[t].blackManager, tasker[t].black)
          /\ hasModel(tasker[t].whiteManager, tasker[t].white)
    BY Basics DEF Tasks, TaskOK, Tasking, Loaded
  <2>4. \A m \in Managers : \A i, j \in modelDatas[m] :
          ~net[i].deleted /\ (net[i].name = net[j].name => i = j)
    BY Basics DEF Kept
  <2>5. \A t \in TaskLoops : Tasking(t, "push") => ~queueReadOnly
    BY Basics DEF Phases, Tasking
  <2> QED
    BY <2>1, <2>2, <2>3, <2>4, <2>5 DEF GamesHaveNets
<1> QED
  BY <1>1, Invariance, PTL

\* The rating games that exist are counted exactly, and the admission of rating tasks, which
\* looks at the count only once, before the lock is dropped for a download, still bounds them.
THEOREM ContributeBoundsRatingGames == ContributeSpec => []RatingGamesBounded
<1>1. IInv => RatingGamesBounded
  <2> SUFFICES ASSUME IInv PROVE RatingGamesBounded
    OBVIOUS
  <2>1. numRatingGamesActive = Cardinality({g \in Games : g[3].isRatingGame})
    BY Basics DEF Counted, RatingOf
  <2>2. ASSUME maxRatingMatches # 0 PROVE numRatingGamesActive <= Room
    <3>1. numRatingGamesActive + Cardinality(Admitted) * taskRepFactor <= Room + Spare
      BY <2>2, Basics DEF Bounded
    <3>2. numRatingGamesActive \in Int /\ Room \in Int
      BY Basics, RoomIsInt
    <3>3. CASE taskLoopMutex \in Admitted
      <4>1. Spare \in Nat /\ Spare <= taskRepFactor
        <5>1. /\ tasker[taskLoopMutex].rep \in Nat
              /\ tasker[taskLoopMutex].rep < taskRepFactor
          BY <3>3, Basics DEF Admitted, Tasks, TaskOK, TaskerData
        <5> QED
          BY <3>3, <5>1, Constants DEF Spare, Done
      <4>2. 1 <= Cardinality(Admitted)
        <5>1. Cardinality(Admitted) # 0
          BY <3>3, AdmittedCounts, FS_EmptySet
        <5> QED
          BY <5>1, AdmittedCounts
      <4>3. 1 * taskRepFactor <= Cardinality(Admitted) * taskRepFactor
            /\ Cardinality(Admitted) * taskRepFactor \in Int
        BY <4>2, AdmittedCounts, Constants, Times
      <4> QED
        BY <3>1, <3>2, <4>1, <4>3, Constants
    <3>4. CASE taskLoopMutex \notin Admitted
      <4>1. Spare = 0
        BY <3>4 DEF Spare
      <4>2. 0 * taskRepFactor <= Cardinality(Admitted) * taskRepFactor
            /\ Cardinality(Admitted) * taskRepFactor \in Int
        BY AdmittedCounts, Constants, Times
      <4> QED
        BY <3>1, <3>2, <4>1, <4>2, Constants
    <3> QED
      BY <3>3, <3>4
  <2>3. maxRatingMatches = 0 => numRatingGamesActive <= 0
    BY Basics DEF Bounded
  <2> QED
    BY <2>1, <2>2, <2>3 DEF RatingGamesBounded, Room
<1> QED
  BY <1>1, Invariance, PTL
=============================================================================
